----------------------------- MODULE Scheduler ------------------------------
(***************************************************************************)
(* The scheduler of libqron: planning, queuing, starting, canceling,       *)
(* aborting and finishing task instances, and the activation of another    *)
(* configuration meanwhile.                                                *)
(*                                                                         *)
(* The scheduler thread runs an event loop.  One event (a request, a       *)
(* posted reevaluation, the stop signal of an executor) is handled to its  *)
(* end before the next one, but its handlers call each other recursively   *)
(* (canceling an instance cancels its herd, whose failure actions plan     *)
(* instances, whose queuing cancels duplicates...), so the thread is       *)
(* modelled by its call stack: a frame is a call that has still to be      *)
(* done, each step does the call on top and pushes the calls it makes.     *)
(* Executor threads write into the instances between any two steps.        *)
(***************************************************************************)
EXTENDS TaskInstance, FiniteSetsExt

CONSTANTS
  Configs,            \* the configurations that may be activated
  FirstConfig,        \* the one that is active at first
  TasksOf,            \* by configuration, that of every task
  MaxTotalTaskInstances,  \* by configuration, the size of its pool
  OnConfigLoad,       \* by configuration, its onconfigload actions
  Outcomes,           \* what an execution of a task may come to
  Capacity,           \* the resources every host offers
  Kinds,              \* the kinds of resources
  MaxQueuedRequests,  \* config().maxqueuedrequests()
  Executors,          \* bound on the executors of the pool, available or busy
  NoExecutor, Temporary,
  Commands,           \* what operators and hosts may do
  Switches,           \* the sets of tasks that operators enable and disable
  Requests,           \* what triggers and users may request
  MaxRequests         \* bound on the requests and the activations

Policies == {"NoFailure", "AllSuccess", "OneSuccess", "OwnStatus", "NoWait"}

\* A plantask action, the only kind of action that creates instances.  An
\* action with lone or without a parent plans outside of any herd.
Action == [task: Tasks, lone: BOOLEAN, force: BOOLEAN, queuewhen: Operator,
           cancelwhen: Operator, watch: SUBSET Tasks]

Outcome == [success: BOOLEAN, stderr: BOOLEAN]

\* balancing "Host": the target is one host; otherwise it is a cluster.
TaskConfig ==
  [maxInstances: Nat, maxQueuedInstances: Nat, keepLast: BOOLEAN,
   herdingPolicy: Policies \cup {"Unknown"}, resources: [Kinds -> Nat],
   balancing: {"Host", "First", "Random", "RoundRobin"}, hosts: Seq(Hosts),
   onplan: Seq(Action), onstart: Seq(Action), onsuccess: Seq(Action),
   onfailure: Seq(Action), onnostderr: Seq(Action)]

\* What a task that the configuration does not have answers to every question.
NullTask ==
  [maxInstances |-> 0, maxQueuedInstances |-> 0, keepLast |-> FALSE,
   herdingPolicy |-> "Unknown", resources |-> [k \in Kinds |-> 0],
   balancing |-> "Host", hosts |-> <<>>, onplan |-> <<>>, onstart |-> <<>>,
   onsuccess |-> <<>>, onfailure |-> <<>>, onnostderr |-> <<>>]

ASSUME ConfigAssumption ==
  /\ FirstConfig \in Configs
  /\ TasksOf \in [Configs -> [Tasks -> TaskConfig]]
  /\ MaxTotalTaskInstances \in [Configs -> Nat]
  /\ OnConfigLoad \in [Configs -> Seq(Action)]
  /\ Outcomes \in [Tasks -> SUBSET Outcome]
  /\ Capacity \in [Hosts -> [Kinds -> Nat]]
  /\ MaxQueuedRequests \in Nat
  /\ MaxRequests \in Nat
  /\ Requests \subseteq Action
  /\ Commands \subseteq {"cancel", "abort", "bytask", "host", "reload",
                  "shutdown"}
  /\ Switches \subseteq SUBSET Tasks

ASSUME ExecutorsAssumption ==
  /\ NoExecutor \notin Executors
  /\ Temporary \notin Executors
  /\ NoExecutor # Temporary
  /\ IsFiniteSet(Executors)
  /\ MaxTotalTaskInstances[FirstConfig] <= Cardinality(Executors)

VARIABLES
  unfinishedTasks,        \* keys of _unfinishedTasks
  unfinishedHerds,        \* every instance of a herd, by herder
  unfinishedHerdedTasks,  \* those a herder still has to wait for
  dirtyHerds,             \* herds whose planned instances need an evaluation
  availableExecutors, runningExecutors,
  runningCount, executionsCount,   \* of every task
  consumedResources,      \* by host and kind
  config,                 \* the active configuration
  repository,             \* what the tasks of each configuration were left with
  copied,                 \* the active tasks that are not those of the repository
  enabled,                \* the enabled tasks
  available,              \* the available hosts
  shutingDown, crashed,
  queuedEvent, plannedEvent,  \* posted and not yet handled reevaluations
  stopped,                \* ids whose taskInstanceStopped signal is posted
  aborting,               \* ids whose executor was asked to abort
  requests,               \* how many requests were made
  cancelReplies,          \* ids returned by doCancelTaskInstance()
  stack                   \* the calls the scheduler thread has to do

indexVars ==
  <<unfinishedTasks, unfinishedHerds, unfinishedHerdedTasks, dirtyHerds>>
poolVars == <<availableExecutors, runningExecutors>>
countVars == <<runningCount, executionsCount, consumedResources>>
settingVars ==
  <<config, repository, copied, enabled, available, shutingDown, requests>>
eventVars == <<queuedEvent, plannedEvent>>
executionVars == <<stopped, aborting>>

vars == <<instanceVars, indexVars, poolVars, countVars, settingVars,
          eventVars, executionVars, crashed, cancelReplies, stack>>

-----------------------------------------------------------------------------
(* The call stack.                                                         *)

FrameOp ==
  {"trigger",      \* triggerActions(): plan the actions acts for parent id
   "planned",      \* the end of doPlanTask() for a herded instance
   "enqueue",      \* enqueueTaskInstance()
   "deduplicate",  \* its loop on the duplicates ids
   "dropped",      \* its return when it canceled the instance itself
   "queue",        \* its end
   "cancel",       \* doCancelTaskInstance()
   "cancelEach",   \* cancel every instance of ids
   "abort",        \* doAbortTaskInstance()
   "abortEach",    \* abort every instance of ids
   "abortHerd",    \* cancelOrAbortHerdedTasks(..., true)
   "aborted",      \* the end of doAbortTaskInstance()
   "stopped",      \* taskInstanceStoppedOrCanceled()
   "settle",       \* its end, for a herder
   "herded",       \* its end, for a herded instance
   "finish",       \* taskInstanceFinishedOrCanceled()
   "forget",       \* its end
   "reload",     \* the loop of activateConfig() on the instances ids
   "start",        \* startAsManyTaskInstancesAsPossible() on ids
   "enqueueEach"}  \* enqueueAsManyTaskInstancesAsPossible() on ids

Loops ==
  {"cancelEach", "abortEach", "abortHerd", "reload", "start", "enqueueEach"}

\* A call is about the instance id, unless it is a loop on ids or the request
\* of somebody else; mark is the parameter markCanceledAsFailure.
Frame ==
  {f \in [op: FrameOp, id: 0..Len(info), ids: SUBSET Created,
          acts: Seq(Action), mark: BOOLEAN] :
     /\ f.op = "trigger" => f.acts # <<>>
     /\ f.op \notin Loops \cup {"trigger"} => f.id # 0}

CallMark(op, i, mark) ==
  [op |-> op, id |-> i, ids |-> {}, acts |-> <<>>, mark |-> mark]
Call(op, i) == CallMark(op, i, FALSE)

Loop(op, i, S) ==
  IF S = {} THEN <<>>
  ELSE << [op |-> op, id |-> i, ids |-> S, acts |-> <<>>, mark |-> FALSE] >>

Trigger(parent, acts) ==
  IF acts = <<>> THEN <<>>
  ELSE << [op |-> "trigger", id |-> parent, ids |-> {}, acts |-> acts,
           mark |-> FALSE] >>

Idle == stack = <<>>
On(op) == stack # <<>> /\ Head(stack).op = op
Top == Head(stack)
Return(frames) == stack' = frames \o Tail(stack)

-----------------------------------------------------------------------------
(* Helpers.                                                                *)

\* The tasks of a configuration.
TasksIn(c) == {t \in Tasks : TasksOf[c][t] # NullTask}
Configured == TasksIn(config)

\* task() asks the active configuration, even for an instance that was planned
\* with another one.
Task == TasksOf[config]
TaskOf(i) == Task[info[i].task]

HerdedTasks(h) == unfinishedHerds[h] \cap unfinishedTasks

\* fetchAndAddRunningCount()
AddRunningCount(t, n) ==
  runningCount' = IF t \in Configured THEN [runningCount EXCEPT ![t] = @ + n]
                  ELSE runningCount

\* reevaluatePlannedTaskInstancesForHerd()
ReevaluatePlanned(h) ==
  /\ dirtyHerds' = dirtyHerds \cup {h}
  /\ plannedEvent' = TRUE

\* Mutant: no event is posted.
ReevaluateNothing == UNCHANGED queuedEvent

\* reevaluateQueuedTaskInstances()
ReevaluateQueued == queuedEvent' = TRUE

\* The actions of triggerFinishActions().
FinishActions(i) ==
  (IF i \in success THEN TaskOf(i).onsuccess ELSE TaskOf(i).onfailure)
  \o (IF i \in stderr THEN <<>> ELSE TaskOf(i).onnostderr)

WatchedIds(i) ==
  IF info[i].watch = {} THEN {info[i].parentid}
  ELSE {j \in unfinishedHerds[info[i].herdid] : info[j].task \in info[i].watch}

Met(operator, i) ==
  Evaluate(operator, WatchedIds(i), HerdedTasks(info[i].herdid), StatusOf)

Queued == {i \in unfinishedTasks : Status(i) = "Queued"}

-----------------------------------------------------------------------------
(* Planning.                                                               *)

\* The herd a plantask action plans into: that of the instance it is an action
\* of, but for lone actions and those without an instance (parent 0).
HerdOf(parent, a) == IF a.lone \/ parent = 0 THEN 0 ELSE info[parent].herdid

\* A cancelwhen condition that is not set is the conjugate of queuewhen.
GuessCancelwhen(queuewhen, cancelwhen) ==
  IF cancelwhen # "" THEN cancelwhen
  ELSE CancelOperatorFromQueueOperator(queuewhen)

\* planOrRequestCommonPostProcess(): a herder gets one more instance to wait for.
AppendToHerd(herder, i) ==
  /\ unfinishedHerds' = [unfinishedHerds EXCEPT ![herder] = @ \cup {i}]
  /\ unfinishedHerdedTasks' = [unfinishedHerdedTasks EXCEPT ![herder] = @ \cup {i}]

\* doPlanTask() for the first of the actions on top of the stack, planned by
\* the instance Top.id (0: by a trigger or a user).
PlanTask ==
  /\ On("trigger")
  /\ LET a == Head(Top.acts)
         i == Len(info) + 1
         herdid == HerdOf(Top.id, a)
         herded == herdid \in unfinishedTasks
         queuewhen == IF ~herded THEN ""
                      ELSE IF a.queuewhen = "" THEN "AllStarted"
                      ELSE a.queuewhen
         cancelwhen == GuessCancelwhen(queuewhen, a.cancelwhen)
         next == Trigger(Top.id, Tail(Top.acts))
     IN  \/ /\ a.task \notin enabled   \* planOrRequestCommonPreProcess()
            /\ Return(next)
            /\ UNCHANGED <<instanceVars, indexVars>>
         \/ /\ a.task \in enabled
            /\ Len(info) < MaxId
            /\ NewInstance(a.task, a.force, herdid, queuewhen,
                           IF herded THEN cancelwhen ELSE "",
                           IF a.queuewhen = "" THEN {} ELSE a.watch, Top.id)
            /\ unfinishedTasks' = unfinishedTasks \cup {i}
            /\ IF herded
               THEN AppendToHerd(herdid, i)
               ELSE UNCHANGED <<unfinishedHerds, unfinishedHerdedTasks>>
            /\ UNCHANGED dirtyHerds
            /\ Return(Trigger(i, Task[a.task].onplan)
                      \o << Call(IF herded THEN "planned" ELSE "enqueue", i) >>
                      \o next)
  /\ UNCHANGED <<poolVars, countVars, settingVars, eventVars, executionVars,
                 crashed, cancelReplies>>

Planned ==
  /\ On("planned")
  /\ ReevaluatePlanned(info[Top.id].herdid)
  /\ Return(<<>>)
  /\ UNCHANGED <<instanceVars, unfinishedTasks, unfinishedHerds,
                 unfinishedHerdedTasks, poolVars, countVars, settingVars,
                 queuedEvent, executionVars, crashed, cancelReplies>>

-----------------------------------------------------------------------------
(* Queuing.                                                                *)

Duplicates(i) == {j \in Queued : info[j].task = info[i].task}

\* How many instances must be canceled for instance i to be queued.
Excess(i) == Cardinality(Duplicates(i)) + 1 - TaskOf(i).maxQueuedInstances

\* The oldest duplicates, or the newest ones, i being the last of the list.
Deduplicated(i) ==
  LET before(j) == Cardinality({k \in Duplicates(i) : k < j})
      after(j) == Cardinality({k \in Duplicates(i) : k > j})
  IN  IF TaskOf(i).maxQueuedInstances = 0 \/ Excess(i) <= 0 THEN {}
      ELSE IF TaskOf(i).keepLast
           THEN {j \in Duplicates(i) : before(j) < Excess(i)}
           ELSE {i} \cup {j \in Duplicates(i) : after(j) < Excess(i) - 1}

EnqueueTaskInstance ==
  /\ On("enqueue")
  /\ LET i == Top.id
         victims == IF info[i].force THEN {} ELSE Deduplicated(i)
     IN  \/ /\ shutingDown
            /\ Return(<<>>)
         \/ /\ ~shutingDown
            /\ ~info[i].force /\ info[i].task \notin enabled
            /\ Return(<< Call("cancel", i) >>)
         \/ /\ ~shutingDown
            /\ info[i].force \/ info[i].task \in enabled
            /\ Return(Loop("deduplicate", i, victims)
                      \o << Call(IF i \in victims THEN "dropped" ELSE "queue",
                                 i) >>)
  /\ UNCHANGED <<instanceVars, indexVars, poolVars, countVars, settingVars,
                 eventVars, executionVars, crashed, cancelReplies>>

Deduplicate ==
  /\ On("deduplicate")
  /\ LET i == Top.id
     IN  \E j \in Top.ids :
           /\ IF TaskOf(i).keepLast THEN \A k \in Top.ids : j <= k
              ELSE \/ j = i
                   \/ i \notin Top.ids /\ (\A k \in Top.ids : j >= k)
           /\ Return(<< Call("cancel", j) >>
                     \o Loop("deduplicate", i, Top.ids \ {j}))
  /\ UNCHANGED <<instanceVars, indexVars, poolVars, countVars, settingVars,
                 eventVars, executionVars, crashed, cancelReplies>>

Dropped ==
  /\ On("dropped")
  /\ ReevaluateQueued
  /\ Return(<<>>)
  /\ UNCHANGED <<instanceVars, indexVars, poolVars, countVars, settingVars,
                 plannedEvent, executionVars, crashed, cancelReplies>>

\* A request that finds the queue full is denied, and stays planned.
Queue ==
  /\ On("queue")
  /\ \/ /\ Cardinality(Queued) >= MaxQueuedRequests
        /\ UNCHANGED <<queue, unfinishedTasks, queuedEvent>>
     \/ /\ Cardinality(Queued) < MaxQueuedRequests
        /\ queue' = queue \cup {Top.id}
        /\ unfinishedTasks' = unfinishedTasks \cup {Top.id}
        /\ ReevaluateQueued
  /\ Return(<<>>)
  /\ UNCHANGED <<info, start, stop, finish, success, stderr, target,
                 unfinishedHerds, unfinishedHerdedTasks, dirtyHerds, poolVars,
                 countVars, settingVars, plannedEvent, executionVars, crashed,
                 cancelReplies>>

-----------------------------------------------------------------------------
(* Canceling and aborting.                                                 *)

\* Mutant: the status of the instance is not checked.
DoCancelAnyTaskInstance ==
  /\ On("cancel")
  /\ cancelReplies' = cancelReplies \cup {Top.id}
  /\ Return(Loop("cancelEach", Top.id, HerdedTasks(Top.id))
            \o << Call("stopped", Top.id) >>)
  /\ UNCHANGED <<instanceVars, indexVars, poolVars, countVars, settingVars,
                 eventVars, executionVars, crashed>>

DoCancelTaskInstance ==
  /\ On("cancel")
  /\ LET i == Top.id
     IN  \/ /\ Status(i) \in UnstartedStatus
            /\ cancelReplies' = cancelReplies \cup {i}
            /\ Return(Loop("cancelEach", i, HerdedTasks(i))
                      \o << Call("stopped", i) >>)
         \/ /\ Status(i) \notin UnstartedStatus
            /\ Return(<<>>)
            /\ UNCHANGED cancelReplies
  /\ UNCHANGED <<instanceVars, indexVars, poolVars, countVars, settingVars,
                 eventVars, executionVars, crashed>>

DoAbortTaskInstance ==
  /\ On("abort")
  /\ LET i == Top.id
     IN  IF i \in unfinishedTasks /\ Status(i) \in {"Running", "Waiting"}
         THEN Return(Loop("abortHerd", i, HerdedTasks(i))
                     \o << Call("aborted", i) >>)
         ELSE Return(<<>>)
  /\ UNCHANGED <<instanceVars, indexVars, poolVars, countVars, settingVars,
                 eventVars, executionVars, crashed, cancelReplies>>

\* executor->abort() posts to the executor thread, which ignores it when it is
\* no longer responsible for the instance.
Aborted ==
  /\ On("aborted")
  /\ aborting' = IF /\ runningExecutors[Top.id] # NoExecutor
                    /\ Top.id \notin stop
                 THEN aborting \cup {Top.id} ELSE aborting
  /\ Return(<<>>)
  /\ UNCHANGED <<instanceVars, indexVars, poolVars, countVars, settingVars,
                 eventVars, stopped, crashed, cancelReplies>>

\* The loops of cancelOrAbortHerdedTasks(), doCancelTaskInstancesByTaskId()
\* and doAbortTaskInstanceByTaskId(): the order of a QSet is arbitrary.
CancelOrAbortEach ==
  /\ stack # <<>> /\ Top.op \in {"cancelEach", "abortEach", "abortHerd"}
  /\ \E j \in Top.ids :
       LET next == Loop(Top.op, Top.id, Top.ids \ {j})
       IN  \/ /\ \/ Top.op = "cancelEach"
                 \/ Top.op = "abortHerd" /\ Status(j) \in UnstartedStatus
              /\ Return(<< Call("cancel", j) >> \o next)
           \/ /\ \/ Top.op = "abortEach"
                 \/ Top.op = "abortHerd" /\ Status(j) = "Running"
              /\ Return(<< Call("abort", j) >> \o next)
           \/ /\ Top.op = "abortHerd"
              /\ Status(j) \notin UnstartedStatus \cup {"Running"}
              /\ Return(next)
  /\ UNCHANGED <<instanceVars, indexVars, poolVars, countVars, settingVars,
                 eventVars, executionVars, crashed, cancelReplies>>

-----------------------------------------------------------------------------
(* Stopping and finishing.                                                 *)

\* taskInstanceStoppedOrCanceled(), once the executor is back in its pool.  A
\* herder first triggers the actions that may create herded instances, to be
\* able to wait for them.
TaskInstanceStoppedOrCanceled ==
  /\ On("stopped")
  /\ LET i == Top.id
     IN  IF IsHerder(i)
         THEN Return((IF Status(i) = "Canceled" THEN <<>>
                      ELSE Trigger(i, FinishActions(i)))
                     \o << CallMark("settle", i, Top.mark) >>)
         ELSE Return(<< CallMark("finish", i, Top.mark), Call("herded", i) >>)
  /\ UNCHANGED <<instanceVars, indexVars, poolVars, countVars, settingVars,
                 eventVars, executionVars, crashed, cancelReplies>>

\* A herder finishes unless it has herded instances to wait for.
Settle ==
  /\ On("settle")
  /\ LET i == Top.id
     IN  \/ /\ \/ Status(i) = "Canceled"
               \/ unfinishedHerdedTasks[i] = {}
               \/ TaskOf(i).herdingPolicy = "NoWait"
            /\ Return(<< CallMark("finish", i, Top.mark) >>)
            /\ UNCHANGED <<dirtyHerds, plannedEvent>>
         \/ /\ Status(i) # "Canceled"
            /\ unfinishedHerdedTasks[i] # {}
            /\ TaskOf(i).herdingPolicy # "NoWait"
            /\ ReevaluatePlanned(i)
            /\ Return(<<>>)
  /\ UNCHANGED <<instanceVars, unfinishedTasks, unfinishedHerds,
                 unfinishedHerdedTasks, poolVars, countVars, settingVars,
                 queuedEvent, executionVars, crashed, cancelReplies>>

\* Mutant: one success does not replace the own success of the herder.
HerderOrOneSuccess(i) ==
  \/ i \in success
  \/ \E j \in HerdedTasks(i) : Status(j) = "Success"

\* The success of an instance once its herd is taken into account.
HerderSuccess(i) ==
  LET herd == HerdedTasks(i)
      own == i \in success
      policy == TaskOf(i).herdingPolicy
  IN  CASE herd = {} -> own
        [] herd # {} /\ policy = "AllSuccess" ->
             own /\ \A j \in herd : Status(j) = "Success"
        [] herd # {} /\ policy = "NoFailure" ->
             own /\ \A j \in herd : Status(j) # "Failure"
        [] herd # {} /\ policy = "OneSuccess" ->
             \E j \in herd : Status(j) = "Success"
        [] OTHER -> own

\* An instance that was never started is canceled, or marked as a failure by
\* setting its start timestamp; one that was started gives back what it used.
TaskInstanceFinishedOrCanceled ==
  /\ On("finish")
  /\ LET i == Top.id
         t == info[i].task
     IN  /\ finish' = finish \cup {i}
         /\ \/ /\ i \notin start
               /\ success' = success \ {i}
               /\ start' = IF Top.mark THEN start \cup {i} ELSE start
               /\ stop' = stop \cup {i}
               /\ Return(<< Call("forget", i) >>)
               /\ UNCHANGED countVars
            \/ /\ i \in start
               /\ success' = IF HerderSuccess(i) THEN success \cup {i}
                             ELSE success \ {i}
               /\ AddRunningCount(t, -1)
               /\ consumedResources' =
                    [consumedResources EXCEPT ![target[i]] =
                       [k \in Kinds |-> @[k] - TaskOf(i).resources[k]]]
               /\ Return((IF IsHerder(i) THEN <<>>
                          ELSE Trigger(i, FinishActions(i)))
                         \o << Call("forget", i) >>)
               /\ UNCHANGED <<start, stop, executionsCount>>
  /\ UNCHANGED <<info, queue, stderr, target, indexVars, poolVars,
                 settingVars, eventVars, executionVars, crashed,
                 cancelReplies>>

\* Mutant: a finished instance is forgotten even if its herder needs it.
ForgottenAtOnce(i) ==
  IF IsHerder(i) THEN {i} \cup {j \in unfinishedHerds[i] : IsFinished(j)}
  ELSE {i}

\* A herder leaves the index with its finished herd; a herded instance only
\* if its herder has already left.
Forgotten(i) ==
  IF IsHerder(i) THEN {i} \cup {j \in unfinishedHerds[i] : IsFinished(j)}
  ELSE IF info[i].herdid \in unfinishedTasks THEN {} ELSE {i}

Forget ==
  /\ On("forget")
  /\ unfinishedTasks' = unfinishedTasks \ Forgotten(Top.id)
  /\ \/ /\ IsHerder(Top.id)
        /\ unfinishedHerds' = [unfinishedHerds EXCEPT ![Top.id] = {}]
        /\ unfinishedHerdedTasks' =
             [unfinishedHerdedTasks EXCEPT ![Top.id] = {}]
     \/ /\ ~IsHerder(Top.id)
        /\ UNCHANGED <<unfinishedHerds, unfinishedHerdedTasks>>
  /\ ReevaluateQueued
  /\ Return(<<>>)
  /\ UNCHANGED <<instanceVars, dirtyHerds, poolVars, countVars, settingVars,
                 plannedEvent, executionVars, crashed, cancelReplies>>

\* The herder of a finished instance finishes too if it was the last one.
HerderFinishes(h, awaited) == awaited = {} /\ Status(h) = "Waiting"

Herded ==
  /\ On("herded")
  /\ LET i == Top.id
         h == info[i].herdid
         awaited == unfinishedHerdedTasks[h] \ {i}
     IN  \/ /\ h \notin unfinishedTasks \/ unfinishedHerds[h] = {}
            /\ Return(<<>>)
            /\ UNCHANGED <<unfinishedHerdedTasks, dirtyHerds, plannedEvent>>
         \/ /\ h \in unfinishedTasks /\ unfinishedHerds[h] # {}
            /\ unfinishedHerdedTasks' =
                 [unfinishedHerdedTasks EXCEPT ![h] = awaited]
            /\ \/ /\ HerderFinishes(h, awaited)
                  /\ Return(<< Call("finish", h) >>)
                  /\ UNCHANGED <<dirtyHerds, plannedEvent>>
               \/ /\ ~HerderFinishes(h, awaited)
                  /\ ReevaluatePlanned(h)
                  /\ Return(<<>>)
  /\ UNCHANGED <<instanceVars, unfinishedTasks, unfinishedHerds, poolVars,
                 countVars, settingVars, queuedEvent, executionVars, crashed,
                 cancelReplies>>

-----------------------------------------------------------------------------
(* Starting.                                                               *)

\* The hosts of a cluster that are in a set.
Among(hosts, set) == SelectSeq(hosts, LAMBDA h : h \in set)

\* The hosts startTaskInstance() tries, in order: the host of the task, even
\* if it is not available, or the available hosts of its cluster.
TriedHosts(i) ==
  LET c == TaskOf(i)
      up == Among(c.hosts, available)
      shift == executionsCount[info[i].task]
  IN  CASE c.balancing = "Host" -> c.hosts
        [] c.balancing = "RoundRobin" ->
             [n \in DOMAIN up |-> up[((n - 1 + shift) % Len(up)) + 1]]
        [] OTHER -> up

Enough(i, h) ==
  \A k \in Kinds : TaskOf(i).resources[k] > 0 =>
    Capacity[h][k] - consumedResources[h][k] >= TaskOf(i).resources[k]

Eligible(i, h) == h \in available /\ (info[i].force \/ Enough(i, h))

\* Where instance i would be started: random balancing shuffles the hosts.
ChosenHosts(i) ==
  LET hosts == TriedHosts(i)
      eligible == {n \in DOMAIN hosts : Eligible(i, hosts[n])}
      tried == IF TaskOf(i).balancing = "Random" THEN eligible
               ELSE {n \in eligible : \A m \in eligible : n <= m}
  IN  {hosts[n] : n \in tried}

\* Mutant: one instance too many is accepted.
TooManyOffByOne(i) == runningCount[info[i].task] > TaskOf(i).maxInstances

TooMany(i) == runningCount[info[i].task] >= TaskOf(i).maxInstances

\* The early returns of startTaskInstance().
Prevented(i) ==
  \/ info[i].task \notin enabled
  \/ ~info[i].force /\ (availableExecutors = {} \/ TooMany(i))

\* Launch instance i on host h.  takeFirst() on an empty list of executors,
\* which only a forced instance reaches, is undefined: it may yield a null
\* pointer, as the code expects, or crash the program.
Launch(i, h, next) ==
  LET t == info[i].task
  IN  /\ AddRunningCount(t, 1)
      /\ consumedResources' =
           IF info[i].force THEN consumedResources
           ELSE [consumedResources EXCEPT ![h] =
                   [k \in Kinds |-> @[k] + TaskOf(i).resources[k]]]
      /\ executionsCount' = [executionsCount EXCEPT ![t] = @ + 1]
      /\ target' = [target EXCEPT ![i] = h]
      /\ start' = start \cup {i}
      /\ \/ \E e \in availableExecutors :
              /\ availableExecutors' = availableExecutors \ {e}
              /\ runningExecutors' = [runningExecutors EXCEPT ![i] = e]
              /\ UNCHANGED crashed
         \/ /\ availableExecutors = {}
            /\ runningExecutors' = [runningExecutors EXCEPT ![i] = Temporary]
            /\ crashed' \in BOOLEAN
            /\ UNCHANGED availableExecutors
      /\ ReevaluateQueued
      /\ Return(Trigger(i, TaskOf(i).onstart) \o next)

\* The instance a loop over ids comes to: the lowest id in the status it is
\* interested in, what it has passed over being in another one.
Lowest(i, ids) == i \in ids /\ \A j \in ids : i <= j
Above(i, ids) == {j \in ids : j > i}

\* startTaskInstance() in the loop of startAsManyTaskInstancesAsPossible().
StartTaskInstance(i) ==
  /\ On("start")
  /\ LET waiting == {j \in Top.ids : Status(j) = "Queued"}
         next == Loop("start", 0, Above(i, waiting))
         keep == UNCHANGED <<start, target, poolVars, countVars, queuedEvent,
                             crashed>>
     IN  /\ Lowest(i, waiting)
         /\ \/ /\ Prevented(i)
               /\ Return(next)
               /\ keep
            \/ /\ ~Prevented(i)
               /\ TriedHosts(i) = <<>>   \* the target is invalid
               /\ Return(<< CallMark("stopped", i, TRUE) >> \o next)
               /\ keep
            \/ /\ ~Prevented(i)
               /\ TriedHosts(i) # <<>> /\ ChosenHosts(i) = {}
               /\ Return(next)
               /\ keep
            \/ /\ ~Prevented(i)
               /\ \E h \in ChosenHosts(i) : Launch(i, h, next)
  /\ UNCHANGED <<info, queue, stop, finish, success, stderr, indexVars,
                 settingVars, plannedEvent, executionVars, cancelReplies>>

\* The loop of enqueueAsManyTaskInstancesAsPossible(): an instance whose
\* herder has not started yet is left alone.
EnqueueOrCancelPlanned(i) ==
  /\ On("enqueueEach")
  /\ LET waiting == {j \in Top.ids : Status(j) = "Planned"}
         h == info[i].herdid
         next == Loop("enqueueEach", 0, Above(i, waiting))
         notYet == h \in unfinishedTasks /\ Status(h) \in UnstartedStatus
         queuewhen == ~notYet /\ Met(info[i].queuewhen, i)
         cancelwhen == ~notYet /\ Met(info[i].cancelwhen, i)
     IN  /\ Lowest(i, waiting)
         /\ \/ queuewhen /\ Return(<< Call("enqueue", i) >> \o next)
            \/ /\ ~queuewhen /\ cancelwhen
               /\ Return(<< Call("cancel", i) >> \o next)
            \/ ~queuewhen /\ ~cancelwhen /\ Return(next)
  /\ UNCHANGED <<instanceVars, indexVars, poolVars, countVars, settingVars,
                 eventVars, executionVars, crashed, cancelReplies>>

\* Each loop ends when it has passed over the last of its instances.
LoopEnds ==
  /\ \/ On("start") /\ \A j \in Top.ids : Status(j) # "Queued"
     \/ On("reload") /\ \A j \in Top.ids : Status(j) \notin UnstartedStatus
     \/ On("enqueueEach") /\ \A j \in Top.ids : Status(j) # "Planned"
  /\ Return(<<>>)
  /\ UNCHANGED <<instanceVars, indexVars, poolVars, countVars, settingVars,
                 eventVars, executionVars, crashed, cancelReplies>>

-----------------------------------------------------------------------------
(* The event loop of the scheduler thread.                                 *)

\* Mutant: the scheduler starts instances while it shuts down.
HandleQueuedEventAnyway ==
  /\ Idle /\ queuedEvent
  /\ queuedEvent' = FALSE
  /\ stack' = Loop("start", 0, unfinishedTasks)
  /\ UNCHANGED <<instanceVars, indexVars, poolVars, countVars, settingVars,
                 plannedEvent, executionVars, crashed, cancelReplies>>

HandleQueuedEvent ==
  /\ Idle /\ queuedEvent
  /\ queuedEvent' = FALSE
  /\ stack' = IF shutingDown THEN <<>> ELSE Loop("start", 0, unfinishedTasks)
  /\ UNCHANGED <<instanceVars, indexVars, poolVars, countVars, settingVars,
                 plannedEvent, executionVars, crashed, cancelReplies>>

HandlePlannedEvent ==
  /\ Idle /\ plannedEvent
  /\ plannedEvent' = FALSE
  /\ \/ /\ shutingDown
        /\ UNCHANGED <<dirtyHerds, stack>>
     \/ /\ ~shutingDown
        /\ dirtyHerds' = {}
        /\ stack' = Loop("enqueueEach", 0,
                      {i \in unfinishedTasks : info[i].herdid \in dirtyHerds})
  /\ UNCHANGED <<instanceVars, unfinishedTasks, unfinishedHerds,
                 unfinishedHerdedTasks, poolVars, countVars, settingVars,
                 queuedEvent, executionVars, crashed, cancelReplies>>

\* The pool once executor e is given back: a temporary executor is deleted.
Pool(e) ==
  IF e = Temporary THEN availableExecutors ELSE availableExecutors \cup {e}

\* Mutant: the instance keeps its executor.
HandleTaskInstanceStoppedKept(i) ==
  /\ Idle /\ i \in stopped
  /\ stopped' = stopped \ {i}
  /\ availableExecutors' = Pool(runningExecutors[i])
  /\ stack' = << Call("stopped", i) >>
  /\ UNCHANGED <<instanceVars, indexVars, runningExecutors, countVars,
                 settingVars, eventVars, aborting, crashed, cancelReplies>>

\* The stop signal of an executor.
HandleTaskInstanceStopped(i) ==
  /\ Idle /\ i \in stopped
  /\ stopped' = stopped \ {i}
  /\ availableExecutors' = Pool(runningExecutors[i])
  /\ runningExecutors' = [runningExecutors EXCEPT ![i] = NoExecutor]
  /\ stack' = << Call("stopped", i) >>
  /\ UNCHANGED <<instanceVars, indexVars, countVars, settingVars, eventVars,
                 aborting, crashed, cancelReplies>>

\* A trigger, a notice or a user calls planTask().
RequestTask(a) ==
  /\ Idle /\ requests < MaxRequests
  /\ requests' = requests + 1
  /\ stack' = Trigger(0, << a >>)
  /\ UNCHANGED <<instanceVars, indexVars, poolVars, countVars, config,
                 repository, copied, enabled, available, shutingDown, eventVars,
                 executionVars, crashed, cancelReplies>>

Command(frames) ==
  /\ Idle /\ frames # <<>>
  /\ stack' = frames
  /\ UNCHANGED <<instanceVars, indexVars, poolVars, countVars, settingVars,
                 eventVars, executionVars, crashed, cancelReplies>>

CancelTaskInstance(i) ==
  "cancel" \in Commands /\ Command(<< Call("cancel", i) >>)

AbortTaskInstance(i) ==
  "abort" \in Commands /\ Command(<< Call("abort", i) >>)

CancelTaskInstancesByTaskId(t) ==
  /\ "bytask" \in Commands
  /\ Command(Loop("cancelEach", 0,
       {i \in unfinishedTasks :
          info[i].task = t /\ Status(i) \in UnstartedStatus}))

AbortTaskInstanceByTaskId(t) ==
  /\ "bytask" \in Commands
  /\ Command(Loop("abortEach", 0,
       {i \in unfinishedTasks :
          info[i].task = t /\ runningExecutors[i] # NoExecutor}))

\* doShutdown() goes on handling events until nothing runs any more.
Shutdown ==
  /\ "shutdown" \in Commands
  /\ Idle /\ ~shutingDown
  /\ shutingDown' = TRUE
  /\ UNCHANGED <<instanceVars, indexVars, poolVars, countVars, config,
                 repository, copied, enabled, available, requests, eventVars,
                 executionVars, crashed, cancelReplies, stack>>

-----------------------------------------------------------------------------
(* Activating another configuration.                                       *)

\* The executors of the pool that are in charge of an instance.
Busy == {runningExecutors[i] : i \in Ids} \cap Executors

\* Executors are created, or those that are available are deleted; when there
\* are not enough of them, the pool stays larger than the configuration says.
ResizePool(c) ==
  LET toAdd == MaxTotalTaskInstances[c] - MaxTotalTaskInstances[config]
      size == Cardinality(availableExecutors) + toAdd
  IN  \E pool \in SUBSET (Executors \ Busy) :
        /\ Cardinality(pool) = IF size < 0 THEN 0 ELSE size
        /\ \/ toAdd >= 0 /\ availableExecutors \subseteq pool
           \/ toAdd < 0 /\ pool \subseteq availableExecutors
        /\ availableExecutors' = pool

\* What a task counts, and whether it is enabled, live in its Task object.
LiveAttributes == [enabled: BOOLEAN, runningCount: Int, executionsCount: Nat]
Attributes(t) ==
  [enabled |-> t \in enabled, runningCount |-> runningCount[t],
   executionsCount |-> executionsCount[t]]

\* The objects of a configuration that was just read.
NewTasks ==
  [t \in Tasks |-> [enabled |-> TRUE, runningCount |-> 0, executionsCount |-> 0]]

\* The tasks that some configuration has not: only these ever go on with what the
\* repository was left with.
Passing == {t \in Tasks : \E c \in Configs : TasksOf[c][t] = NullTask}

\* The objects of the repository: the active configuration shares those of the
\* tasks it was not given a copy of.
Stored(c) ==
  IF c # config THEN repository[c]
  ELSE [t \in Tasks |-> IF t \in (Configured \cap Passing) \ copied
                        THEN Attributes(t) ELSE repository[c][t]]

\* copyLiveAttributesFromOldTasks(): a task that the former configuration has too
\* goes on with what it had, in a copy.  Another one is that of the repository,
\* which may have added the configuration again since it was last active.
CopyLiveAttributes(c) ==
  \E stored \in {Stored(c), NewTasks} :
    LET kept == Configured \cap TasksIn(c)
        live(t) == IF t \in kept THEN Attributes(t) ELSE stored[t]
        counted(t) == IF t \in TasksIn(c) THEN live(t) ELSE NewTasks[t]
    IN  /\ repository' =
             [repository EXCEPT ![config] = Stored(config), ![c] = stored]
        /\ copied' = kept \cap Passing
        /\ enabled' = {t \in TasksIn(c) : live(t).enabled}
        /\ runningCount' = [t \in Tasks |-> counted(t).runningCount]
        /\ executionsCount' = [t \in Tasks |-> counted(t).executionsCount]

ActivateConfig(c) ==
  /\ "reload" \in Commands
  /\ Idle /\ Len(info) + Len(OnConfigLoad[c]) <= MaxId
  /\ requests < MaxRequests /\ requests' = requests + 1
  /\ config' = c
  /\ ResizePool(c)
  /\ CopyLiveAttributes(c)
  /\ ReevaluateQueued
  /\ stack' = Loop("reload", 0, unfinishedTasks) \o Trigger(0, OnConfigLoad[c])
  /\ UNCHANGED <<instanceVars, indexVars, runningExecutors, consumedResources,
                 available, shutingDown, plannedEvent, executionVars, crashed,
                 cancelReplies>>

\* Mutant: only queued instances are looked for.
ReplaceTaskOrCancelQueued(i) ==
  /\ On("reload")
  /\ LET waiting == {j \in Top.ids : Status(j) \in UnstartedStatus}
         next == Loop("reload", 0, Above(i, waiting))
     IN  /\ Lowest(i, waiting)
         /\ \/ /\ info[i].task \notin Configured /\ Status(i) = "Queued"
               /\ Return(<< Call("cancel", i) >> \o next)
            \/ /\ info[i].task \in Configured \/ Status(i) # "Queued"
               /\ Return(next)
  /\ UNCHANGED <<instanceVars, indexVars, poolVars, countVars, settingVars,
                 eventVars, executionVars, crashed, cancelReplies>>

\* The loop of activateConfig(): an instance that is not started gets the new
\* definition of its task, or is canceled if there is none.
ReplaceTaskOrCancel(i) ==
  /\ On("reload")
  /\ LET waiting == {j \in Top.ids : Status(j) \in UnstartedStatus}
         next == Loop("reload", 0, Above(i, waiting))
     IN  /\ Lowest(i, waiting)
         /\ \/ /\ info[i].task \notin Configured
               /\ Return(<< Call("cancel", i) >> \o next)
               /\ UNCHANGED unfinishedTasks
            \/ /\ info[i].task \in Configured
               /\ Return(next)
               /\ unfinishedTasks' = unfinishedTasks \cup {i}
  /\ UNCHANGED <<instanceVars, unfinishedHerds, unfinishedHerdedTasks,
                 dirtyHerds, poolVars, countVars, settingVars, eventVars,
                 executionVars, crashed, cancelReplies>>

-----------------------------------------------------------------------------
(* Other threads.                                                          *)

\* Mutant: enabling tasks posts no reevaluation.
EnableTasksOnly(tasks, enable) ==
  /\ enabled' = IF enable THEN enabled \cup (tasks \cap Configured)
                ELSE enabled \ tasks
  /\ enabled' # enabled
  /\ UNCHANGED <<instanceVars, indexVars, poolVars, countVars, config,
                 repository, copied, available, shutingDown, requests, eventVars,
                 executionVars, crashed, cancelReplies, stack>>

\* enableTask() on one task and enableAllTasks() on all of them are called from
\* any thread, and set the flag without going through the scheduler thread.
EnableTasks(tasks, enable) ==
  /\ enabled' = IF enable THEN enabled \cup (tasks \cap Configured)
                ELSE enabled \ tasks
  /\ enabled' # enabled
  /\ queuedEvent' = (queuedEvent \/ enable)
  /\ UNCHANGED <<instanceVars, indexVars, poolVars, countVars, config,
                 repository, copied, available, shutingDown, requests, plannedEvent,
                 executionVars, crashed, cancelReplies, stack>>

\* HostMonitor::processFinished() when the health check changes its verdict.
HostChanged(h) ==
  /\ "host" \in Commands
  /\ available' = IF h \in available THEN available \ {h}
                  ELSE available \cup {h}
  /\ ReevaluateQueued
  /\ UNCHANGED <<instanceVars, indexVars, poolVars, countVars, config,
                 repository, copied, enabled, shutingDown, requests, plannedEvent,
                 executionVars, crashed, cancelReplies, stack>>

\* Executor::stopOrRetry(): an executor thread writes the end of the execution
\* into the instance, then posts the signal to the scheduler thread.
ExecutorStop(i) ==
  /\ runningExecutors[i] # NoExecutor
  /\ i \notin stop
  /\ \E o \in Outcomes[info[i].task]
              \cup (IF i \in aborting
                    THEN {[success |-> FALSE, stderr |-> FALSE]} ELSE {}) :
       /\ success' = IF o.success THEN success \cup {i} ELSE success \ {i}
       /\ stderr' = IF o.stderr THEN stderr \cup {i} ELSE stderr
  /\ stop' = stop \cup {i}
  /\ stopped' = stopped \cup {i}
  /\ aborting' = aborting \ {i}
  /\ UNCHANGED <<info, queue, start, finish, target, indexVars, poolVars,
                 countVars, settingVars, eventVars, crashed, cancelReplies,
                 stack>>

-----------------------------------------------------------------------------
(* The specification.                                                      *)

Init ==
  /\ InstanceInit
  /\ unfinishedTasks = {} /\ dirtyHerds = {}
  /\ unfinishedHerds = [i \in Ids |-> {}]
  /\ unfinishedHerdedTasks = [i \in Ids |-> {}]
  /\ config = FirstConfig
  /\ repository = [c \in Configs |-> NewTasks] /\ copied = {}
  /\ availableExecutors \in
       kSubset(MaxTotalTaskInstances[FirstConfig], Executors)
  /\ runningExecutors = [i \in Ids |-> NoExecutor]
  /\ runningCount = [t \in Tasks |-> 0]
  /\ executionsCount = [t \in Tasks |-> 0]
  /\ consumedResources = [h \in Hosts |-> [k \in Kinds |-> 0]]
  /\ enabled = Configured /\ available = Hosts
  /\ shutingDown = FALSE /\ crashed = FALSE
  /\ queuedEvent = FALSE /\ plannedEvent = FALSE
  /\ stopped = {} /\ aborting = {}
  /\ requests = 0 /\ cancelReplies = {}
  /\ stack = <<>>

\* A step of a call the scheduler thread is in.
Step ==
  \/ PlanTask \/ Planned
  \/ EnqueueTaskInstance \/ Deduplicate \/ Dropped \/ Queue
  \/ DoCancelTaskInstance \/ DoAbortTaskInstance \/ Aborted
  \/ CancelOrAbortEach
  \/ TaskInstanceStoppedOrCanceled \/ Settle
  \/ TaskInstanceFinishedOrCanceled \/ Forget \/ Herded
  \/ \E i \in Created : StartTaskInstance(i) \/ EnqueueOrCancelPlanned(i)
  \/ \E i \in Created : ReplaceTaskOrCancel(i)
  \/ LoopEnds

HandleEvent ==
  \/ HandleQueuedEvent \/ HandlePlannedEvent
  \/ \E i \in Ids : HandleTaskInstanceStopped(i)

Environment ==
  \/ \E a \in Requests : RequestTask(a)
  \/ \E i \in unfinishedTasks : CancelTaskInstance(i) \/ AbortTaskInstance(i)
  \/ \E t \in Tasks : \/ CancelTaskInstancesByTaskId(t)
                      \/ AbortTaskInstanceByTaskId(t)
  \/ \E tasks \in Switches, b \in BOOLEAN : EnableTasks(tasks, b)
  \/ \E h \in Hosts : HostChanged(h)
  \/ \E c \in Configs : ActivateConfig(c)
  \/ Shutdown

Next ==
  /\ ~crashed
  /\ \/ Step
     \/ HandleEvent
     \/ \E i \in Ids : ExecutorStop(i)
     \/ Environment

Spec == Init /\ [][Next]_vars
=============================================================================
