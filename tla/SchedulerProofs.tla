-------------------------- MODULE SchedulerProofs ---------------------------
(***************************************************************************)
(* What holds of the scheduler for every configuration: the types, the     *)
(* executors, what a shutdown guarantees and which calls may be in         *)
(* progress; when no task plans in a herd, the limits; and the statuses of *)
(* instances, herds included.                                              *)
(***************************************************************************)
EXTENDS SchedulerProperties, SequenceTheorems, FiniteSetTheorems,
        WellFoundedInduction, TLAPS

-----------------------------------------------------------------------------
(* The call stack.                                                         *)

\* A frame that is not a loop is well formed when it is about an instance.
LEMMA CallType ==
  ASSUME NEW op \in FrameOp \ (Loops \cup {"trigger"}),
         NEW i \in Created, NEW mark \in BOOLEAN, Len(info) \in Nat
  PROVE  /\ CallMark(op, i, mark) \in Frame
         /\ Call(op, i) \in Frame
<1>1. <<>> \in Seq(Action)
  BY EmptySeq
<1>2. i \in 0..Len(info)
  BY DEF Created
<1>3. i # 0
  BY DEF Created
<1> QED BY <1>1, <1>2, <1>3 DEF Call, CallMark, Frame, Loops

\* A loop over instances, if there is any, is a well formed frame.
LEMMA LoopType ==
  ASSUME NEW op \in Loops \cup {"deduplicate"}, NEW i \in 0..Len(info),
         op = "deduplicate" => i # 0,
         NEW S \in SUBSET Created, Len(info) \in Nat
  PROVE  Loop(op, i, S) \in Seq(Frame)
<1>1. <<>> \in Seq(Action)
  BY EmptySeq
<1>2. [op |-> op, id |-> i, ids |-> S, acts |-> <<>>, mark |-> FALSE] \in Frame
  BY <1>1 DEF Frame, Loops, FrameOp
<1> QED BY <1>2 DEF Loop

\* So are the actions that an instance triggers, if there are any.
LEMMA TriggerType ==
  ASSUME NEW parent \in 0..Len(info), NEW acts \in Seq(Action)
  PROVE  Trigger(parent, acts) \in Seq(Frame)
<1>1. CASE acts = <<>>
  BY <1>1 DEF Trigger
<1>2. CASE acts # <<>>
  <2>1. [op |-> "trigger", id |-> parent, ids |-> {}, acts |-> acts,
         mark |-> FALSE] \in Frame
    BY <1>2 DEF Frame, FrameOp
  <2> QED BY <1>2, <2>1 DEF Trigger
<1> QED BY <1>1, <1>2

\* The call on top of the stack is well formed, and so is what is below.
LEMMA TopType ==
  ASSUME TypeOK, stack # <<>>
  PROVE  /\ Top \in Frame
         /\ Tail(stack) \in Seq(Frame)
         /\ Top.op \in FrameOp /\ Top.id \in 0..Len(info)
         /\ Top.ids \in SUBSET Created /\ Top.acts \in Seq(Action)
         /\ Top.mark \in BOOLEAN
         /\ Top.op = "trigger" => Top.acts # <<>>
         /\ Top.op \notin Loops \cup {"trigger"} => Top.id \in Created
<1>1. stack \in Seq(Frame)
  BY DEF TypeOK
<1>2. /\ Top \in Frame
      /\ Tail(stack) \in Seq(Frame)
  BY <1>1, HeadTailProperties DEF Top
<1>3. Len(info) \in Nat
  BY DEF TypeOK, InstanceTypeOK
<1> QED BY <1>2, <1>3 DEF Frame, Created

\* A call that returns into well formed frames leaves a well formed stack.
LEMMA ReturnType ==
  ASSUME TypeOK, stack # <<>>, NEW frames \in Seq(Frame), Return(frames),
         UNCHANGED info
  PROVE  stack' \in Seq(Frame')
<1>1. Tail(stack) \in Seq(Frame)
  BY TopType
<1>2. Frame' = Frame
  BY DEF Frame, Created
<1> QED BY <1>1, <1>2, ConcatProperties DEF Return

-----------------------------------------------------------------------------
(* The inductive invariant.  ExecutorWhileStarted is about instances that   *)
(* are created; the invariant says it of every id, and adds that a posted   *)
(* stop signal is about an instance that started and stopped.               *)

ExecutorKnown ==
  \A i \in Ids :
    /\ runningExecutors[i] # NoExecutor
         <=> i \in stopped \/ (i \in start /\ i \notin stop)
    /\ i \in stopped => i \in start /\ i \in stop

IndInv == TypeOK /\ ExecutorKnown /\ ExecutorsPartitioned

\* What does not touch the configuration, the executors, the start and stop
\* timestamps and the posted signals keeps the invariant on executors.
LEMMA ExecutorsKept ==
  ASSUME IndInv, UNCHANGED <<config, poolVars, start, stop, stopped>>
  PROVE  ExecutorKnown' /\ ExecutorsPartitioned'
<1>1. ExecutorKnown'
  BY DEF IndInv, ExecutorKnown, poolVars
<1>2. UNCHANGED <<Busy, availableExecutors, config, runningExecutors>>
  BY DEF Busy, poolVars
<1> QED BY <1>1, <1>2 DEF IndInv, ExecutorsPartitioned, ExecutorsExclusive,
           PoolLargeEnough

\* A step that only moves the stack keeps the invariant.
LEMMA OnlyStack ==
  ASSUME IndInv, cancelReplies' \subseteq Created, stack' \in Seq(Frame'),
         UNCHANGED <<instanceVars, indexVars, poolVars, countVars, settingVars,
                     eventVars, executionVars, crashed>>
  PROVE  IndInv'
<1>1. ExecutorKnown' /\ ExecutorsPartitioned'
  BY ExecutorsKept DEF instanceVars, executionVars, settingVars
<1>2. TypeOK'
  BY DEF IndInv, TypeOK, InstanceTypeOK, Created, instanceVars, indexVars,
         poolVars, countVars, settingVars, eventVars, executionVars
<1> QED BY <1>1, <1>2 DEF IndInv

\* The objects of a configuration that was just read.
LEMMA NewTasksType ==
  /\ NewTasks \in [Tasks -> LiveAttributes]
  /\ \A t \in Tasks : NewTasks[t].runningCount = 0
BY DEF NewTasks, LiveAttributes

\* The initial state satisfies the invariant.
LEMMA InitInv == Init => IndInv
<1> SUFFICES ASSUME Init PROVE IndInv
  OBVIOUS
<1>1. TypeOK
  <2>1. /\ <<>> \in Seq(Info) /\ Len(<<>>) = 0 /\ <<>> \in Seq(Frame)
    BY EmptySeq
  <2>2. Created = {}
    BY <2>1 DEF Init, InstanceInit, Created
  <2>3. InstanceTypeOK
    BY <2>1, <2>2, MaxIdAssumption DEF Init, InstanceInit, InstanceTypeOK
  <2>4. /\ consumedResources \in [Hosts -> [Kinds -> Int]]
        /\ runningExecutors \in [Ids -> Executors \cup {NoExecutor, Temporary}]
        /\ runningCount \in [Tasks -> Int]
        /\ executionsCount \in [Tasks -> Nat]
        /\ unfinishedHerds \in [Ids -> SUBSET Created]
        /\ unfinishedHerdedTasks \in [Ids -> SUBSET Created]
    BY DEF Init
  <2>5. /\ config \in Configs /\ enabled \subseteq Tasks
        /\ availableExecutors \subseteq Executors
    BY ConfigAssumption DEF Init, kSubset, Configured, TasksIn
  <2>6. repository \in [Configs -> [Tasks -> LiveAttributes]] /\ copied \subseteq Tasks
    BY NewTasksType DEF Init
  <2> QED BY <2>1, <2>2, <2>3, <2>4, <2>5, <2>6 DEF Init, TypeOK
<1>2. ExecutorKnown
  BY DEF Init, InstanceInit, ExecutorKnown
<1>3. ExecutorsPartitioned
  <2>1. Busy = {}
    BY ExecutorsAssumption DEF Init, Busy
  <2>2. /\ Cardinality(availableExecutors) = MaxTotalTaskInstances[config]
        /\ MaxTotalTaskInstances[config] \in Nat
    BY ConfigAssumption DEF Init, kSubset
  <2>3. ExecutorsExclusive
    BY <2>1 DEF Init, ExecutorsExclusive
  <2>4. availableExecutors \cup Busy = availableExecutors
    BY <2>1
  <2> QED BY <2>2, <2>3, <2>4 DEF ExecutorsPartitioned, PoolLargeEnough
<1> QED BY <1>1, <1>2, <1>3 DEF IndInv

-----------------------------------------------------------------------------
(* Steps that only push and pop calls.                                     *)

\* Frames put one after the other.
LEMMA FramesType ==
  /\ \A f \in Frame : << f >> \in Seq(Frame)
  /\ \A f, g \in Frame : << f, g >> \in Seq(Frame)
  /\ \A s1, s2 \in Seq(Frame) : s1 \o s2 \in Seq(Frame)
  /\ <<>> \in Seq(Frame)
<1>1. \A s1, s2 \in Seq(Frame) : s1 \o s2 \in Seq(Frame)
  BY ConcatProperties
<1> QED BY <1>1, EmptySeq

\* A call that only returns into other calls keeps the invariant.
LEMMA StackStep ==
  ASSUME IndInv, stack # <<>>, NEW frames \in Seq(Frame), Return(frames),
         cancelReplies' \subseteq Created,
         UNCHANGED <<instanceVars, indexVars, poolVars, countVars, settingVars,
                     eventVars, executionVars, crashed>>
  PROVE  IndInv'
<1>1. stack' \in Seq(Frame')
  BY ReturnType DEF IndInv, instanceVars
<1> QED BY <1>1, OnlyStack

\* The facts about the stack and the ids that every step starts from.
LEMMA StepFacts ==
  ASSUME IndInv
  PROVE  /\ TypeOK /\ Len(info) \in Nat /\ cancelReplies \subseteq Created
         /\ unfinishedTasks \subseteq Created
         /\ unfinishedHerds \in [Ids -> SUBSET Created]
         /\ unfinishedHerdedTasks \in [Ids -> SUBSET Created]
         /\ Created \subseteq Ids
         /\ 0 \in 0..Len(info)
         /\ \A i \in Created :
              /\ i \in 0..Len(info) /\ i # 0
              /\ info[i] \in Info /\ info[i].herdid \in Created
              /\ info[i].task \in Tasks /\ TaskOf(i) \in TaskConfig
              /\ HerdedTasks(i) \in SUBSET Created
         /\ Queued \subseteq Created
         /\ Task \in [Tasks -> TaskConfig]
<1>1. TypeOK
  BY DEF IndInv
<1>2. /\ info \in Seq(Info) /\ Len(info) \in Nat /\ Len(info) <= MaxId
      /\ Created \subseteq Ids
  BY <1>1, MaxIdAssumption DEF TypeOK, InstanceTypeOK, Created, Ids
<1>6. Task \in [Tasks -> TaskConfig]
  BY <1>1, ConfigAssumption DEF Task, TypeOK
<1>3. ASSUME NEW i \in Created
      PROVE  /\ info[i] \in Info /\ info[i].herdid \in Created
             /\ info[i].task \in Tasks /\ TaskOf(i) \in TaskConfig
             /\ HerdedTasks(i) \in SUBSET Created
  <2>1. info[i] \in Info
    BY <1>2, ElementOfSeq DEF Created
  <2>2. info[i].herdid \in Created
    BY <1>1 DEF TypeOK, InstanceTypeOK
  <2>3. TaskOf(i) \in TaskConfig
    BY <1>6, <2>1 DEF TaskOf, Info
  <2>4. HerdedTasks(i) \in SUBSET Created
    BY <1>1 DEF HerdedTasks, TypeOK
  <2> QED BY <2>1, <2>2, <2>3, <2>4 DEF Info
<1>4. Queued \subseteq Created
  BY <1>1 DEF Queued, TypeOK
<1>5. 0 \in 0..Len(info) /\ \A i \in Created : i \in 0..Len(info) /\ i # 0
  BY <1>2 DEF Created
<1> QED BY <1>1, <1>2, <1>3, <1>4, <1>5, <1>6 DEF TypeOK

\* enqueueTaskInstance() preserves the invariant.
LEMMA EnqueueInv == ASSUME IndInv, EnqueueTaskInstance PROVE IndInv'
<1> DEFINE i == Top.id
           victims == IF info[i].force THEN {} ELSE Deduplicated(i)
           dropped == IF i \in victims THEN "dropped" ELSE "queue"
<1>1. stack # <<>> /\ i \in Created
  BY StepFacts, TopType DEF EnqueueTaskInstance, On, Loops, Top
<1>2. victims \in SUBSET Created
  BY <1>1, StepFacts DEF Deduplicated, Duplicates
<1>3. /\ Call("cancel", i) \in Frame
      /\ Call(dropped, i) \in Frame
  BY <1>1, StepFacts, CallType DEF FrameOp, Loops
<1>4. Loop("deduplicate", i, victims) \in Seq(Frame)
  BY <1>1, <1>2, StepFacts, LoopType
<1>5. \E frames \in Seq(Frame) : Return(frames)
  BY <1>3, <1>4, FramesType DEF EnqueueTaskInstance
<1> QED BY <1>1, <1>5, StackStep, StepFacts DEF EnqueueTaskInstance

\* Canceling the duplicates of an instance preserves the invariant.
LEMMA DeduplicateInv == ASSUME IndInv, Deduplicate PROVE IndInv'
<1>1. stack # <<>> /\ Top.id \in Created /\ Top.ids \in SUBSET Created
  BY StepFacts, TopType DEF Deduplicate, On, Loops, Top
<1>2. PICK j \in Top.ids :
        Return(<< Call("cancel", j) >>
               \o Loop("deduplicate", Top.id, Top.ids \ {j}))
  BY DEF Deduplicate
<1>3. Call("cancel", j) \in Frame
  BY <1>1, StepFacts, CallType DEF FrameOp, Loops
<1>4. Loop("deduplicate", Top.id, Top.ids \ {j}) \in Seq(Frame)
  BY <1>1, StepFacts, LoopType
<1>5. \E frames \in Seq(Frame) : Return(frames)
  BY <1>2, <1>3, <1>4, FramesType
<1> QED BY <1>1, <1>5, StackStep, StepFacts DEF Deduplicate

\* doCancelTaskInstance() preserves the invariant.
LEMMA CancelInv == ASSUME IndInv, DoCancelTaskInstance PROVE IndInv'
<1> DEFINE i == Top.id
<1>1. stack # <<>> /\ i \in Created
  BY StepFacts, TopType DEF DoCancelTaskInstance, On, Loops, Top
<1>2. Call("stopped", i) \in Frame
  BY <1>1, StepFacts, CallType DEF FrameOp, Loops
<1>3. Loop("cancelEach", i, HerdedTasks(i)) \in Seq(Frame)
  BY <1>1, StepFacts, LoopType DEF Loops
<1>4. \E frames \in Seq(Frame) : Return(frames)
  BY <1>2, <1>3, FramesType DEF DoCancelTaskInstance
<1>5. cancelReplies' \subseteq Created
  BY <1>1, StepFacts DEF DoCancelTaskInstance
<1> QED BY <1>1, <1>4, <1>5, StackStep DEF DoCancelTaskInstance

\* doAbortTaskInstance() preserves the invariant.
LEMMA AbortInv == ASSUME IndInv, DoAbortTaskInstance PROVE IndInv'
<1> DEFINE i == Top.id
<1>1. stack # <<>> /\ i \in Created
  BY StepFacts, TopType DEF DoAbortTaskInstance, On, Loops, Top
<1>2. Call("aborted", i) \in Frame
  BY <1>1, StepFacts, CallType DEF FrameOp, Loops
<1>3. Loop("abortHerd", i, HerdedTasks(i)) \in Seq(Frame)
  BY <1>1, StepFacts, LoopType DEF Loops
<1>4. \E frames \in Seq(Frame) : Return(frames)
  BY <1>2, <1>3, FramesType DEF DoAbortTaskInstance
<1> QED BY <1>1, <1>4, StackStep, StepFacts DEF DoAbortTaskInstance

\* cancelOrAbortHerdedTasks() preserves the invariant.
LEMMA CancelOrAbortInv == ASSUME IndInv, CancelOrAbortEach PROVE IndInv'
<1>1. /\ stack # <<>> /\ Top.id \in 0..Len(info)
      /\ Top.ids \in SUBSET Created
      /\ Top.op \in {"cancelEach", "abortEach", "abortHerd"}
  BY StepFacts, TopType DEF CancelOrAbortEach
<1>2. PICK j \in Top.ids :
        LET next == Loop(Top.op, Top.id, Top.ids \ {j})
        IN  \/ Return(<< Call("cancel", j) >> \o next)
            \/ Return(<< Call("abort", j) >> \o next)
            \/ Return(next)
  BY DEF CancelOrAbortEach
<1>3. Call("cancel", j) \in Frame /\ Call("abort", j) \in Frame
  BY <1>1, StepFacts, CallType DEF FrameOp, Loops
<1>4. Loop(Top.op, Top.id, Top.ids \ {j}) \in Seq(Frame)
  BY <1>1, StepFacts, LoopType DEF Loops
<1>5. \E frames \in Seq(Frame) : Return(frames)
  BY <1>2, <1>3, <1>4, FramesType
<1> QED BY <1>1, <1>5, StackStep, StepFacts DEF CancelOrAbortEach

\* The actions that an instance triggers when it finishes.
LEMMA FinishActionsType ==
  ASSUME IndInv, NEW i \in Created
  PROVE  Trigger(i, FinishActions(i)) \in Seq(Frame)
<1>1. TaskOf(i) \in TaskConfig
  BY StepFacts
<1>2. FinishActions(i) \in Seq(Action)
  BY <1>1, EmptySeq, ConcatProperties DEF FinishActions, TaskConfig
<1> QED BY <1>2, StepFacts, TriggerType

\* taskInstanceStoppedOrCanceled() preserves the invariant.
LEMMA StoppedInv == ASSUME IndInv, TaskInstanceStoppedOrCanceled PROVE IndInv'
<1> DEFINE i == Top.id
<1>1. stack # <<>> /\ i \in Created /\ Top.mark \in BOOLEAN
  BY StepFacts, TopType DEF TaskInstanceStoppedOrCanceled, On, Loops, Top
<1>2. /\ CallMark("settle", i, Top.mark) \in Frame
      /\ CallMark("finish", i, Top.mark) \in Frame
      /\ Call("herded", i) \in Frame
  BY <1>1, StepFacts, CallType DEF FrameOp, Loops
<1>3. Trigger(i, FinishActions(i)) \in Seq(Frame)
  BY <1>1, FinishActionsType
<1>4. \E frames \in Seq(Frame) : Return(frames)
  BY <1>2, <1>3, FramesType DEF TaskInstanceStoppedOrCanceled
<1> QED BY <1>1, <1>4, StackStep, StepFacts DEF TaskInstanceStoppedOrCanceled

\* The loop on the planned instances of a herd preserves the invariant.
LEMMA EnqueueEachInv ==
  ASSUME IndInv, NEW i \in Created, EnqueueOrCancelPlanned(i) PROVE IndInv'
<1> DEFINE waiting == {j \in Top.ids : Status(j) = "Planned"}
           next == Loop("enqueueEach", 0, Above(i, waiting))
<1>1. stack # <<>> /\ Top.ids \in SUBSET Created
  BY StepFacts, TopType DEF EnqueueOrCancelPlanned, On
<1>2. Call("enqueue", i) \in Frame /\ Call("cancel", i) \in Frame
  BY StepFacts, CallType DEF FrameOp, Loops
<1>3. next \in Seq(Frame)
  <2>1. Above(i, waiting) \in SUBSET Created
    BY <1>1 DEF Above
  <2> QED BY <2>1, StepFacts, LoopType DEF Loops
<1>4. \E frames \in Seq(Frame) : Return(frames)
  BY <1>2, <1>3, FramesType DEF EnqueueOrCancelPlanned
<1> QED BY <1>1, <1>4, StackStep, StepFacts DEF EnqueueOrCancelPlanned

\* The end of the loop on the queue preserves the invariant.
LEMMA LoopEndsInv == ASSUME IndInv, LoopEnds PROVE IndInv'
<1>1. stack # <<>>
  BY DEF LoopEnds, On
<1>2. Return(<<>>) /\ <<>> \in Seq(Frame)
  BY FramesType DEF LoopEnds
<1> QED BY <1>1, <1>2, StackStep, StepFacts DEF LoopEnds

-----------------------------------------------------------------------------
(* Steps that change the indexes, the queue or the events.                 *)

\* A call that returns and that touches neither the executors nor the
\* timestamps keeps the invariant if what it changes keeps its type.
LEMMA IndexStep ==
  ASSUME IndInv, stack # <<>>, NEW frames \in Seq(Frame), Return(frames),
         UNCHANGED <<info, start, stop, finish, success, stderr, target,
                     poolVars, countVars, settingVars, executionVars, crashed,
                     cancelReplies>>,
         queue' \subseteq Created, unfinishedTasks' \subseteq Created,
         dirtyHerds' \subseteq Created,
         unfinishedHerds' \in [Ids -> SUBSET Created],
         unfinishedHerdedTasks' \in [Ids -> SUBSET Created],
         queuedEvent' \in BOOLEAN, plannedEvent' \in BOOLEAN
  PROVE  IndInv'
<1>1. stack' \in Seq(Frame')
  BY ReturnType DEF IndInv
<1>2. ExecutorKnown' /\ ExecutorsPartitioned'
  BY ExecutorsKept DEF executionVars, settingVars
<1>3. TypeOK'
  BY <1>1 DEF IndInv, TypeOK, InstanceTypeOK, Created, poolVars, countVars,
              settingVars, executionVars
<1> QED BY <1>2, <1>3 DEF IndInv

\* The end of doPlanTask() preserves the invariant.
LEMMA PlannedInv == ASSUME IndInv, Planned PROVE IndInv'
<1>1. stack # <<>> /\ Top.id \in Created
  BY StepFacts, TopType DEF Planned, On, Loops, Top
<1>2. dirtyHerds' \subseteq Created /\ plannedEvent' = TRUE
  BY <1>1, StepFacts DEF Planned, ReevaluatePlanned, IndInv, TypeOK
<1> QED BY <1>1, <1>2, IndexStep, FramesType
           DEF Planned, IndInv, TypeOK, InstanceTypeOK, instanceVars

\* An instance dropped in favour of a duplicate preserves the invariant.
LEMMA DroppedInv == ASSUME IndInv, Dropped PROVE IndInv'
<1>1. stack # <<>>
  BY DEF Dropped, On
<1> QED BY <1>1, IndexStep, FramesType
           DEF Dropped, ReevaluateQueued, IndInv, TypeOK, InstanceTypeOK,
               instanceVars, indexVars

\* Queuing an instance preserves the invariant.
LEMMA QueueInv == ASSUME IndInv, Queue PROVE IndInv'
<1>1. stack # <<>> /\ Top.id \in Created
  BY StepFacts, TopType DEF Queue, On, Loops, Top
<1> QED BY <1>1, IndexStep, FramesType
           DEF Queue, ReevaluateQueued, IndInv, TypeOK, InstanceTypeOK

\* Ending a herder, or letting it wait, preserves the invariant.
LEMMA SettleInv == ASSUME IndInv, Settle PROVE IndInv'
<1>1. stack # <<>> /\ Top.id \in Created /\ Top.mark \in BOOLEAN
  BY StepFacts, TopType DEF Settle, On, Loops, Top
<1>2. CallMark("finish", Top.id, Top.mark) \in Frame
  BY <1>1, StepFacts, CallType DEF FrameOp, Loops
<1>3. \E frames \in Seq(Frame) : Return(frames)
  BY <1>2, FramesType DEF Settle
<1>4. dirtyHerds' \subseteq Created /\ plannedEvent' \in BOOLEAN
  BY <1>1 DEF Settle, ReevaluatePlanned, IndInv, TypeOK
<1> QED BY <1>1, <1>3, <1>4, IndexStep
           DEF Settle, IndInv, TypeOK, InstanceTypeOK, instanceVars

\* Removing a finished instance from the indexes preserves the invariant.
LEMMA ForgetInv == ASSUME IndInv, Forget PROVE IndInv'
<1>1. stack # <<>> /\ Top.id \in Created
  BY StepFacts, TopType DEF Forget, On, Loops, Top
<1>2. /\ unfinishedTasks' \subseteq Created
      /\ unfinishedHerds' \in [Ids -> SUBSET Created]
      /\ unfinishedHerdedTasks' \in [Ids -> SUBSET Created]
  BY <1>1, StepFacts DEF Forget
<1> QED BY <1>1, <1>2, IndexStep, FramesType
           DEF Forget, ReevaluateQueued, IndInv, TypeOK, InstanceTypeOK,
               instanceVars

\* What the end of a herded instance does to its herder preserves the invariant.
LEMMA HerdedInv == ASSUME IndInv, Herded PROVE IndInv'
<1> DEFINE h == info[Top.id].herdid
<1>1. stack # <<>> /\ Top.id \in Created
  BY StepFacts, TopType DEF Herded, On, Loops, Top
<1>2. h \in Created
  BY <1>1, StepFacts
<1>3. Call("finish", h) \in Frame
  BY <1>2, StepFacts, CallType DEF FrameOp, Loops
<1>4. \E frames \in Seq(Frame) : Return(frames)
  BY <1>3, FramesType DEF Herded
<1>5. dirtyHerds' \subseteq Created /\ plannedEvent' \in BOOLEAN
  BY <1>2 DEF Herded, ReevaluatePlanned, IndInv, TypeOK
<1>6. unfinishedHerdedTasks' \in [Ids -> SUBSET Created]
  <2>1. unfinishedHerdedTasks[h] \ {Top.id} \in SUBSET Created
    BY <1>2, StepFacts
  <2>2. \/ UNCHANGED unfinishedHerdedTasks
        \/ unfinishedHerdedTasks' =
             [unfinishedHerdedTasks EXCEPT ![h] =
                unfinishedHerdedTasks[h] \ {Top.id}]
    BY DEF Herded
  <2> QED BY <2>1, <2>2, StepFacts
<1> QED BY <1>1, <1>4, <1>5, <1>6, IndexStep
           DEF Herded, IndInv, TypeOK, InstanceTypeOK, instanceVars

\* executor->abort() only marks the instance.
LEMMA AbortedInv == ASSUME IndInv, Aborted PROVE IndInv'
<1>1. stack # <<>> /\ Top.id \in Created
  BY StepFacts, TopType DEF Aborted, On, Loops, Top
<1>2. stack' \in Seq(Frame')
  BY <1>1, ReturnType, FramesType DEF Aborted, IndInv, instanceVars
<1>3. ExecutorKnown' /\ ExecutorsPartitioned'
  BY ExecutorsKept DEF Aborted, instanceVars, settingVars
<1>4. aborting' \subseteq Created
  BY <1>1 DEF Aborted, IndInv, TypeOK
<1>5. TypeOK'
  BY <1>2, <1>4 DEF Aborted, IndInv, TypeOK, InstanceTypeOK, Created,
     instanceVars, indexVars, poolVars, countVars, settingVars, eventVars
<1> QED BY <1>3, <1>5 DEF IndInv

-----------------------------------------------------------------------------
(* Planning: the only step that creates an instance.                       *)

\* Frames stay well formed when instances are created.
LEMMA FrameGrows ==
  ASSUME TypeOK, info' \in Seq(Info), Len(info') >= Len(info)
  PROVE  Seq(Frame) \subseteq Seq(Frame')
<1>1. Len(info) \in Nat /\ Len(info') \in Nat
  BY LenProperties DEF TypeOK, InstanceTypeOK
<1>2. Frame \subseteq Frame'
  BY <1>1 DEF Frame, Created
<1> QED BY <1>2, SeqMonotonic

\* The operator guessed for a cancelwhen condition is an operator.
LEMMA ConjugateType ==
  \A o \in TaskWaitOperator :
    CancelOperatorFromQueueOperator(o) \in TaskWaitOperator
BY DEF TaskWaitOperator, CancelOperatorFromQueueOperator

\* doPlanTask() preserves the invariant.
LEMMA PlanTaskInv == ASSUME IndInv, PlanTask PROVE IndInv'
<1> DEFINE a == Head(Top.acts)
           i == Len(info) + 1
           herdid == HerdOf(Top.id, a)
           herded == herdid \in unfinishedTasks
           queuewhen == IF ~herded THEN ""
                        ELSE IF a.queuewhen = "" THEN "AllStarted"
                        ELSE a.queuewhen
           cancelwhen == IF herded THEN GuessCancelwhen(queuewhen, a.cancelwhen)
                         ELSE ""
           next == Trigger(Top.id, Tail(Top.acts))
<1>1. /\ stack # <<>> /\ Top.op = "trigger" /\ Top.id \in 0..Len(info)
      /\ Top.acts \in Seq(Action) /\ Top.acts # <<>>
      /\ Tail(stack) \in Seq(Frame)
  BY StepFacts, TopType DEF PlanTask, On, Top
<1>2. a \in Action /\ Tail(Top.acts) \in Seq(Action)
  BY <1>1, HeadTailProperties
<1>3. next \in Seq(Frame)
  BY <1>1, <1>2, TriggerType
<1>4. herdid \in {0} \cup Created
  BY <1>1, StepFacts DEF Created, HerdOf
<1>5. CASE a.task \notin enabled
  <2>1. Return(next) /\ UNCHANGED <<instanceVars, indexVars>>
    BY <1>5 DEF PlanTask
  <2> QED BY <1>1, <1>3, <2>1, StackStep, StepFacts DEF PlanTask
<1>6. CASE a.task \in enabled
  <2> DEFINE record == [task |-> a.task, force |-> a.force,
                        herdid |-> IF herdid = 0 THEN i ELSE herdid,
                        parentid |-> Top.id, queuewhen |-> queuewhen,
                        cancelwhen |-> cancelwhen,
                        watch |-> IF a.queuewhen = "" THEN {} ELSE a.watch]
  <2>1. /\ Len(info) < MaxId
        /\ info' = Append(info, record)
        /\ UNCHANGED <<queue, start, stop, finish, success, stderr, target>>
        /\ unfinishedTasks' = unfinishedTasks \cup {i}
        /\ UNCHANGED dirtyHerds
        /\ Return(Trigger(i, Task[a.task].onplan)
                  \o << Call(IF herded THEN "planned" ELSE "enqueue", i) >>
                  \o next)
    BY <1>6 DEF PlanTask, NewInstance
  <2>2. i \in Ids /\ Len(info) \in Nat /\ Created \subseteq Ids
    <3>1. Len(info) \in Nat /\ Created \subseteq Ids
      BY StepFacts
    <3>2. Len(info) < MaxId
      BY <2>1
    <3> QED BY ONLY <3>1, <3>2, MaxIdAssumption DEF Ids
  <2>3. queuewhen \in Operator /\ (herded => queuewhen \in TaskWaitOperator)
    BY <1>2 DEF Action, Operator, TaskWaitOperator
  <2> HIDE DEF queuewhen
  <2>4. cancelwhen \in Operator
    <3>1. a.cancelwhen \in Operator
      BY <1>2 DEF Action
    <3> QED BY <2>3, <3>1, ConjugateType DEF Operator, GuessCancelwhen
  <2> HIDE DEF cancelwhen, herded, a
  <2>5. record \in Info
    <3>1. (IF herdid = 0 THEN i ELSE herdid) \in Ids
      BY <1>4, <2>2
    <3>2. Top.id \in 0..MaxId
      <4>1. Top.id \in 0..Len(info) /\ Len(info) < MaxId
        BY <1>1, <2>1
      <4> QED BY ONLY <4>1, <2>2, MaxIdAssumption
    <3>3. /\ a.task \in Tasks /\ a.force \in BOOLEAN
          /\ (IF a.queuewhen = "" THEN {} ELSE a.watch) \in SUBSET Tasks
          /\ "" \in Operator
      BY <1>2 DEF Action, Operator
    <3> HIDE DEF herdid
    <3> QED BY <2>3, <2>4, <3>1, <3>2, <3>3 DEF Info
  <2> HIDE DEF record
  <2>6. /\ info' \in Seq(Info) /\ Len(info') = i /\ info'[i] = record
        /\ \A j \in Created : info'[j] = info[j]
    BY <2>1, <2>5, AppendProperties DEF IndInv, TypeOK, InstanceTypeOK, Created
  <2>7. Created' = Created \cup {i}
    BY <2>2, <2>6 DEF Created
  <2>8. InstanceTypeOK'
    <3>1. \A j \in Created' :
            info'[j].herdid \in Created' /\ info'[j].parentid < j
      <4>1. \A j \in Created :
              info'[j].herdid \in Created' /\ info'[j].parentid < j
        BY <2>6, <2>7 DEF IndInv, TypeOK, InstanceTypeOK
      <4>2. record.herdid \in Created' /\ record.parentid < i
        BY <1>1, <1>4, <2>2, <2>7 DEF record
      <4> QED BY <4>1, <4>2, <2>6, <2>7
    <3>2. Len(info') <= MaxId
      BY <2>1, <2>2, <2>6, MaxIdAssumption
    <3> QED BY <2>1, <2>6, <2>7, <3>1, <3>2 DEF IndInv, TypeOK, InstanceTypeOK
  <2>9. /\ unfinishedHerds' \in [Ids -> SUBSET Created']
        /\ unfinishedHerdedTasks' \in [Ids -> SUBSET Created']
    <3>1. \/ UNCHANGED <<unfinishedHerds, unfinishedHerdedTasks>>
          \/ /\ unfinishedHerds' =
                  [unfinishedHerds EXCEPT ![herdid] = @ \cup {i}]
             /\ unfinishedHerdedTasks' =
                  [unfinishedHerdedTasks EXCEPT ![herdid] = @ \cup {i}]
      BY <1>6 DEF PlanTask, AppendToHerd, herded, a
    <3> HIDE DEF herdid
    <3> QED BY <2>7, <3>1, StepFacts
  <2>10. stack' \in Seq(Frame')
    <3>1. Seq(Frame) \subseteq Seq(Frame')
      BY <2>2, <2>6, StepFacts, FrameGrows
    <3>2. Task[a.task].onplan \in Seq(Action)
      BY <1>2, StepFacts DEF Action, TaskConfig
    <3>3. Trigger(i, Task[a.task].onplan) \in Seq(Frame')
      <4> DEFINE f == [op |-> "trigger", id |-> i, ids |-> {},
                       acts |-> Task[a.task].onplan, mark |-> FALSE]
      <4>1. Task[a.task].onplan # <<>> => f \in Frame'
        BY <2>2, <2>6, <3>2 DEF Frame, FrameOp
      <4> QED BY <4>1, EmptySeq DEF Trigger
    <3>4. << Call(IF herded THEN "planned" ELSE "enqueue", i) >> \in Seq(Frame')
      <4>1. Call(IF herded THEN "planned" ELSE "enqueue", i) \in Frame'
        BY <2>2, <2>6, EmptySeq
           DEF Frame, FrameOp, Call, CallMark, Loops, Created
      <4> QED BY <4>1
    <3>5. next \in Seq(Frame') /\ Tail(stack) \in Seq(Frame')
      BY <1>1, <1>3, <3>1
    <3> QED BY <2>1, <3>3, <3>4, <3>5, ConcatProperties DEF Return
  <2>11. TypeOK'
    BY <2>1, <2>7, <2>8, <2>9, <2>10
       DEF PlanTask, IndInv, TypeOK, poolVars, countVars, settingVars,
           eventVars, executionVars
  <2>12. ExecutorKnown' /\ ExecutorsPartitioned'
    BY <2>1, ExecutorsKept DEF PlanTask, executionVars, settingVars
  <2> QED BY <2>11, <2>12 DEF IndInv
<1> QED BY <1>5, <1>6

-----------------------------------------------------------------------------
(* Finishing and starting.                                                 *)

\* Adding to, or removing from, what is consumed of a host keeps the type,
\* even when the instance has no host.
LEMMA ConsumedType ==
  ASSUME NEW c \in [Hosts -> [Kinds -> Int]], NEW h,
         NEW r \in [Kinds -> Nat]
  PROVE  /\ [c EXCEPT ![h] = [k \in Kinds |-> @[k] - r[k]]]
              \in [Hosts -> [Kinds -> Int]]
         /\ [c EXCEPT ![h] = [k \in Kinds |-> @[k] + r[k]]]
              \in [Hosts -> [Kinds -> Int]]
<1>1. CASE h \in Hosts
  <2>1. /\ [k \in Kinds |-> c[h][k] - r[k]] \in [Kinds -> Int]
        /\ [k \in Kinds |-> c[h][k] + r[k]] \in [Kinds -> Int]
    BY <1>1
  <2> QED BY <1>1, <2>1
<1>2. CASE h \notin Hosts
  BY <1>2
<1> QED BY <1>1, <1>2

\* The pool is well kept by a step that does not touch it.
LEMMA PoolKept ==
  ASSUME IndInv,
         UNCHANGED <<config, availableExecutors, runningExecutors>>
  PROVE  ExecutorsPartitioned'
<1>1. UNCHANGED Busy
  BY DEF Busy
<1> QED BY <1>1 DEF IndInv, ExecutorsPartitioned, ExecutorsExclusive,
           PoolLargeEnough

\* taskInstanceFinishedOrCanceled() preserves the invariant.
LEMMA FinishInv == ASSUME IndInv, TaskInstanceFinishedOrCanceled PROVE IndInv'
<1> DEFINE i == Top.id
           t == info[i].task
           trigger == IF IsHerder(i) THEN <<>> ELSE Trigger(i, FinishActions(i))
<1>1. stack # <<>> /\ i \in Created
  BY StepFacts, TopType DEF TaskInstanceFinishedOrCanceled, On, Loops, Top
<1>2. Call("forget", i) \in Frame
  BY <1>1, StepFacts, CallType DEF FrameOp, Loops
<1>3. trigger \in Seq(Frame)
  BY <1>1, FinishActionsType, FramesType
<1>4. \E frames \in Seq(Frame) : Return(frames)
  <2>1. \/ Return(<< Call("forget", i) >>)
        \/ Return(trigger \o << Call("forget", i) >>)
    BY DEF TaskInstanceFinishedOrCanceled
  <2> QED BY <1>2, <1>3, <2>1, FramesType
<1>5. stack' \in Seq(Frame')
  BY <1>1, <1>4, ReturnType DEF TaskInstanceFinishedOrCanceled, IndInv
<1>6. /\ finish' \subseteq Created /\ success' \subseteq Created
      /\ start' \subseteq Created /\ stop' \subseteq Created
  BY <1>1 DEF TaskInstanceFinishedOrCanceled, IndInv, TypeOK, InstanceTypeOK
<1>7. /\ runningCount' \in [Tasks -> Int]
      /\ executionsCount' \in [Tasks -> Nat]
  BY <1>1, StepFacts
     DEF TaskInstanceFinishedOrCanceled, AddRunningCount, countVars, IndInv,
         TypeOK
<1>8. consumedResources' \in [Hosts -> [Kinds -> Int]]
  <2>1. TaskOf(i).resources \in [Kinds -> Nat]
    BY <1>1, StepFacts DEF TaskConfig
  <2>2. consumedResources \in [Hosts -> [Kinds -> Int]]
    BY DEF IndInv, TypeOK
  <2>3. \/ UNCHANGED consumedResources
        \/ consumedResources' =
             [consumedResources EXCEPT ![target[i]] =
                [k \in Kinds |-> @[k] - TaskOf(i).resources[k]]]
    BY DEF TaskInstanceFinishedOrCanceled, countVars
  <2> QED BY <2>1, <2>2, <2>3, ConsumedType
<1>9. TypeOK'
  BY <1>5, <1>6, <1>7, <1>8
     DEF TaskInstanceFinishedOrCanceled, IndInv, TypeOK, InstanceTypeOK,
         Created, indexVars, poolVars, settingVars, eventVars, executionVars
<1>10. ExecutorKnown'
  <2>1. /\ UNCHANGED <<runningExecutors, stopped>>
        /\ \/ UNCHANGED <<start, stop>>
           \/ /\ i \notin start /\ stop' = stop \cup {i}
              /\ start' = start \/ start' = start \cup {i}
    BY DEF TaskInstanceFinishedOrCanceled, poolVars, executionVars
  <2> QED BY <2>1 DEF IndInv, ExecutorKnown
<1>11. ExecutorsPartitioned'
  BY PoolKept DEF TaskInstanceFinishedOrCanceled, poolVars, settingVars
<1> QED BY <1>9, <1>10, <1>11 DEF IndInv

\* An instance that is queued has neither started nor stopped.
LEMMA QueuedNeverStarted ==
  ASSUME NEW i, Status(i) = "Queued"
  PROVE  i \notin start /\ i \notin stop /\ i \notin finish
BY DEF Status

\* The launch of a queued instance takes an executor that nobody has, or one
\* that is created for it.
LEMMA LaunchInv ==
  ASSUME IndInv, NEW i \in Created, Status(i) = "Queued", stack # <<>>,
         NEW h \in Hosts, NEW next \in Seq(Frame), Launch(i, h, next),
         UNCHANGED <<info, queue, stop, finish, success, stderr, indexVars,
                     settingVars, plannedEvent, executionVars, cancelReplies>>
  PROVE  IndInv'
<1>1. i \in Ids /\ i \notin start /\ i \notin stop
  BY StepFacts, QueuedNeverStarted
<1>2. runningExecutors[i] = NoExecutor /\ i \notin stopped
  BY <1>1 DEF IndInv, ExecutorKnown
<1>3. TaskOf(i) \in TaskConfig /\ info[i].task \in Tasks
  BY StepFacts
<1>4. stack' \in Seq(Frame')
  <2>1. Trigger(i, TaskOf(i).onstart) \in Seq(Frame)
    BY <1>3, StepFacts, TriggerType DEF TaskConfig
  <2>2. \E frames \in Seq(Frame) : Return(frames)
    BY <2>1, FramesType DEF Launch
  <2> QED BY <2>2, ReturnType DEF IndInv
<1>5. consumedResources' \in [Hosts -> [Kinds -> Int]]
  <2>1. TaskOf(i).resources \in [Kinds -> Nat]
    BY <1>3 DEF TaskConfig
  <2>2. consumedResources \in [Hosts -> [Kinds -> Int]]
    BY DEF IndInv, TypeOK
  <2>3. \/ UNCHANGED consumedResources
        \/ consumedResources' =
             [consumedResources EXCEPT ![h] =
                [k \in Kinds |-> @[k] + TaskOf(i).resources[k]]]
    BY DEF Launch
  <2> QED BY <2>1, <2>2, <2>3, ConsumedType
<1>6. /\ runningCount' \in [Tasks -> Int]
      /\ executionsCount' \in [Tasks -> Nat]
  BY <1>3 DEF Launch, AddRunningCount, IndInv, TypeOK
<1>7. /\ availableExecutors' \subseteq Executors
      /\ runningExecutors' \in [Ids -> Executors \cup {NoExecutor, Temporary}]
      /\ crashed' \in BOOLEAN
  BY <1>1 DEF Launch, IndInv, TypeOK
<1>8. /\ start' = start \cup {i} /\ start' \subseteq Created
      /\ target' \in [Ids -> Hosts \cup {NoHost}]
      /\ queuedEvent' \in BOOLEAN
  BY <1>1 DEF Launch, ReevaluateQueued, IndInv, TypeOK, InstanceTypeOK
<1>9. TypeOK'
  BY <1>4, <1>5, <1>6, <1>7, <1>8
     DEF IndInv, TypeOK, InstanceTypeOK, Created, indexVars, settingVars,
         executionVars
<1>10. PICK e \in Executors \cup {Temporary} :
         /\ runningExecutors' = [runningExecutors EXCEPT ![i] = e]
         /\ \/ e \in availableExecutors
               /\ availableExecutors' = availableExecutors \ {e}
            \/ e = Temporary /\ UNCHANGED availableExecutors
  BY DEF Launch, IndInv, TypeOK
<1>11. ExecutorKnown'
  BY <1>1, <1>2, <1>8, <1>10, ExecutorsAssumption
     DEF IndInv, TypeOK, ExecutorKnown, executionVars
<1>12. ExecutorsPartitioned'
  <2>1. ExecutorsExclusive'
    BY <1>1, <1>2, <1>10, ExecutorsAssumption
       DEF IndInv, TypeOK, ExecutorsPartitioned, ExecutorsExclusive, Busy
  <2>2. (availableExecutors \cup Busy)' = availableExecutors \cup Busy
    BY <1>1, <1>2, <1>10, ExecutorsAssumption DEF IndInv, TypeOK, Busy
  <2> QED BY <2>1, <2>2
          DEF IndInv, ExecutorsPartitioned, PoolLargeEnough, settingVars
<1> QED BY <1>9, <1>11, <1>12 DEF IndInv

\* startTaskInstance() preserves the invariant: it takes an available executor.
LEMMA StartInv ==
  ASSUME IndInv, NEW i \in Created, StartTaskInstance(i) PROVE IndInv'
<1> DEFINE waiting == {j \in Top.ids : Status(j) = "Queued"}
           next == Loop("start", 0, Above(i, waiting))
<1>1. stack # <<>> /\ Top.ids \in SUBSET Created
  BY StepFacts, TopType DEF StartTaskInstance, On
<1>2. next \in Seq(Frame)
  <2>1. Above(i, waiting) \in SUBSET Created
    BY <1>1 DEF Above
  <2> QED BY <2>1, StepFacts, LoopType DEF Loops
<1>3. CallMark("stopped", i, TRUE) \in Frame
  BY StepFacts, CallType DEF FrameOp, Loops
<1>4. CASE \E h \in ChosenHosts(i) : Launch(i, h, next)
  <2>1. PICK h \in ChosenHosts(i) : Launch(i, h, next)
    BY <1>4
  <2>2. h \in Hosts
    <3>1. h \in available
      BY DEF ChosenHosts, Eligible
    <3> QED BY <3>1 DEF IndInv, TypeOK
  <2>3. Status(i) = "Queued"
    BY DEF StartTaskInstance, Lowest
  <2> QED BY <1>1, <1>2, <2>1, <2>2, <2>3, LaunchInv DEF StartTaskInstance
<1>5. CASE /\ \/ Return(next)
              \/ Return(<< CallMark("stopped", i, TRUE) >> \o next)
           /\ UNCHANGED <<start, target, poolVars, countVars, queuedEvent,
                          crashed>>
  <2>1. \E frames \in Seq(Frame) : Return(frames)
    BY <1>2, <1>3, <1>5, FramesType
  <2> QED BY <1>1, <1>5, <2>1, StackStep, StepFacts
             DEF StartTaskInstance, instanceVars, eventVars
<1> QED BY <1>4, <1>5 DEF StartTaskInstance

-----------------------------------------------------------------------------
(* The event loop and the other threads.                                   *)

\* The loop over all the instances in memory, or over some of them.
LEMMA HandleEventInv ==
  ASSUME IndInv, HandleQueuedEvent \/ HandlePlannedEvent
  PROVE  IndInv'
<1>1. /\ Loop("start", 0, unfinishedTasks) \in Seq(Frame)
      /\ Loop("enqueueEach", 0,
              {i \in unfinishedTasks : info[i].herdid \in dirtyHerds})
           \in Seq(Frame)
      /\ <<>> \in Seq(Frame)
  BY StepFacts, LoopType, FramesType DEF Loops
<1>2. stack' \in Seq(Frame) /\ UNCHANGED info
  BY <1>1 DEF HandleQueuedEvent, HandlePlannedEvent, instanceVars, IndInv,
              TypeOK
<1>3. stack' \in Seq(Frame')
  BY <1>2 DEF Frame, Created
<1>4. ExecutorKnown' /\ ExecutorsPartitioned'
  BY ExecutorsKept DEF HandleQueuedEvent, HandlePlannedEvent, instanceVars,
     executionVars, settingVars
<1>5. TypeOK'
  BY <1>3 DEF HandleQueuedEvent, HandlePlannedEvent, IndInv, TypeOK,
     InstanceTypeOK, Created, instanceVars, indexVars, poolVars, countVars,
     settingVars, executionVars
<1> QED BY <1>4, <1>5 DEF IndInv

\* The executor of a stopped instance goes back to the pool, or is deleted.
LEMMA StoppedSignalInv ==
  ASSUME IndInv, NEW i \in Ids, HandleTaskInstanceStopped(i) PROVE IndInv'
<1>1. i \in stopped /\ i \in Created /\ i \in start /\ i \in stop
  BY DEF HandleTaskInstanceStopped, IndInv, TypeOK, ExecutorKnown
<1>2. runningExecutors[i] \in Executors \cup {Temporary}
  BY <1>1 DEF IndInv, TypeOK, ExecutorKnown
<1>3. stack' \in Seq(Frame')
  <2>1. Call("stopped", i) \in Frame
    BY <1>1, StepFacts, CallType DEF FrameOp, Loops
  <2>2. Frame' = Frame
    BY DEF HandleTaskInstanceStopped, instanceVars, Frame, Created
  <2> QED BY <2>1, <2>2, FramesType DEF HandleTaskInstanceStopped
<1>4. /\ stopped' = stopped \ {i} /\ UNCHANGED <<start, stop>>
      /\ runningExecutors' = [runningExecutors EXCEPT ![i] = NoExecutor]
      /\ availableExecutors' = Pool(runningExecutors[i])
  BY DEF HandleTaskInstanceStopped, instanceVars
<1>5. /\ runningExecutors' \in [Ids -> Executors \cup {NoExecutor, Temporary}]
      /\ availableExecutors' \subseteq Executors
  BY <1>2, <1>4 DEF Pool, IndInv, TypeOK
<1>6. TypeOK'
  BY <1>3, <1>5
     DEF HandleTaskInstanceStopped, IndInv, TypeOK, InstanceTypeOK, Created,
         instanceVars, indexVars, countVars, settingVars, eventVars
<1>7. ExecutorKnown'
  BY <1>1, <1>4 DEF IndInv, TypeOK, ExecutorKnown
<1>8. ExecutorsPartitioned'
  <2>1. ExecutorsExclusive'
    BY <1>2, <1>4, ExecutorsAssumption
       DEF IndInv, TypeOK, ExecutorsPartitioned, ExecutorsExclusive, Busy, Pool
  <2>2. (availableExecutors \cup Busy)' = availableExecutors \cup Busy
    BY <1>2, <1>4, ExecutorsAssumption DEF IndInv, TypeOK, Busy, Pool
  <2>3. UNCHANGED config
    BY DEF HandleTaskInstanceStopped, settingVars
  <2> QED BY <2>1, <2>2, <2>3 DEF IndInv, ExecutorsPartitioned, PoolLargeEnough
<1> QED BY <1>6, <1>7, <1>8 DEF IndInv

\* The executor thread writes the end of the execution of its instance.
LEMMA ExecutorStopInv ==
  ASSUME IndInv, NEW i \in Ids, ExecutorStop(i) PROVE IndInv'
<1>1. i \in start /\ i \notin stop /\ i \in Created
  BY DEF ExecutorStop, IndInv, TypeOK, InstanceTypeOK, ExecutorKnown
<1>2. /\ success' \subseteq Created /\ stderr' \subseteq Created
      /\ stop' = stop \cup {i} /\ stopped' = stopped \cup {i}
      /\ aborting' = aborting \ {i}
      /\ UNCHANGED <<start, poolVars>>
  BY <1>1 DEF ExecutorStop, IndInv, TypeOK, InstanceTypeOK
<1>3. stack' \in Seq(Frame')
  BY DEF ExecutorStop, IndInv, TypeOK, Frame, Created
<1>4. TypeOK'
  BY <1>1, <1>2, <1>3
     DEF ExecutorStop, IndInv, TypeOK, InstanceTypeOK, Created, indexVars,
         poolVars, countVars, settingVars, eventVars
<1>5. ExecutorKnown'
  BY <1>1, <1>2 DEF ExecutorStop, IndInv, ExecutorKnown, poolVars
<1>6. ExecutorsPartitioned'
  BY PoolKept DEF ExecutorStop, poolVars, settingVars
<1> QED BY <1>4, <1>5, <1>6 DEF IndInv

\* A command pushes its first calls on an empty stack.
LEMMA CommandInv ==
  ASSUME IndInv, NEW frames \in Seq(Frame), Command(frames) PROVE IndInv'
<1>1. stack' \in Seq(Frame')
  BY DEF Command, instanceVars, Frame, Created
<1> QED BY <1>1, OnlyStack, StepFacts DEF Command

\* Resizing the pool deletes no executor that is in charge of an instance, and
\* leaves at least as many as the new configuration wants.
LEMMA ResizeInv ==
  ASSUME IndInv, NEW c \in Configs, ResizePool(c), config' = c,
         UNCHANGED runningExecutors
  PROVE  availableExecutors' \subseteq Executors /\ ExecutorsPartitioned'
<1> DEFINE old == MaxTotalTaskInstances[config]
           new == MaxTotalTaskInstances[c]
           free == Cardinality(availableExecutors)
           busy == Cardinality(Busy)
           pool == availableExecutors'
<1>1. /\ availableExecutors \subseteq Executors /\ Busy \subseteq Executors
      /\ availableExecutors \cap Busy = {} /\ Busy' = Busy
      /\ Cardinality(availableExecutors \cup Busy) >= old
  BY DEF IndInv, TypeOK, Busy, ExecutorsPartitioned, ExecutorsExclusive,
         PoolLargeEnough
<1>2. /\ pool \subseteq Executors /\ pool \cap Busy = {}
      /\ Cardinality(pool) = IF free + (new - old) < 0 THEN 0
                             ELSE free + (new - old)
  BY DEF ResizePool
<1>3. ExecutorsExclusive'
  BY <1>1, <1>2 DEF IndInv, ExecutorsPartitioned, ExecutorsExclusive
<1>4. /\ IsFiniteSet(availableExecutors) /\ IsFiniteSet(Busy)
      /\ IsFiniteSet(pool)
  BY <1>1, <1>2, ExecutorsAssumption, FS_Subset
<1>5. free \in Nat /\ busy \in Nat /\ old \in Nat /\ new \in Nat
  BY <1>4, FS_CardinalityType, ConfigAssumption DEF IndInv, TypeOK
<1>6. Cardinality(availableExecutors \cup Busy) = free + busy
  <2>1. Cardinality(availableExecutors \cap Busy) = 0
    BY <1>1, FS_EmptySet
  <2>2. Cardinality(availableExecutors \cup Busy) = free + busy - 0
    BY <1>4, <2>1, FS_Union, Zenon
  <2> QED BY <1>5, <2>2
<1>7. Cardinality(pool \cup Busy) = Cardinality(pool) + busy
  <2>1. Cardinality(pool \cap Busy) = 0
    BY <1>2, FS_EmptySet
  <2>2. Cardinality(pool) \in Nat
    BY <1>4, FS_CardinalityType
  <2> QED BY <1>4, <1>5, <2>1, <2>2, FS_Union
<1>8. Cardinality(pool \cup Busy) >= new
  <2> HIDE DEF pool, free, busy, old, new
  <2> QED BY <1>1, <1>2, <1>5, <1>6, <1>7
<1>9. PoolLargeEnough'
  BY <1>1, <1>8 DEF PoolLargeEnough
<1> QED BY <1>2, <1>3, <1>9 DEF ExecutorsPartitioned

\* What the tasks of the next configuration start with.
LEMMA CopiesType ==
  ASSUME IndInv, NEW c \in Configs, CopyLiveAttributes(c)
  PROVE  /\ enabled' \subseteq Tasks
         /\ runningCount' \in [Tasks -> Int]
         /\ executionsCount' \in [Tasks -> Nat]
         /\ repository' \in [Configs -> [Tasks -> LiveAttributes]]
         /\ copied' \subseteq Tasks
<1>1. \A t \in Tasks : Attributes(t) \in LiveAttributes
  BY DEF Attributes, LiveAttributes, IndInv, TypeOK
<1>2. config \in Configs /\ repository \in [Configs -> [Tasks -> LiveAttributes]]
  BY DEF IndInv, TypeOK
<1>3. \A d \in Configs : Stored(d) \in [Tasks -> LiveAttributes]
  BY <1>1, <1>2 DEF Stored
<1> DEFINE kept == Configured \cap TasksIn(c)
<1>4. PICK stored \in {Stored(c), NewTasks} :
        LET live(t) == IF t \in kept THEN Attributes(t) ELSE stored[t]
            counted(t) == IF t \in TasksIn(c) THEN live(t) ELSE NewTasks[t]
        IN  /\ repository' =
                 [repository EXCEPT ![config] = Stored(config), ![c] = stored]
            /\ copied' = kept \cap Passing
            /\ enabled' = {t \in TasksIn(c) : live(t).enabled}
            /\ runningCount' = [t \in Tasks |-> counted(t).runningCount]
            /\ executionsCount' = [t \in Tasks |-> counted(t).executionsCount]
  BY DEF CopyLiveAttributes
<1>5. stored \in [Tasks -> LiveAttributes]
  BY <1>3, NewTasksType
<1>6. repository' \in [Configs -> [Tasks -> LiveAttributes]]
  BY <1>2, <1>3, <1>4, <1>5
<1>7. enabled' \subseteq Tasks /\ copied' \subseteq Tasks
  BY <1>4 DEF TasksIn, Passing
<1> DEFINE live(t) == IF t \in kept THEN Attributes(t) ELSE stored[t]
           counted(t) == IF t \in TasksIn(c) THEN live(t) ELSE NewTasks[t]
<1>8. ASSUME NEW t \in Tasks PROVE counted(t) \in LiveAttributes
  BY <1>1, <1>5, NewTasksType
<1>9. /\ runningCount' = [t \in Tasks |-> counted(t).runningCount]
      /\ executionsCount' = [t \in Tasks |-> counted(t).executionsCount]
  BY <1>4
<1> HIDE DEF counted
<1>10. /\ runningCount' \in [Tasks -> Int]
      /\ executionsCount' \in [Tasks -> Nat]
  BY <1>8, <1>9 DEF LiveAttributes
<1> QED BY <1>6, <1>7, <1>10

\* activateConfig() preserves the invariant.
LEMMA ActivateInv ==
  ASSUME IndInv, NEW c \in Configs, ActivateConfig(c) PROVE IndInv'
<1>1. availableExecutors' \subseteq Executors /\ ExecutorsPartitioned'
  BY ResizeInv DEF ActivateConfig
<1>2. ExecutorKnown'
  BY DEF ActivateConfig, IndInv, ExecutorKnown, instanceVars, executionVars
<1>3. /\ enabled' \subseteq Tasks
      /\ runningCount' \in [Tasks -> Int]
      /\ executionsCount' \in [Tasks -> Nat]
      /\ repository' \in [Configs -> [Tasks -> LiveAttributes]]
      /\ copied' \subseteq Tasks
  BY CopiesType DEF ActivateConfig
<1>4. stack' \in Seq(Frame)
  <2>1. Loop("reload", 0, unfinishedTasks) \in Seq(Frame)
    BY StepFacts, LoopType DEF Loops
  <2>2. Trigger(0, OnConfigLoad[c]) \in Seq(Frame)
    BY ConfigAssumption, StepFacts, TriggerType
  <2> QED BY <2>1, <2>2, FramesType DEF ActivateConfig
<1>5. stack' \in Seq(Frame')
  BY <1>4 DEF ActivateConfig, instanceVars, Frame, Created
<1>6. requests' \in Nat
  BY DEF ActivateConfig, IndInv, TypeOK
<1>7. TypeOK'
  BY <1>1, <1>3, <1>5, <1>6 DEF ActivateConfig, ReevaluateQueued, IndInv, TypeOK,
     InstanceTypeOK, Created, instanceVars, indexVars, executionVars
<1> QED BY <1>1, <1>2, <1>7 DEF IndInv

\* The loop of activateConfig() preserves the invariant.
LEMMA ReplaceTaskInv ==
  ASSUME IndInv, NEW i \in Created, ReplaceTaskOrCancel(i) PROVE IndInv'
<1> DEFINE waiting == {j \in Top.ids : Status(j) \in UnstartedStatus}
           next == Loop("reload", 0, Above(i, waiting))
<1>1. stack # <<>> /\ Top.ids \in SUBSET Created
  BY StepFacts, TopType DEF ReplaceTaskOrCancel, On
<1>2. Call("cancel", i) \in Frame
  BY StepFacts, CallType DEF FrameOp, Loops
<1>3. next \in Seq(Frame)
  <2>1. Above(i, waiting) \in SUBSET Created
    BY <1>1 DEF Above
  <2> QED BY <2>1, StepFacts, LoopType DEF Loops
<1>4. \E frames \in Seq(Frame) : Return(frames)
  BY <1>2, <1>3, FramesType DEF ReplaceTaskOrCancel
<1>5. unfinishedTasks' \subseteq Created
  BY StepFacts DEF ReplaceTaskOrCancel
<1> QED BY <1>1, <1>4, <1>5, IndexStep
           DEF ReplaceTaskOrCancel, IndInv, TypeOK, InstanceTypeOK,
               instanceVars, eventVars

\* What other threads do preserves the invariant.
LEMMA EnvironmentInv == ASSUME IndInv, Environment PROVE IndInv'
<1>1. ASSUME NEW a \in Requests, RequestTask(a) PROVE IndInv'
  <2>1. Trigger(0, << a >>) \in Seq(Frame)
    <3>1. << a >> \in Seq(Action)
      BY ConfigAssumption
    <3> QED BY <3>1, StepFacts, TriggerType
  <2>2. stack' \in Seq(Frame')
    BY <1>1, <2>1 DEF RequestTask, instanceVars, Frame, Created
  <2>3. ExecutorKnown' /\ ExecutorsPartitioned'
    BY <1>1, ExecutorsKept
       DEF RequestTask, instanceVars, executionVars, settingVars
  <2>4. UNCHANGED <<instanceVars, indexVars, poolVars, countVars, config,
                    repository, copied, enabled, available, shutingDown, eventVars,
                    executionVars, crashed, cancelReplies>>
    BY <1>1 DEF RequestTask
  <2>5. requests' \in Nat
    BY <1>1 DEF RequestTask, IndInv, TypeOK
  <2>6. TypeOK'
    BY <2>2, <2>4, <2>5 DEF IndInv, TypeOK, InstanceTypeOK, Created,
       instanceVars, indexVars, poolVars, countVars, eventVars, executionVars
  <2> QED BY <2>3, <2>6 DEF IndInv
<1>2. ASSUME NEW i \in unfinishedTasks,
             CancelTaskInstance(i) \/ AbortTaskInstance(i)
      PROVE  IndInv'
  <2>1. << Call("cancel", i) >> \in Seq(Frame)
        /\ << Call("abort", i) >> \in Seq(Frame)
    <3>1. Call("cancel", i) \in Frame /\ Call("abort", i) \in Frame
      BY StepFacts, CallType DEF FrameOp, Loops
    <3> QED BY <3>1, FramesType
  <2> QED BY <1>2, <2>1, CommandInv DEF CancelTaskInstance, AbortTaskInstance
<1>3. ASSUME NEW t \in Tasks, \/ CancelTaskInstancesByTaskId(t)
                              \/ AbortTaskInstanceByTaskId(t)
      PROVE  IndInv'
  <2>1. ASSUME NEW S \in SUBSET unfinishedTasks
        PROVE  /\ Loop("cancelEach", 0, S) \in Seq(Frame)
               /\ Loop("abortEach", 0, S) \in Seq(Frame)
    BY StepFacts, LoopType DEF Loops
  <2> QED BY <1>3, <2>1, CommandInv
             DEF CancelTaskInstancesByTaskId, AbortTaskInstanceByTaskId
<1>4. ASSUME \/ \E tasks \in Switches, b \in BOOLEAN : EnableTasks(tasks, b)
             \/ \E h \in Hosts : HostChanged(h)
             \/ Shutdown
      PROVE  IndInv'
  <2>1. /\ UNCHANGED <<instanceVars, indexVars, poolVars, countVars,
                       executionVars, plannedEvent, config, repository, copied,
                       requests, crashed, cancelReplies, stack>>
        /\ enabled' \subseteq Tasks /\ available' \subseteq Hosts
        /\ shutingDown' \in BOOLEAN /\ queuedEvent' \in BOOLEAN
    BY <1>4, ConfigAssumption
       DEF Configured, TasksIn, EnableTasks, HostChanged, Shutdown, ReevaluateQueued, IndInv,
           TypeOK, eventVars
  <2>2. stack' \in Seq(Frame')
    BY <2>1 DEF IndInv, TypeOK, instanceVars, Frame, Created
  <2>3. ExecutorKnown' /\ ExecutorsPartitioned'
    BY <2>1, ExecutorsKept DEF instanceVars, executionVars
  <2>4. TypeOK'
    BY <2>1, <2>2 DEF IndInv, TypeOK, InstanceTypeOK, Created,
       instanceVars, indexVars, poolVars, countVars, executionVars
  <2> QED BY <2>3, <2>4 DEF IndInv
<1> QED BY <1>1, <1>2, <1>3, <1>4, ActivateInv DEF Environment

-----------------------------------------------------------------------------
(* The theorems.                                                           *)

\* Every step of every thread keeps the invariant.
LEMMA NextInv == IndInv /\ [Next]_vars => IndInv'
<1> SUFFICES ASSUME IndInv, [Next]_vars PROVE IndInv'
  OBVIOUS
<1>1. CASE Step
  BY <1>1, PlanTaskInv, PlannedInv, EnqueueInv, DeduplicateInv, DroppedInv,
     QueueInv, CancelInv, AbortInv, AbortedInv, CancelOrAbortInv, StoppedInv,
     SettleInv, FinishInv, ForgetInv, HerdedInv, StartInv, EnqueueEachInv,
     ReplaceTaskInv, LoopEndsInv DEF Step
<1>2. CASE HandleEvent
  BY <1>2, HandleEventInv, StoppedSignalInv DEF HandleEvent
<1>3. CASE \E i \in Ids : ExecutorStop(i)
  BY <1>3, ExecutorStopInv
<1>4. CASE Environment
  BY <1>4, EnvironmentInv
<1>5. CASE UNCHANGED vars
  <2>1. /\ cancelReplies' \subseteq Created /\ stack' \in Seq(Frame')
    BY <1>5 DEF vars, IndInv, TypeOK, instanceVars, Frame, Created
  <2> QED BY <1>5, <2>1, OnlyStack DEF vars
<1> QED BY <1>1, <1>2, <1>3, <1>4, <1>5 DEF Next

\* The invariant holds in every reachable state.
THEOREM Invariant == Spec => []IndInv
BY InitInv, NextInv, PTL DEF Spec

\* Every variable keeps its type, whatever the configuration: no call on the
\* stack is about an instance that does not exist, no index holds one.
THEOREM TypeCorrect == Spec => []TypeOK
<1>1. IndInv => TypeOK
  BY DEF IndInv
<1> QED BY <1>1, Invariant, PTL

\* No executor is lost or shared, whatever the tasks, the forced instances, the
\* aborts, the moments at which the executions end, and the configurations that
\* are activated meanwhile.
THEOREM ExecutorsNeverLost == Spec => []ExecutorsPartitioned
<1>1. IndInv => ExecutorsPartitioned
  BY DEF IndInv
<1> QED BY <1>1, Invariant, PTL

\* An instance has an executor from its start to the handling of its stop.
THEOREM ExecutorUntilStopped == Spec => []ExecutorWhileStarted
<1>1. IndInv => ExecutorWhileStarted
  BY StepFacts DEF IndInv, ExecutorKnown, ExecutorWhileStarted
<1> QED BY <1>1, Invariant, PTL

-----------------------------------------------------------------------------
(* What a shutdown guarantees.                                             *)
(*                                                                         *)
(* shutdown() is called between two events, and the handlers that come     *)
(* later test the flag where instances are queued or started.  The calls   *)
(* that such a handler makes are calm: none of them queues or starts an    *)
(* instance, and none marks one that never started as a failure, which     *)
(* sets its start timestamp.                                               *)

CalmOp == FrameOp \ {"start", "queue"}

CalmFrame == [op: CalmOp, id: Nat, ids: SUBSET Nat, acts: Seq(Action),
              mark: {FALSE}]

ShutdownInv == shutingDown => stack \in Seq(CalmFrame)

-----------------------------------------------------------------------------
(* Calm frames.                                                            *)

\* A call that neither starts nor queues is calm, and so are loops over them.
LEMMA CalmCalls ==
  ASSUME NEW op \in CalmOp, NEW i \in Nat, NEW S \in SUBSET Nat
  PROVE  /\ Call(op, i) \in CalmFrame /\ CallMark(op, i, FALSE) \in CalmFrame
         /\ Loop(op, i, S) \in Seq(CalmFrame)
<1>1. <<>> \in Seq(Action) /\ <<>> \in Seq(CalmFrame)
  BY EmptySeq
<1>2. Call(op, i) \in CalmFrame /\ CallMark(op, i, FALSE) \in CalmFrame
  BY <1>1 DEF Call, CallMark, CalmFrame
<1>3. [op |-> op, id |-> i, ids |-> S, acts |-> <<>>, mark |-> FALSE]
        \in CalmFrame
  BY <1>1 DEF CalmFrame
<1>4. Loop(op, i, S) \in Seq(CalmFrame)
  <2>1. CASE S = {}
    BY <1>1, <2>1 DEF Loop
  <2>2. CASE S # {}
    BY <1>3, <2>2 DEF Loop
  <2> QED BY <2>1, <2>2
<1> QED BY <1>2, <1>4

\* The actions that an instance triggers are calm.
LEMMA CalmTrigger ==
  ASSUME NEW parent \in Nat, NEW acts \in Seq(Action)
  PROVE  Trigger(parent, acts) \in Seq(CalmFrame)
<1>1. <<>> \in Seq(CalmFrame)
  BY EmptySeq
<1>2. [op |-> "trigger", id |-> parent, ids |-> {}, acts |-> acts,
       mark |-> FALSE] \in CalmFrame
  BY DEF CalmFrame, CalmOp, FrameOp
<1> QED BY <1>1, <1>2 DEF Trigger

\* Calm frames put one after the other.
LEMMA CalmFrames ==
  /\ \A f \in CalmFrame : << f >> \in Seq(CalmFrame)
  /\ \A f, g \in CalmFrame : << f, g >> \in Seq(CalmFrame)
  /\ \A s1, s2 \in Seq(CalmFrame) : s1 \o s2 \in Seq(CalmFrame)
  /\ <<>> \in Seq(CalmFrame)
<1>1. \A s1, s2 \in Seq(CalmFrame) : s1 \o s2 \in Seq(CalmFrame)
  BY ConcatProperties
<1> QED BY <1>1, EmptySeq

\* The call on top of a calm stack is calm.
LEMMA CalmTop ==
  ASSUME stack \in Seq(CalmFrame), stack # <<>>
  PROVE  /\ Top \in CalmFrame /\ Tail(stack) \in Seq(CalmFrame)
         /\ Top.op \notin {"start", "queue"} /\ Top.mark = FALSE
<1>1. Top \in CalmFrame /\ Tail(stack) \in Seq(CalmFrame)
  BY HeadTailProperties DEF Top
<1> QED BY <1>1 DEF CalmFrame, CalmOp

\* A call that returns into calm calls leaves a calm stack.
LEMMA CalmReturn ==
  ASSUME stack \in Seq(CalmFrame), stack # <<>>,
         NEW frames \in Seq(CalmFrame), Return(frames)
  PROVE  stack' \in Seq(CalmFrame)
BY CalmTop, CalmFrames DEF Return

\* The ids are numbers.
LEMMA NumberFacts ==
  ASSUME IndInv
  PROVE  /\ Created \subseteq Nat /\ 0 \in Nat
         /\ unfinishedTasks \subseteq Nat
         /\ stack # <<>> => /\ Top.id \in Nat /\ Top.ids \in SUBSET Nat
                            /\ Top.acts \in Seq(Action)
                            /\ Top.op \in FrameOp
                            /\ Top.op \notin Loops \cup {"trigger"} =>
                                 Top.id \in Created
                            /\ Top.op = "trigger" => Top.acts # <<>>
<1>1. Created \subseteq Nat
  BY StepFacts DEF Created
<1>2. unfinishedTasks \subseteq Nat
  BY <1>1, StepFacts
<1>3. stack # <<>> => /\ Top.id \in 0..Len(info) /\ Top.ids \in SUBSET Created
                      /\ Top.acts \in Seq(Action)
                      /\ Top.op \in FrameOp
                      /\ Top.op \notin Loops \cup {"trigger"} =>
                           Top.id \in Created
                      /\ Top.op = "trigger" => Top.acts # <<>>
  BY TopType, StepFacts
<1>4. 0..Len(info) \subseteq Nat /\ 0 \in Nat
  BY StepFacts
<1> QED BY <1>1, <1>2, <1>3, <1>4

-----------------------------------------------------------------------------
(* The steps of the scheduler thread while it shuts down.                  *)

Calm == stack \in Seq(CalmFrame)
NothingStarted == start' \subseteq start /\ queue' = queue

\* No call that is already in progress starts or queues an instance.
LEMMA StepCalm ==
  ASSUME IndInv, shutingDown, Calm, Step
  PROVE  Calm' /\ NothingStarted
<1> DEFINE i == Top.id
<1> USE DEF Calm
<1>1. /\ stack # <<>> => /\ i \in Nat /\ Top.ids \in SUBSET Nat
                         /\ Top.acts \in Seq(Action)
      /\ stack # <<>> => /\ Top.op \notin {"start", "queue"}
                         /\ Top.mark = FALSE
  BY NumberFacts, CalmTop
<1>2. ASSUME PlanTask PROVE Calm' /\ NothingStarted
  <2> DEFINE a == Head(Top.acts)
             new == Len(info) + 1
             next == Trigger(i, Tail(Top.acts))
  <2>1. stack # <<>> /\ Top.acts # <<>>
    BY <1>2, NumberFacts DEF PlanTask, On, Top
  <2>2. a \in Action /\ Tail(Top.acts) \in Seq(Action)
    BY <1>1, <2>1, HeadTailProperties
  <2>3. next \in Seq(CalmFrame)
    BY <1>1, <2>1, <2>2, CalmTrigger
  <2>4. Trigger(new, Task[a.task].onplan) \in Seq(CalmFrame)
    <3>1. Task[a.task].onplan \in Seq(Action)
      BY <2>2, StepFacts DEF Action, TaskConfig
    <3>2. new \in Nat
      BY StepFacts
    <3> QED BY <3>1, <3>2, CalmTrigger
  <2>5. /\ Call("planned", new) \in CalmFrame
        /\ Call("enqueue", new) \in CalmFrame
    <3>1. new \in Nat
      BY StepFacts
    <3> QED BY <3>1, CalmCalls DEF CalmOp, FrameOp
  <2>6. /\ \/ Return(next)
           \/ Return(Trigger(new, Task[a.task].onplan)
                     \o << Call("planned", new) >> \o next)
           \/ Return(Trigger(new, Task[a.task].onplan)
                     \o << Call("enqueue", new) >> \o next)
        /\ UNCHANGED <<start, queue>>
    BY <1>2 DEF PlanTask, NewInstance, instanceVars
  <2>7. \E frames \in Seq(CalmFrame) : Return(frames)
    BY <2>3, <2>4, <2>5, <2>6, CalmFrames
  <2> QED BY <2>1, <2>6, <2>7, CalmReturn DEF NothingStarted
<1>3. ASSUME Planned \/ Dropped \/ Forget \/ Aborted \/ LoopEnds
      PROVE  Calm' /\ NothingStarted
  <2>1. stack # <<>> /\ Return(<<>>) /\ UNCHANGED <<start, queue>>
    BY <1>3 DEF Planned, Dropped, Forget, Aborted, LoopEnds, On, instanceVars
  <2> QED BY <2>1, CalmReturn, CalmFrames DEF NothingStarted
<1>4. ASSUME EnqueueTaskInstance PROVE Calm' /\ NothingStarted
  <2>1. stack # <<>> /\ Return(<<>>) /\ UNCHANGED <<start, queue>>
    BY <1>4 DEF EnqueueTaskInstance, On, instanceVars
  <2> QED BY <2>1, CalmReturn, CalmFrames DEF NothingStarted
<1>5. ASSUME Deduplicate PROVE Calm' /\ NothingStarted
  <2>1. stack # <<>> /\ UNCHANGED <<start, queue>>
    BY <1>5 DEF Deduplicate, On, instanceVars
  <2>2. PICK j \in Top.ids :
          Return(<< Call("cancel", j) >>
                 \o Loop("deduplicate", i, Top.ids \ {j}))
    BY <1>5 DEF Deduplicate
  <2>3. /\ Call("cancel", j) \in CalmFrame
        /\ Loop("deduplicate", i, Top.ids \ {j}) \in Seq(CalmFrame)
    BY <1>1, <2>1, CalmCalls DEF CalmOp, FrameOp
  <2>4. \E frames \in Seq(CalmFrame) : Return(frames)
    BY <2>2, <2>3, CalmFrames
  <2> QED BY <2>1, <2>4, CalmReturn DEF NothingStarted
<1>6. ASSUME DoCancelTaskInstance \/ DoAbortTaskInstance
      PROVE  Calm' /\ NothingStarted
  <2>1. stack # <<>> /\ UNCHANGED <<start, queue>>
    BY <1>6 DEF DoCancelTaskInstance, DoAbortTaskInstance, On, instanceVars
  <2>2. /\ Call("stopped", i) \in CalmFrame /\ Call("aborted", i) \in CalmFrame
        /\ Loop("cancelEach", i, HerdedTasks(i)) \in Seq(CalmFrame)
        /\ Loop("abortHerd", i, HerdedTasks(i)) \in Seq(CalmFrame)
    <3>1. HerdedTasks(i) \in SUBSET Nat
      BY NumberFacts DEF HerdedTasks
    <3> QED BY <1>1, <2>1, <3>1, CalmCalls DEF CalmOp, FrameOp
  <2>3. \E frames \in Seq(CalmFrame) : Return(frames)
    BY <1>6, <2>2, CalmFrames DEF DoCancelTaskInstance, DoAbortTaskInstance
  <2> QED BY <2>1, <2>3, CalmReturn DEF NothingStarted
<1>7. ASSUME CancelOrAbortEach PROVE Calm' /\ NothingStarted
  <2>1. /\ stack # <<>> /\ UNCHANGED <<start, queue>>
        /\ Top.op \in {"cancelEach", "abortEach", "abortHerd"}
    BY <1>7 DEF CancelOrAbortEach, instanceVars
  <2>2. PICK j \in Top.ids :
          LET next == Loop(Top.op, i, Top.ids \ {j})
          IN  \/ Return(<< Call("cancel", j) >> \o next)
              \/ Return(<< Call("abort", j) >> \o next)
              \/ Return(next)
    BY <1>7 DEF CancelOrAbortEach
  <2>3. /\ Call("cancel", j) \in CalmFrame /\ Call("abort", j) \in CalmFrame
        /\ Loop(Top.op, i, Top.ids \ {j}) \in Seq(CalmFrame)
    BY <1>1, <2>1, CalmCalls DEF CalmOp, FrameOp
  <2>4. \E frames \in Seq(CalmFrame) : Return(frames)
    BY <2>2, <2>3, CalmFrames
  <2> QED BY <2>1, <2>4, CalmReturn DEF NothingStarted
<1>8. ASSUME NEW j \in Created
      PROVE  Trigger(j, FinishActions(j)) \in Seq(CalmFrame)
  <2>1. FinishActions(j) \in Seq(Action)
    <3>1. TaskOf(j) \in TaskConfig
      BY StepFacts
    <3> QED BY <3>1, EmptySeq, ConcatProperties DEF FinishActions, TaskConfig
  <2> QED BY <2>1, NumberFacts, CalmTrigger
<1>9. ASSUME TaskInstanceStoppedOrCanceled \/ Settle
      PROVE  Calm' /\ NothingStarted
  <2>1. stack # <<>> /\ i \in Created /\ UNCHANGED <<start, queue>>
    BY <1>9, NumberFacts
       DEF TaskInstanceStoppedOrCanceled, Settle, On, Top, Loops, instanceVars
  <2>2. /\ CallMark("settle", i, FALSE) \in CalmFrame
        /\ CallMark("finish", i, FALSE) \in CalmFrame
        /\ Call("herded", i) \in CalmFrame
    BY <1>1, <2>1, CalmCalls DEF CalmOp, FrameOp
  <2>3. \E frames \in Seq(CalmFrame) : Return(frames)
    BY <1>1, <1>8, <1>9, <2>1, <2>2, CalmFrames
       DEF TaskInstanceStoppedOrCanceled, Settle
  <2> QED BY <2>1, <2>3, CalmReturn DEF NothingStarted
<1>10. ASSUME TaskInstanceFinishedOrCanceled PROVE Calm' /\ NothingStarted
  <2>1. stack # <<>> /\ i \in Created /\ Top.mark = FALSE
    BY <1>1, <1>10, NumberFacts
       DEF TaskInstanceFinishedOrCanceled, On, Top, Loops
  <2>2. start' = start /\ queue' = queue
    BY <1>10, <2>1 DEF TaskInstanceFinishedOrCanceled
  <2>3. Call("forget", i) \in CalmFrame
    BY <1>1, <2>1, CalmCalls DEF CalmOp, FrameOp
  <2>4. \E frames \in Seq(CalmFrame) : Return(frames)
    BY <1>8, <1>10, <2>1, <2>3, CalmFrames DEF TaskInstanceFinishedOrCanceled
  <2> QED BY <2>1, <2>2, <2>4, CalmReturn DEF NothingStarted
<1>11. ASSUME Herded PROVE Calm' /\ NothingStarted
  <2>1. stack # <<>> /\ i \in Created /\ UNCHANGED <<start, queue>>
    BY <1>11, NumberFacts DEF Herded, On, Top, Loops, instanceVars
  <2>2. Call("finish", info[i].herdid) \in CalmFrame
    <3>1. info[i].herdid \in Nat
      BY <2>1, StepFacts, NumberFacts
    <3> QED BY <3>1, CalmCalls DEF CalmOp, FrameOp
  <2>3. \E frames \in Seq(CalmFrame) : Return(frames)
    BY <1>11, <2>2, CalmFrames DEF Herded
  <2> QED BY <2>1, <2>3, CalmReturn DEF NothingStarted
<1>12. ASSUME NEW j \in Created, EnqueueOrCancelPlanned(j)
       PROVE  Calm' /\ NothingStarted
  <2> DEFINE next == Loop("enqueueEach", 0,
                       Above(j, {k \in Top.ids : Status(k) = "Planned"}))
  <2>1. stack # <<>> /\ UNCHANGED <<start, queue>>
    BY <1>12 DEF EnqueueOrCancelPlanned, On, instanceVars
  <2>2. /\ Call("enqueue", j) \in CalmFrame /\ Call("cancel", j) \in CalmFrame
        /\ next \in Seq(CalmFrame)
    <3>1. Above(j, {k \in Top.ids : Status(k) = "Planned"}) \in SUBSET Nat
      BY <1>1, <2>1 DEF Above
    <3> QED BY <3>1, NumberFacts, CalmCalls DEF CalmOp, FrameOp
  <2>3. \E frames \in Seq(CalmFrame) : Return(frames)
    BY <1>12, <2>2, CalmFrames DEF EnqueueOrCancelPlanned
  <2> QED BY <2>1, <2>3, CalmReturn DEF NothingStarted
<1>14. ASSUME NEW j \in Created, ReplaceTaskOrCancel(j)
       PROVE  Calm' /\ NothingStarted
  <2> DEFINE next == Loop("reload", 0,
                 Above(j, {k \in Top.ids : Status(k) \in UnstartedStatus}))
  <2>1. stack # <<>> /\ UNCHANGED <<start, queue>>
    BY <1>14 DEF ReplaceTaskOrCancel, On, instanceVars
  <2>2. Call("cancel", j) \in CalmFrame /\ next \in Seq(CalmFrame)
    <3>1. Above(j, {k \in Top.ids : Status(k) \in UnstartedStatus})
            \in SUBSET Nat
      BY <1>1, <2>1 DEF Above
    <3> QED BY <3>1, NumberFacts, CalmCalls DEF CalmOp, FrameOp
  <2>3. \E frames \in Seq(CalmFrame) : Return(frames)
    BY <1>14, <2>2, CalmFrames DEF ReplaceTaskOrCancel
  <2> QED BY <2>1, <2>3, CalmReturn DEF NothingStarted
<1>13. ~Queue /\ \A j : ~StartTaskInstance(j)
  BY <1>1 DEF Queue, StartTaskInstance, On, Top
<1> QED BY <1>2, <1>3, <1>4, <1>5, <1>6, <1>7, <1>9, <1>10, <1>11, <1>12,
           <1>13, <1>14 DEF Step

-----------------------------------------------------------------------------
(* The event loop and the other threads.                                   *)

\* A handler that is called during the shutdown makes calm calls, and no other
\* thread makes the scheduler do anything else.
LEMMA EventCalm ==
  ASSUME IndInv, shutingDown, Calm,
         \/ HandleEvent
         \/ \E i \in Ids : ExecutorStop(i)
         \/ Environment
  PROVE  Calm' /\ NothingStarted
<1> USE DEF Calm
<1>1. CASE HandleQueuedEvent \/ HandlePlannedEvent
  <2>1. stack' \in {<<>>, stack} /\ UNCHANGED <<start, queue>>
    BY <1>1 DEF HandleQueuedEvent, HandlePlannedEvent, instanceVars
  <2> QED BY <2>1, CalmFrames DEF NothingStarted
<1>2. ASSUME NEW i \in Ids, HandleTaskInstanceStopped(i)
      PROVE  Calm' /\ NothingStarted
  <2>1. i \in Nat
    BY DEF Ids
  <2>2. << Call("stopped", i) >> \in Seq(CalmFrame)
    BY <2>1, CalmCalls, CalmFrames DEF CalmOp, FrameOp
  <2> QED BY <1>2, <2>2
          DEF HandleTaskInstanceStopped, NothingStarted, instanceVars
<1>3. ASSUME NEW i \in Ids, ExecutorStop(i) PROVE Calm' /\ NothingStarted
  BY <1>3 DEF ExecutorStop, NothingStarted
<1>4. ASSUME NEW a \in Requests, RequestTask(a) PROVE Calm' /\ NothingStarted
  <2>1. Trigger(0, << a >>) \in Seq(CalmFrame)
    <3>1. << a >> \in Seq(Action)
      BY ConfigAssumption
    <3> QED BY <3>1, CalmTrigger
  <2> QED BY <1>4, <2>1 DEF RequestTask, NothingStarted, instanceVars
<1>5. ASSUME NEW i \in unfinishedTasks,
             CancelTaskInstance(i) \/ AbortTaskInstance(i)
      PROVE  Calm' /\ NothingStarted
  <2>1. /\ << Call("cancel", i) >> \in Seq(CalmFrame)
        /\ << Call("abort", i) >> \in Seq(CalmFrame)
    BY NumberFacts, CalmCalls, CalmFrames DEF CalmOp, FrameOp
  <2> QED BY <1>5, <2>1 DEF CancelTaskInstance, AbortTaskInstance, Command,
             NothingStarted, instanceVars
<1>6. ASSUME NEW t \in Tasks, \/ CancelTaskInstancesByTaskId(t)
                              \/ AbortTaskInstanceByTaskId(t)
      PROVE  Calm' /\ NothingStarted
  <2>1. ASSUME NEW S \in SUBSET unfinishedTasks
        PROVE  /\ Loop("cancelEach", 0, S) \in Seq(CalmFrame)
               /\ Loop("abortEach", 0, S) \in Seq(CalmFrame)
    BY NumberFacts, CalmCalls DEF CalmOp, FrameOp
  <2> QED BY <1>6, <2>1
          DEF CancelTaskInstancesByTaskId, AbortTaskInstanceByTaskId, Command,
              NothingStarted, instanceVars
<1>7. CASE \/ \E tasks \in Switches, b \in BOOLEAN : EnableTasks(tasks, b)
           \/ \E h \in Hosts : HostChanged(h)
           \/ Shutdown
  BY <1>7 DEF EnableTasks, HostChanged, Shutdown, NothingStarted, instanceVars
<1>8. ASSUME NEW c \in Configs, ActivateConfig(c) PROVE Calm' /\ NothingStarted
  <2>1. Loop("reload", 0, unfinishedTasks) \in Seq(CalmFrame)
    BY NumberFacts, CalmCalls DEF CalmOp, FrameOp
  <2>2. Trigger(0, OnConfigLoad[c]) \in Seq(CalmFrame)
    BY ConfigAssumption, CalmTrigger
  <2> QED BY <1>8, <2>1, <2>2, CalmFrames
          DEF ActivateConfig, NothingStarted, instanceVars
<1> QED BY <1>1, <1>2, <1>3, <1>4, <1>5, <1>6, <1>7, <1>8
           DEF HandleEvent, Environment

-----------------------------------------------------------------------------
(* The theorem.                                                            *)

\* shutdown() is called between two events: no call is in progress then.
LEMMA ShutdownNext ==
  ASSUME IndInv, ShutdownInv, [Next]_vars
  PROVE  ShutdownInv' /\ (shutingDown => NothingStarted)
<1>1. CASE UNCHANGED vars
  BY <1>1 DEF vars, ShutdownInv, NothingStarted, settingVars, instanceVars
<1>2. CASE Next /\ shutingDown
  <2>1. Calm' /\ NothingStarted
    BY <1>2, StepCalm, EventCalm DEF Next, ShutdownInv, Calm
  <2> QED BY <2>1 DEF ShutdownInv, Calm
<1>3. CASE Next /\ ~shutingDown
  <2>1. shutingDown' => Shutdown
    BY <1>3 DEF Next, Step, HandleEvent, Environment, PlanTask, Planned,
       EnqueueTaskInstance, Deduplicate, Dropped, Queue, DoCancelTaskInstance,
       DoAbortTaskInstance, Aborted, CancelOrAbortEach,
       TaskInstanceStoppedOrCanceled, Settle, TaskInstanceFinishedOrCanceled,
       Forget, Herded, StartTaskInstance, EnqueueOrCancelPlanned, LoopEnds,
       HandleQueuedEvent, HandlePlannedEvent, HandleTaskInstanceStopped,
       ExecutorStop, RequestTask, CancelTaskInstance, AbortTaskInstance,
       CancelTaskInstancesByTaskId, AbortTaskInstanceByTaskId, Command,
       EnableTasks, HostChanged, ActivateConfig, ReplaceTaskOrCancel,
       settingVars
  <2>2. Shutdown => stack' = <<>>
    BY DEF Shutdown, Idle
  <2> QED BY <1>3, <2>1, <2>2, CalmFrames DEF ShutdownInv
<1> QED BY <1>1, <1>2, <1>3

\* Once shutdown() was called no instance is started and none is queued, by
\* any handler, however deep in its calls and whatever the configuration.
THEOREM ShutdownIsSafe == Spec => ShutdownStartsNothing
<1>1. Init => ShutdownInv
  BY DEF Init, ShutdownInv
<1>2. IndInv /\ ShutdownInv /\ [Next]_vars => ShutdownInv'
  BY ShutdownNext
<1>3. IndInv /\ ShutdownInv /\ [Next]_vars =>
        [shutingDown => start' \subseteq start /\ queue' = queue]_vars
  BY ShutdownNext DEF NothingStarted
<1> QED BY <1>1, <1>2, <1>3, Invariant, PTL DEF Spec, ShutdownStartsNothing

-----------------------------------------------------------------------------
(* Calls in progress.                                                      *)

\* The calls that end an instance.
Ends == {"stopped", "settle", "finish"}

CallFrame == [op: FrameOp, id: Nat, ids: SUBSET Nat, acts: Seq(Action),
              mark: BOOLEAN]

\* A call that ends an instance never ends one that runs, only finished
\* instances are forgotten, and only herders wait for a herd.
KnownFrame ==
  {f \in CallFrame :
     /\ f.op \in Ends /\ f.id \in start => f.id \in stop
     /\ f.op = "forget" => f.id \in finish
     /\ f.op = "settle" => f.id \in Created /\ IsHerder(f.id)}

\* The loop that starts instances is called by the event loop only.
StartLast == \A k \in DOMAIN stack : stack[k].op = "start" => k = Len(stack)

\* An instance that is finished is stopped, and one that is stopped was started
\* or is finished.
Timestamps == finish \subseteq stop /\ stop \subseteq start \cup finish

\* The herd of an instance is that of a herder, which waits for some of it.
Herds ==
  /\ \A i \in Created : IsHerder(info[i].herdid)
  /\ \A h \in Ids :
       /\ unfinishedHerdedTasks[h] \subseteq unfinishedHerds[h]
       /\ \A j \in unfinishedHerds[h] :
            h \in Created /\ j \in Created /\ j # h /\ info[j].herdid = h

\* The instances that a call may queue, start or end.
Touches(f) ==
  IF f.op \in {"cancel", "stopped", "settle", "finish", "enqueue", "queue"}
  THEN {f.id}
  ELSE IF f.op \in {"cancelEach", "abortHerd", "deduplicate", "reload", "start",
                    "enqueueEach"}
  THEN f.ids ELSE {}

Begun(i) == i \in queue \cup start \cup stop \cup finish

\* Nothing happens to a herder from its creation to the end of
\* enqueueTaskInstance().
Fresh ==
  \A k \in DOMAIN stack :
    /\ stack[k].op \in {"enqueue", "queue"} /\ IsHerder(stack[k].id)
    => /\ ~Begun(stack[k].id)
       /\ \A m \in 1..(k - 1) : stack[k].id \notin Touches(stack[m])

Forgets(i) == stack # <<>> /\ Head(stack).op = "forget" /\ Head(stack).id = i

\* No unfinished instance is forgotten; a finished herder is, with its herd, as
\* soon as taskInstanceFinishedOrCanceled() returns.
Remembered ==
  /\ \A i \in Created : i \notin finish => i \in unfinishedTasks
  /\ \A h \in finish : IsHerder(h) /\ ~Forgets(h) =>
       h \notin unfinishedTasks /\ unfinishedHerds[h] = {}

CallsInv ==
  /\ stack \in Seq(KnownFrame) /\ StartLast
  /\ Timestamps /\ Herds /\ Fresh /\ Remembered

\* What is below the call on top of the stack.
Rest == IF stack = <<>> THEN <<>> ELSE Tail(stack)

\* A call returns into other calls, or an event makes the first ones.
Pushes(frames) == stack' = frames \o Rest

-----------------------------------------------------------------------------
(* Sequences of calls.                                                     *)

\* Sequences over a set of frames, put one after the other.
LEMMA SeqClosed ==
  ASSUME NEW G
  PROVE  /\ <<>> \in Seq(G)
         /\ \A f \in G : << f >> \in Seq(G)
         /\ \A f, g \in G : << f, g >> \in Seq(G)
         /\ \A s1, s2 \in Seq(G) : s1 \o s2 \in Seq(G)
<1>1. \A s1, s2 \in Seq(G) : s1 \o s2 \in Seq(G)
  BY ConcatProperties
<1> QED BY <1>1, EmptySeq

\* Loops and actions, if there are any, are sequences of one frame.
LEMMA LoopIn ==
  ASSUME NEW G, NEW op, NEW i, NEW S,
         [op |-> op, id |-> i, ids |-> S, acts |-> <<>>, mark |-> FALSE] \in G
  PROVE  Loop(op, i, S) \in Seq(G)
BY SeqClosed DEF Loop

LEMMA TriggerIn ==
  ASSUME NEW G, NEW i, NEW acts,
         [op |-> "trigger", id |-> i, ids |-> {}, acts |-> acts,
          mark |-> FALSE] \in G
  PROVE  Trigger(i, acts) \in Seq(G)
BY SeqClosed DEF Trigger

\* The calls below the one on top.
LEMMA RestIn ==
  ASSUME NEW G, stack \in Seq(G)
  PROVE  /\ Rest \in Seq(G)
         /\ Len(Rest) = IF stack = <<>> THEN 0 ELSE Len(stack) - 1
         /\ \A k \in DOMAIN Rest : k + 1 \in DOMAIN stack /\ Rest[k] = stack[k + 1]
         /\ stack # <<>> => /\ Head(stack) \in G /\ Head(stack) = stack[1]
                            /\ 1 \in DOMAIN stack
<1>1. CASE stack = <<>>
  BY <1>1, EmptySeq DEF Rest
<1>2. CASE stack # <<>>
  BY <1>2, HeadTailProperties DEF Rest
<1> QED BY <1>1, <1>2

\* Where each frame of the new stack comes from, and where each one of the old
\* stack goes to.
LEMMA Shift ==
  ASSUME NEW G, NEW frames \in Seq(G), stack \in Seq(G), Pushes(frames)
  PROVE  /\ stack' \in Seq(G) /\ Len(stack') = Len(frames) + Len(Rest)
         /\ Len(frames) \in Nat /\ Len(stack) \in Nat
         /\ \A k \in DOMAIN stack' :
              \/ k \in DOMAIN frames /\ stack'[k] = frames[k]
              \/ /\ k - Len(frames) + 1 \in DOMAIN stack
                 /\ k - Len(frames) + 1 > 1
                 /\ stack'[k] = stack[k - Len(frames) + 1]
         /\ \A k \in DOMAIN frames : k \in DOMAIN stack' /\ stack'[k] = frames[k]
         /\ \A n \in DOMAIN stack : n > 1 =>
              /\ n - 1 + Len(frames) \in DOMAIN stack'
              /\ stack'[n - 1 + Len(frames)] = stack[n]
<1>1. /\ Rest \in Seq(G)
      /\ Len(Rest) = IF stack = <<>> THEN 0 ELSE Len(stack) - 1
      /\ \A k \in DOMAIN Rest : k + 1 \in DOMAIN stack /\ Rest[k] = stack[k + 1]
  BY RestIn
<1> DEFINE below == Rest
<1>2. stack' = frames \o below
  BY DEF Pushes
<1>3. below \in Seq(G)
  BY <1>1
<1>4. /\ Len(below) \in Nat /\ DOMAIN below = 1..Len(below)
      /\ Len(frames) \in Nat /\ DOMAIN frames = 1..Len(frames)
      /\ Len(stack) \in Nat /\ DOMAIN stack = 1..Len(stack)
  BY <1>3
<1>5. Len(below) = IF Len(stack) = 0 THEN 0 ELSE Len(stack) - 1
  <2>1. stack = <<>> <=> Len(stack) = 0
    BY EmptySeq
  <2> QED BY <1>1, <2>1
<1>6. \A k \in 1..Len(below) : below[k] = stack[k + 1]
  BY <1>1, <1>4
<1> HIDE DEF below
<1>7. /\ stack' \in Seq(G) /\ Len(stack') = Len(frames) + Len(below)
      /\ DOMAIN stack' = 1..(Len(frames) + Len(below))
      /\ \A k \in 1..(Len(frames) + Len(below)) :
           stack'[k] = IF k <= Len(frames) THEN frames[k]
                       ELSE below[k - Len(frames)]
  BY <1>2, <1>3, <1>4, ConcatProperties
<1>8. \A k \in DOMAIN stack' :
        \/ k \in DOMAIN frames /\ stack'[k] = frames[k]
        \/ /\ k - Len(frames) + 1 \in DOMAIN stack
           /\ k - Len(frames) + 1 > 1
           /\ stack'[k] = stack[k - Len(frames) + 1]
  <2> TAKE k \in DOMAIN stack'
  <2>1. CASE k <= Len(frames)
    BY <1>4, <1>7, <2>1
  <2>2. CASE k > Len(frames)
    <3>1. k - Len(frames) \in 1..Len(below)
      BY <1>4, <1>7, <2>2
    <3>2. stack'[k] = below[k - Len(frames)]
      BY <1>4, <1>7, <2>2
    <3>3. below[k - Len(frames)] = stack[k - Len(frames) + 1]
      BY <1>6, <3>1
    <3>4. k \in Int
      BY <1>4, <1>7
    <3>5. Len(stack) # 0 /\ Len(below) = Len(stack) - 1
      <4>1. Len(below) # 0
        BY <1>4, <3>1
      <4> QED BY <1>5, <4>1
    <3>6. k - Len(frames) + 1 \in 1..Len(stack) /\ k - Len(frames) + 1 > 1
      BY <1>4, <3>1, <3>4, <3>5
    <3> QED BY <1>4, <3>2, <3>3, <3>6
  <2> QED BY <1>4, <1>7, <2>1, <2>2
<1>9. \A n \in DOMAIN stack : n > 1 =>
        /\ n - 1 + Len(frames) \in DOMAIN stack'
        /\ stack'[n - 1 + Len(frames)] = stack[n]
  <2> TAKE n \in DOMAIN stack
  <2> HAVE n > 1
  <2>1. n - 1 \in 1..Len(below) /\ (n - 1) + 1 = n
    <3>1. n \in 1..Len(stack) /\ n \in Int /\ Len(stack) # 0
      BY <1>4
    <3> QED BY <1>4, <1>5, <3>1
  <2>2. /\ n - 1 + Len(frames) \in 1..(Len(frames) + Len(below))
        /\ ~(n - 1 + Len(frames) <= Len(frames))
        /\ (n - 1 + Len(frames)) - Len(frames) = n - 1
    BY <1>4, <2>1
  <2> QED BY <1>6, <1>7, <2>1, <2>2
<1>10. \A k \in DOMAIN frames : k \in DOMAIN stack' /\ stack'[k] = frames[k]
  BY <1>4, <1>7
<1>11. Len(Rest) = Len(below)
  BY DEF below
<1> QED BY <1>4, <1>7, <1>8, <1>9, <1>10, <1>11

\* No loop that starts instances is pushed over other calls.
LEMMA StartLastKept ==
  ASSUME NEW G, stack \in Seq(G), StartLast, NEW frames \in Seq(G),
         \A k \in DOMAIN frames : frames[k].op = "start" =>
           k = Len(frames) /\ Rest = <<>>,
         Pushes(frames)
  PROVE  StartLast'
<1>1. /\ Len(stack') = Len(frames) + Len(Rest)
      /\ Len(frames) \in Nat /\ Len(stack) \in Nat
      /\ \A k \in DOMAIN stack' :
           \/ k \in DOMAIN frames /\ stack'[k] = frames[k]
           \/ /\ k - Len(frames) + 1 \in DOMAIN stack
              /\ k - Len(frames) + 1 > 1
              /\ stack'[k] = stack[k - Len(frames) + 1]
      /\ stack' \in Seq(G)
  BY Shift
<1>2. Len(Rest) = IF stack = <<>> THEN 0 ELSE Len(stack) - 1
  BY RestIn
<1> SUFFICES ASSUME NEW k \in DOMAIN stack', stack'[k].op = "start"
             PROVE  k = Len(stack')
  BY DEF StartLast
<1>3. CASE k \in DOMAIN frames /\ stack'[k] = frames[k]
  <2>1. k = Len(frames) /\ Rest = <<>>
    BY <1>3
  <2>2. Len(Rest) = 0
    BY <2>1, EmptySeq
  <2> QED BY <1>1, <2>1, <2>2
<1>4. CASE /\ k - Len(frames) + 1 \in DOMAIN stack
           /\ k - Len(frames) + 1 > 1
           /\ stack'[k] = stack[k - Len(frames) + 1]
  <2>1. k - Len(frames) + 1 = Len(stack)
    BY <1>4 DEF StartLast
  <2>2. k \in Int /\ stack # <<>>
    BY <1>1, <1>4, EmptySeq
  <2> QED BY <1>1, <1>2, <2>1, <2>2
<1> QED BY <1>1, <1>3, <1>4

-----------------------------------------------------------------------------
(* Quiet steps: those that only make calls, or return.                     *)

\* A herder that a new call may queue, start or end is no longer fresh, was
\* about to be by the call on top of the stack, or is not created yet.
Harmless(f) ==
  stack = <<>> \/ \A j \in Touches(f) :
    j \in Created /\ IsHerder(j) => Begun(j) \/ j \in Touches(Top)

QuietFrame ==
  {f \in KnownFrame :
     /\ Harmless(f)
     /\ f.op \in {"enqueue", "queue"} /\ IsHerder(f.id) => ~Begun(f.id)}
PlainFrame == {f \in QuietFrame : f.op \notin {"start", "enqueue", "queue"}}

QuietPush(frames) ==
  /\ frames \in Seq(QuietFrame) /\ Pushes(frames)
  /\ \A k \in DOMAIN frames :
       /\ frames[k].op = "start" => k = Len(frames) /\ Rest = <<>>
       /\ frames[k].op \in {"enqueue", "queue"} =>
            \A m \in 1..(k - 1) : frames[k].id \notin Touches(frames[m])

\* New calls that neither start nor queue anything can be made in any order.
LEMMA PlainPush ==
  ASSUME NEW frames \in Seq(PlainFrame), Pushes(frames)
  PROVE  QuietPush(frames)
<1>1. frames \in Seq(QuietFrame)
  <2>1. PlainFrame \subseteq QuietFrame
    BY DEF PlainFrame
  <2> QED BY <2>1, SeqMonotonic
<1>2. \A k \in DOMAIN frames : frames[k] \in PlainFrame
  OBVIOUS
<1> QED BY <1>1, <1>2 DEF PlainFrame, QuietPush

\* The same, for calls that are pushed on those below the call that returns.
LEMMA PlainReturn ==
  ASSUME NEW frames \in Seq(PlainFrame), stack # <<>>, Return(frames)
  PROVE  \E new : QuietPush(new)
<1>1. Pushes(frames)
  BY DEF Return, Pushes, Rest
<1> QED BY <1>1, PlainPush

LEMMA CallKnown ==
  ASSUME NEW op \in FrameOp, NEW i \in Nat, NEW mark \in BOOLEAN,
         op \in Ends /\ i \in start => i \in stop,
         op = "forget" => i \in finish,
         op = "settle" => i \in Created /\ IsHerder(i)
  PROVE  CallMark(op, i, mark) \in KnownFrame
<1>1. <<>> \in Seq(Action) /\ {} \in SUBSET Nat
  BY EmptySeq
<1> QED BY <1>1 DEF CallMark, KnownFrame, CallFrame

LEMMA LoopKnown ==
  ASSUME NEW op \in FrameOp \ (Ends \cup {"forget"}), NEW i \in Nat,
         NEW S \in SUBSET Nat
  PROVE  [op |-> op, id |-> i, ids |-> S, acts |-> <<>>, mark |-> FALSE]
           \in KnownFrame
<1>1. <<>> \in Seq(Action)
  BY EmptySeq
<1> QED BY <1>1 DEF KnownFrame, CallFrame, Ends

\* The actions that an instance triggers are harmless.
LEMMA TriggerPlain ==
  ASSUME NEW i \in Nat, NEW acts \in Seq(Action)
  PROVE  Trigger(i, acts) \in Seq(PlainFrame)
<1> DEFINE f == [op |-> "trigger", id |-> i, ids |-> {}, acts |-> acts,
                 mark |-> FALSE]
<1>1. f \in KnownFrame
  BY DEF KnownFrame, CallFrame, Ends, FrameOp
<1>2. Touches(f) = {}
  BY DEF Touches
<1>3. f \in PlainFrame
  BY <1>1, <1>2 DEF PlainFrame, QuietFrame, Harmless
<1> QED BY <1>3, SeqClosed DEF Trigger

\* So is a loop over what is no fresh herder, or over what the call on top of
\* the stack is about.
LEMMA LoopPlain ==
  ASSUME NEW op \in Loops \cup {"deduplicate"}, op # "start", NEW i \in Nat,
         NEW S \in SUBSET Nat,
         stack = <<>> \/ \A j \in S :
           j \in Created /\ IsHerder(j) => Begun(j) \/ j \in Touches(Top)
  PROVE  Loop(op, i, S) \in Seq(PlainFrame)
<1> DEFINE f == [op |-> op, id |-> i, ids |-> S, acts |-> <<>>, mark |-> FALSE]
<1>1. f \in KnownFrame
  BY LoopKnown DEF Loops, FrameOp, Ends
<1>2. Touches(f) \subseteq S
  BY DEF Touches, Loops
<1>3. f \in PlainFrame
  BY <1>1, <1>2 DEF PlainFrame, QuietFrame, Harmless, Loops
<1> QED BY <1>3, SeqClosed DEF Loop

\* So is a call about an instance that is no fresh herder, or that the call on
\* top of the stack is about.
LEMMA CallPlain ==
  ASSUME NEW op \in FrameOp \ {"start", "enqueue", "queue"}, NEW i \in Nat,
         NEW mark \in BOOLEAN,
         op \in Ends /\ i \in start => i \in stop,
         op = "forget" => i \in finish,
         op = "settle" => i \in Created /\ IsHerder(i),
         \/ op \notin Ends \cup {"cancel"}
         \/ stack = <<>>
         \/ i \in Created /\ IsHerder(i) => Begun(i) \/ i \in Touches(Top)
  PROVE  CallMark(op, i, mark) \in PlainFrame
<1> DEFINE f == CallMark(op, i, mark)
<1>1. f \in KnownFrame /\ f.op = op /\ f.id = i /\ f.ids = {}
  BY CallKnown DEF CallMark
<1>2. /\ Touches(f) \subseteq {i}
      /\ op \notin Ends \cup {"cancel"} => Touches(f) = {}
  BY <1>1 DEF Touches, Ends
<1> HIDE DEF f
<1>3. f \in PlainFrame
  BY <1>1, <1>2 DEF PlainFrame, QuietFrame, Harmless
<1> QED BY <1>3 DEF f

\* The frames of the stack are well formed.
LEMMA FrameFacts ==
  ASSUME IndInv
  PROVE  /\ DOMAIN stack = 1..Len(stack) /\ Len(stack) \in Nat
         /\ \A k \in DOMAIN stack :
              /\ stack[k] \in Frame
              /\ stack[k].op \notin Loops \cup {"trigger"} =>
                   stack[k].id \in Created
         /\ stack # <<>> => 1 \in DOMAIN stack /\ Top = stack[1]
<1>1. stack \in Seq(Frame) /\ Len(info) \in Nat
  BY StepFacts DEF TypeOK
<1>2. \A k \in DOMAIN stack : stack[k] \in Frame
  BY <1>1
<1>3. stack # <<>> => 1 \in DOMAIN stack /\ Top = stack[1]
  <2>1. stack # <<>> => Len(stack) # 0
    BY <1>1, EmptySeq
  <2> QED BY <1>1, <2>1 DEF Top
<1> QED BY <1>1, <1>2, <1>3 DEF Frame, Created

\* Fresh herders stay fresh if the new calls are harmless.
LEMMA FreshKept ==
  ASSUME IndInv, Fresh, NEW G, NEW frames \in Seq(G), stack \in Seq(G),
         Pushes(frames),
         \A j \in Created : info'[j] = info[j],
         \A j \in Created : IsHerder(j) /\ Begun(j)' =>
           Begun(j) \/ stack = <<>> \/ j \in Touches(Top),
         \A k \in DOMAIN frames : Harmless(frames[k]),
         \A k \in DOMAIN frames :
           frames[k].op \in {"enqueue", "queue"} =>
             /\ IsHerder(frames[k].id)' => ~Begun(frames[k].id)'
             /\ \A m \in 1..(k - 1) : frames[k].id \notin Touches(frames[m])
  PROVE  Fresh'
<1>1. /\ Len(frames) \in Nat /\ Len(stack) \in Nat
      /\ \A k \in DOMAIN stack' :
           \/ k \in DOMAIN frames /\ stack'[k] = frames[k]
           \/ /\ k - Len(frames) + 1 \in DOMAIN stack
              /\ k - Len(frames) + 1 > 1
              /\ stack'[k] = stack[k - Len(frames) + 1]
      /\ \A k \in DOMAIN frames : k \in DOMAIN stack' /\ stack'[k] = frames[k]
      /\ stack' \in Seq(G)
  BY Shift
<1>2. DOMAIN frames = 1..Len(frames) /\ DOMAIN stack' = 1..Len(stack')
      /\ Len(stack') \in Nat
  BY <1>1
<1> SUFFICES ASSUME NEW k \in DOMAIN stack', NEW i, stack'[k].id = i,
                    stack'[k].op \in {"enqueue", "queue"}, IsHerder(i)'
             PROVE  /\ ~Begun(i)'
                    /\ \A m \in 1..(k - 1) : i \notin Touches(stack'[m])
  BY DEF Fresh, Touches, Begun, IsHerder
<1>3. CASE k \in DOMAIN frames /\ stack'[k] = frames[k]
  <2>1. ~Begun(i)'
    BY <1>3
  <2>2. \A m \in 1..(k - 1) : stack'[m] = frames[m]
    BY <1>1, <1>2, <1>3
  <2> QED BY <1>3, <2>1, <2>2
<1>4. CASE /\ k - Len(frames) + 1 \in DOMAIN stack
           /\ k - Len(frames) + 1 > 1
           /\ stack'[k] = stack[k - Len(frames) + 1]
  <2> DEFINE n == k - Len(frames) + 1
  <2>1. /\ n \in DOMAIN stack /\ n \in Int /\ n > 1 /\ i = stack[n].id
        /\ stack[n].op \in {"enqueue", "queue"} /\ k \in Int
    BY <1>1, <1>2, <1>4
  <2>2. i \in Created
    BY <2>1, FrameFacts DEF Loops
  <2>3. IsHerder(i)
    BY <2>1, <2>2 DEF IsHerder
  <2>4. /\ ~Begun(i)
        /\ \A m \in 1..(n - 1) : i \notin Touches(stack[m])
    BY <2>1, <2>3 DEF Fresh
  <2>5. stack # <<>> /\ i \notin Touches(Top)
    <3>1. stack # <<>>
      BY <2>1, FrameFacts
    <3>2. 1 \in 1..(n - 1)
      BY <2>1
    <3> QED BY <2>4, <3>1, <3>2, FrameFacts
  <2>6. ~Begun(i)'
    BY <2>2, <2>3, <2>4, <2>5
  <2>7. ASSUME NEW m \in 1..(k - 1) PROVE i \notin Touches(stack'[m])
    <3>1. m \in DOMAIN stack' /\ m \in Int
      BY <1>2, <2>1
    <3>2. CASE m \in DOMAIN frames /\ stack'[m] = frames[m]
      BY <2>2, <2>3, <2>4, <2>5, <3>2 DEF Harmless
    <3>3. CASE /\ m - Len(frames) + 1 \in DOMAIN stack
               /\ m - Len(frames) + 1 > 1
               /\ stack'[m] = stack[m - Len(frames) + 1]
      <4>1. m - Len(frames) + 1 \in 1..(n - 1)
        BY <1>1, <2>1, <3>1, <3>3
      <4> QED BY <2>4, <3>3, <4>1
    <3> QED BY <1>1, <3>1, <3>2, <3>3
  <2> QED BY <2>6, <2>7
<1> QED BY <1>1, <1>3, <1>4

\* A quiet step keeps the invariant.
LEMMA QuietStep ==
  ASSUME IndInv, CallsInv, ~On("forget"), \E new : QuietPush(new),
         UNCHANGED <<info, queue, start, stop, finish, unfinishedHerds>>,
         \A h \in Ids : unfinishedHerdedTasks'[h] \subseteq unfinishedHerdedTasks[h],
         unfinishedTasks \subseteq unfinishedTasks',
         unfinishedTasks' \cap finish \subseteq unfinishedTasks
  PROVE  CallsInv'
<1>1. PICK frames : QuietPush(frames)
  OBVIOUS
<1>2. UNCHANGED <<KnownFrame, Created>> /\ \A i : Begun(i)' <=> Begun(i)
  BY DEF KnownFrame, IsHerder, Begun, Created
<1>3. /\ stack \in Seq(KnownFrame) /\ StartLast /\ Timestamps /\ Herds
      /\ Fresh /\ Remembered
  BY DEF CallsInv
<1>4. frames \in Seq(KnownFrame) /\ \A k \in DOMAIN frames : frames[k] \in QuietFrame
  <2>1. QuietFrame \subseteq KnownFrame
    BY DEF QuietFrame
  <2> QED BY <1>1, <2>1, SeqMonotonic DEF QuietPush
<1>5. stack' \in Seq(KnownFrame')
  <2>1. stack' \in Seq(KnownFrame)
    BY <1>1, <1>3, <1>4, Shift DEF QuietPush
  <2> QED BY <1>2, <2>1
<1>6. StartLast'
  BY <1>1, <1>3, <1>4, StartLastKept DEF QuietPush
<1>7. Timestamps' /\ Herds'
  BY <1>2, <1>3 DEF Timestamps, Herds, IsHerder
<1>8. Fresh'
  <2>1. /\ \A k \in DOMAIN frames : Harmless(frames[k])
        /\ \A k \in DOMAIN frames :
             frames[k].op \in {"enqueue", "queue"} =>
               /\ IsHerder(frames[k].id)' => ~Begun(frames[k].id)'
               /\ \A m \in 1..(k - 1) : frames[k].id \notin Touches(frames[m])
    BY <1>1, <1>2, <1>4 DEF QuietPush, QuietFrame, IsHerder
  <2>2. \A j \in Created : IsHerder(j) /\ Begun(j)' =>
          Begun(j) \/ stack = <<>> \/ j \in Touches(Top)
    BY <1>2
  <2> QED BY <1>1, <1>3, <1>4, <2>1, <2>2, FreshKept DEF QuietPush
<1>9. Remembered'
  <2>1. \A i : ~Forgets(i)
    BY DEF Forgets, On
  <2> QED BY <1>2, <1>3, <2>1 DEF Remembered, IsHerder
<1> QED BY <1>5, <1>6, <1>7, <1>8, <1>9 DEF CallsInv

-----------------------------------------------------------------------------
(* The quiet steps of the scheduler thread.                                *)

\* The call on top of the stack, and the herds.
LEMMA TopFacts ==
  ASSUME IndInv, CallsInv, stack # <<>>
  PROVE  /\ Top.id \in Nat /\ Top.ids \in SUBSET Nat /\ Top.acts \in Seq(Action)
         /\ Top.mark \in BOOLEAN /\ Top \in KnownFrame
         /\ Top.op \notin Loops \cup {"trigger"} =>
              Top.id \in Created /\ Top.id \in Ids
         /\ Top.op \in Ends /\ Top.id \in start => Top.id \in stop
         /\ Top.op = "forget" => Top.id \in finish
         /\ Top.op = "settle" => IsHerder(Top.id)
         /\ Top.op = "start" => Rest = <<>>
         /\ Rest = Tail(stack)
<1>1. Top \in KnownFrame
  BY RestIn DEF CallsInv, Top
<1>2. Top.op = "start" => Rest = <<>>
  <2>1. Top = stack[1] /\ 1 \in DOMAIN stack
    BY FrameFacts
  <2>2. Rest \in Seq(KnownFrame) /\ Len(Rest) = Len(stack) - 1
    BY RestIn DEF CallsInv
  <2>3. Top.op = "start" => Len(stack) = 1
    BY <2>1 DEF CallsInv, StartLast
  <2>4. Len(Rest) = 0 => Rest = <<>>
    BY <2>2, EmptySeq
  <2> QED BY <2>2, <2>3, <2>4
<1>3. Top.mark \in BOOLEAN
  BY <1>1 DEF KnownFrame, CallFrame
<1> QED BY <1>1, <1>2, <1>3, NumberFacts, StepFacts
        DEF KnownFrame, Rest

\* A herd has no herders, and those of unfinished instances are created.
LEMMA HerdFacts ==
  ASSUME IndInv, CallsInv, NEW i \in Ids
  PROVE  /\ HerdedTasks(i) \in SUBSET Nat
         /\ \A j \in HerdedTasks(i) :
              ~IsHerder(j) /\ j \in Created /\ j # i /\ info[j].herdid = i
<1>1. HerdedTasks(i) \in SUBSET Nat
  BY NumberFacts DEF HerdedTasks
<1>2. \A j \in unfinishedHerds[i] :
        ~IsHerder(j) /\ j \in Created /\ j # i /\ info[j].herdid = i
  BY DEF CallsInv, Herds, IsHerder
<1> QED BY <1>1, <1>2 DEF HerdedTasks

\* The actions that an instance triggers when it finishes are harmless.
LEMMA FinishPlain ==
  ASSUME IndInv, NEW i \in Created
  PROVE  /\ FinishActions(i) \in Seq(Action)
         /\ Trigger(i, FinishActions(i)) \in Seq(PlainFrame)
<1>1. FinishActions(i) \in Seq(Action)
  <2>1. TaskOf(i) \in TaskConfig
    BY StepFacts
  <2> QED BY <2>1, EmptySeq, ConcatProperties DEF FinishActions, TaskConfig
<1> QED BY <1>1, NumberFacts, TriggerPlain

\* Planning nothing, returning, and going to the next duplicate.
LEMMA SimpleCalls ==
  ASSUME IndInv, CallsInv,
         \/ PlanTask /\ Head(Top.acts).task \notin enabled
         \/ Planned \/ Dropped \/ Aborted \/ LoopEnds \/ Deduplicate
  PROVE  CallsInv'
<1>1. stack # <<>> /\ ~On("forget")
  BY DEF PlanTask, Planned, Dropped, Aborted, LoopEnds, Deduplicate, On
<1>2. CASE PlanTask /\ Head(Top.acts).task \notin enabled
  <2>1. /\ Return(Trigger(Top.id, Tail(Top.acts)))
        /\ UNCHANGED <<instanceVars, indexVars>>
    BY <1>2 DEF PlanTask
  <2>2. Top.acts # <<>>
    BY <1>2, NumberFacts DEF PlanTask, On, Top
  <2>3. Trigger(Top.id, Tail(Top.acts)) \in Seq(PlainFrame)
    BY <1>1, <2>2, TopFacts, TriggerPlain, HeadTailProperties
  <2>4. \E new : QuietPush(new)
    BY <1>1, <2>1, <2>3, PlainReturn
  <2> QED BY <1>1, <2>1, <2>4, QuietStep DEF instanceVars, indexVars
<1>3. CASE Planned \/ Dropped \/ Aborted \/ LoopEnds
  <2>1. /\ Return(<<>>)
        /\ UNCHANGED <<instanceVars, unfinishedTasks, unfinishedHerds,
                       unfinishedHerdedTasks>>
    BY <1>3 DEF Planned, Dropped, Aborted, LoopEnds, indexVars
  <2>2. \E new : QuietPush(new)
    BY <1>1, <2>1, PlainReturn, SeqClosed
  <2> QED BY <1>1, <2>1, <2>2, QuietStep DEF instanceVars
<1>4. CASE Deduplicate
  <2>1. PICK j \in Top.ids :
          Return(<< Call("cancel", j) >>
                 \o Loop("deduplicate", Top.id, Top.ids \ {j}))
    BY <1>4 DEF Deduplicate
  <2>2. Touches(Top) = Top.ids
    BY <1>4 DEF Touches, Deduplicate, On, Top
  <2>3. Call("cancel", j) \in PlainFrame
    BY <1>1, <2>2, TopFacts, CallPlain DEF Call, FrameOp, Ends
  <2>4. Loop("deduplicate", Top.id, Top.ids \ {j}) \in Seq(PlainFrame)
    BY <1>1, <2>2, TopFacts, LoopPlain
  <2>5. \E frames \in Seq(PlainFrame) : Return(frames)
    BY <2>1, <2>3, <2>4, SeqClosed
  <2>6. \E new : QuietPush(new)
    BY <1>1, <2>5, PlainReturn
  <2> QED BY <1>1, <1>4, <2>6, QuietStep
          DEF Deduplicate, instanceVars, indexVars
<1> QED BY <1>2, <1>3, <1>4

\* Canceling and aborting.
LEMMA CancelCalls ==
  ASSUME IndInv, CallsInv,
         DoCancelTaskInstance \/ DoAbortTaskInstance \/ CancelOrAbortEach
  PROVE  CallsInv'
<1>1. stack # <<>> /\ ~On("forget")
  BY DEF DoCancelTaskInstance, DoAbortTaskInstance, CancelOrAbortEach, On, Top
<1>2. CASE DoCancelTaskInstance \/ DoAbortTaskInstance
  <2> DEFINE i == Top.id
  <2>1. i \in Created /\ i \in Ids /\ i \in Nat
    BY <1>1, <1>2, TopFacts
       DEF DoCancelTaskInstance, DoAbortTaskInstance, On, Top, Loops
  <2>2. Loop("abortHerd", i, HerdedTasks(i)) \in Seq(PlainFrame)
    BY <2>1, HerdFacts, LoopPlain DEF Loops
  <2>3. Call("aborted", i) \in PlainFrame
    BY <2>1, CallPlain DEF Call, FrameOp, Ends
  <2>4. CASE DoAbortTaskInstance
    <3>1. \E frames \in Seq(PlainFrame) : Return(frames)
      BY <2>2, <2>3, <2>4, SeqClosed DEF DoAbortTaskInstance
    <3>2. \E new : QuietPush(new)
      BY <1>1, <3>1, PlainReturn
    <3> QED BY <1>1, <2>4, <3>2, QuietStep
            DEF DoAbortTaskInstance, instanceVars, indexVars
  <2>5. CASE DoCancelTaskInstance
    <3>1. Loop("cancelEach", i, HerdedTasks(i)) \in Seq(PlainFrame)
      BY <2>1, HerdFacts, LoopPlain DEF Loops
    <3>2. ASSUME Status(i) \in UnstartedStatus
          PROVE  Call("stopped", i) \in PlainFrame
      <4>1. i \notin start
        BY <3>2 DEF UnstartedStatus, Status
      <4>2. i \in Touches(Top)
        BY <2>5 DEF Touches, DoCancelTaskInstance, On, Top
      <4> QED BY <2>1, <4>1, <4>2, CallPlain DEF Call, FrameOp, Ends
    <3>3. \E frames \in Seq(PlainFrame) : Return(frames)
      BY <2>5, <3>1, <3>2, SeqClosed DEF DoCancelTaskInstance
    <3>4. \E new : QuietPush(new)
      BY <1>1, <3>3, PlainReturn
    <3> QED BY <1>1, <2>5, <3>4, QuietStep
            DEF DoCancelTaskInstance, instanceVars, indexVars
  <2> QED BY <1>2, <2>4, <2>5
<1>3. CASE CancelOrAbortEach
  <2>1. PICK j \in Top.ids :
          LET next == Loop(Top.op, Top.id, Top.ids \ {j})
          IN  \/ Top.op # "abortEach" /\ Return(<< Call("cancel", j) >> \o next)
              \/ Return(<< Call("abort", j) >> \o next)
              \/ Return(next)
    BY <1>3 DEF CancelOrAbortEach
  <2>2. /\ Top.op \in {"cancelEach", "abortEach", "abortHerd"}
        /\ j \in Nat /\ Top.ids \in SUBSET Nat /\ Top.id \in Nat
    BY <1>1, <1>3, TopFacts DEF CancelOrAbortEach
  <2>3. Call("abort", j) \in PlainFrame
    BY <2>2, CallPlain DEF Call, FrameOp, Ends
  <2>4. Top.op # "abortEach" => Call("cancel", j) \in PlainFrame
    <3>1. Top.op # "abortEach" => Touches(Top) = Top.ids
      BY <2>2 DEF Touches
    <3> QED BY <2>2, <3>1, CallPlain DEF Call, FrameOp, Ends
  <2>5. Loop(Top.op, Top.id, Top.ids \ {j}) \in Seq(PlainFrame)
    <3>1. CASE Top.op # "abortEach"
      <4>1. Touches(Top) = Top.ids
        BY <2>2, <3>1 DEF Touches
      <4> QED BY <2>2, <4>1, LoopPlain DEF Loops
    <3>2. CASE Top.op = "abortEach"
      <4> DEFINE f == [op |-> "abortEach", id |-> Top.id, ids |-> Top.ids \ {j},
                       acts |-> <<>>, mark |-> FALSE]
      <4>1. f \in KnownFrame /\ Touches(f) = {}
        BY <2>2, LoopKnown DEF FrameOp, Ends, Touches
      <4>2. f \in PlainFrame
        BY <4>1 DEF PlainFrame, QuietFrame, Harmless
      <4> QED BY <3>2, <4>2, SeqClosed DEF Loop
    <3> QED BY <3>1, <3>2
  <2>6. \E frames \in Seq(PlainFrame) : Return(frames)
    BY <2>1, <2>3, <2>4, <2>5, SeqClosed
  <2>7. \E new : QuietPush(new)
    BY <1>1, <2>6, PlainReturn
  <2> QED BY <1>1, <1>3, <2>7, QuietStep
          DEF CancelOrAbortEach, instanceVars, indexVars
<1> QED BY <1>2, <1>3

\* Sequences of one or two frames.
LEMMA Concats ==
  ASSUME NEW f, NEW g
  PROVE  /\ << f >> \o << g >> = << f, g >>
         /\ << f >> \o <<>> = << f >> /\ <<>> \o << g >> = << g >>
         /\ <<>> \o <<>> = <<>>
         /\ DOMAIN << f, g >> = {1, 2} /\ Len(<< f, g >>) = 2
         /\ DOMAIN << f >> = {1} /\ Len(<< f >>) = 1
         /\ << f, g >>[1] = f /\ << f, g >>[2] = g /\ << f >>[1] = f
         /\ DOMAIN <<>> = {}
<1> DEFINE G == {f, g}
           both == << f >> \o << g >>
<1>1. /\ << f, g >> \in Seq(G) /\ << g >> \in Seq(G) /\ << f >> \in Seq(G)
      /\ <<>> \in Seq(G)
  BY SeqClosed
<1>2. /\ DOMAIN << f, g >> = {1, 2} /\ Len(<< f, g >>) = 2
      /\ << f, g >>[1] = f /\ << f, g >>[2] = g
      /\ Len(<< f >>) = 1 /\ << f >>[1] = f /\ DOMAIN << f >> = {1}
      /\ Len(<< g >>) = 1 /\ << g >>[1] = g
      /\ DOMAIN <<>> = {}
  OBVIOUS
<1>3. both \in Seq(G) /\ Len(both) = 2 /\ both[1] = f /\ both[2] = g
  BY <1>1, <1>2, ConcatProperties
<1>4. \A k \in 1..Len(both) : both[k] = << f, g >>[k]
  BY <1>2, <1>3
<1>5. << f >> \o <<>> = << f >> /\ <<>> \o << g >> = << g >>
      /\ <<>> \o <<>> = <<>>
  BY <1>1, ConcatEmptySeq
<1> HIDE DEF both, G
<1>6. both = << f, g >>
  BY <1>1, <1>2, <1>3, <1>4, SeqEqual
<1> QED BY <1>2, <1>5, <1>6 DEF both

\* One or two calls, the last of which may start or queue instances.
LEMMA ShortPush ==
  ASSUME NEW f \in QuietFrame, NEW g \in QuietFrame,
         f.op # "start", g.op = "start" => Rest = <<>>
  PROVE  /\ Pushes(<< g >>) => QuietPush(<< g >>)
         /\ /\ Pushes(<< f, g >>)
            /\ g.op \in {"enqueue", "queue"} => g.id \notin Touches(f)
            => QuietPush(<< f, g >>)
         /\ << f >> \o << g >> = << f, g >> /\ << f >> \o <<>> = << f >>
         /\ <<>> \o << g >> = << g >>
<1>1. << f, g >> \in Seq(QuietFrame) /\ << g >> \in Seq(QuietFrame)
  BY SeqClosed
<1>2. /\ DOMAIN << f, g >> = {1, 2} /\ DOMAIN << g >> = {1}
      /\ Len(<< f, g >>) = 2 /\ Len(<< g >>) = 1
      /\ << f, g >>[1] = f /\ << f, g >>[2] = g /\ << g >>[1] = g
      /\ 1..(1 - 1) = {} /\ 1..(2 - 1) = {1}
  OBVIOUS
<1>3. Pushes(<< g >>) => QuietPush(<< g >>)
  BY <1>1, <1>2 DEF QuietPush
<1>4. Pushes(<< f, g >>) /\ (g.op \in {"enqueue", "queue"} => g.id \notin Touches(f))
      => QuietPush(<< f, g >>)
  BY <1>1, <1>2 DEF QuietPush
<1> QED BY <1>3, <1>4, Concats

\* A call that returns into other ones.
LEMMA ReturnPushes ==
  ASSUME NEW frames, stack # <<>>
  PROVE  Return(frames) <=> Pushes(frames)
BY DEF Return, Pushes, Rest

\* Queuing an instance, once its duplicates are canceled.
LEMMA EnqueueCalls ==
  ASSUME IndInv, CallsInv, EnqueueTaskInstance PROVE CallsInv'
<1> DEFINE i == Top.id
           victims == IF info[i].force THEN {} ELSE Deduplicated(i)
           last == Call(IF i \in victims THEN "dropped" ELSE "queue", i)
           loop == [op |-> "deduplicate", id |-> i, ids |-> victims,
                    acts |-> <<>>, mark |-> FALSE]
<1>1. /\ stack # <<>> /\ ~On("forget") /\ Top.op = "enqueue"
      /\ i \in Created /\ i \in Nat
  BY TopFacts DEF EnqueueTaskInstance, On, Top, Loops
<1>2. Touches(Top) = {i}
  BY <1>1 DEF Touches
<1>3. IsHerder(i) => ~Begun(i)
  <2>1. 1 \in DOMAIN stack /\ Top = stack[1]
    BY <1>1, FrameFacts
  <2> QED BY <1>1, <2>1 DEF CallsInv, Fresh
<1>4. victims \in SUBSET Nat /\ \A j \in victims : Begun(j) \/ j = i
  <2>1. Duplicates(i) \subseteq Queued /\ Queued \subseteq Nat
    BY StepFacts, NumberFacts DEF Duplicates
  <2>2. \A j \in Queued : Begun(j)
    BY DEF Queued, Status, Begun
  <2>3. victims \subseteq Duplicates(i) \cup {i}
    BY DEF Deduplicated
  <2> QED BY <1>1, <2>1, <2>2, <2>3
<1>5. last \in QuietFrame /\ last.op \in {"dropped", "queue"} /\ last.id = i
      /\ (last.op = "queue" => i \notin victims)
  <2>1. last \in KnownFrame /\ last.id = i
        /\ last.op = IF i \in victims THEN "dropped" ELSE "queue"
    BY <1>1, CallKnown DEF Call, CallMark, FrameOp, Ends
  <2>2. Touches(last) \subseteq {i}
    BY <2>1 DEF Touches
  <2> HIDE DEF last
  <2> QED BY <1>2, <1>3, <2>1, <2>2 DEF QuietFrame, Harmless
<1>6. loop \in QuietFrame /\ loop.op = "deduplicate" /\ Touches(loop) = victims
  <2>1. loop \in KnownFrame
    BY <1>1, <1>4, LoopKnown DEF FrameOp, Ends
  <2>2. Touches(loop) = victims
    BY DEF Touches
  <2> QED BY <1>2, <1>4, <2>1, <2>2 DEF QuietFrame, Harmless
<1>7. Call("cancel", i) \in PlainFrame
  BY <1>1, <1>2, CallPlain DEF Call, FrameOp, Ends
<1> HIDE DEF last
<1>8. \/ Return(<<>>) \/ Return(<< Call("cancel", i) >>)
      \/ Return(Loop("deduplicate", i, victims) \o << last >>)
  BY DEF EnqueueTaskInstance, last
<1> HIDE DEF i, victims, loop
<1>9. ASSUME Return(Loop("deduplicate", i, victims) \o << last >>)
      PROVE  \E new : QuietPush(new)
  <2>1. Loop("deduplicate", i, victims) =
          IF victims = {} THEN <<>> ELSE << loop >>
    BY DEF Loop, loop
  <2>2. /\ Pushes(<< last >>) => QuietPush(<< last >>)
        /\ Pushes(<< loop, last >>) => QuietPush(<< loop, last >>)
        /\ << loop >> \o << last >> = << loop, last >>
        /\ <<>> \o << last >> = << last >>
    BY <1>5, <1>6, ShortPush
  <2> QED BY <1>1, <1>9, <2>1, <2>2, ReturnPushes
<1>10. \E new : QuietPush(new)
  BY <1>1, <1>7, <1>8, <1>9, SeqClosed, PlainReturn
<1> QED BY <1>1, <1>10, QuietStep
        DEF EnqueueTaskInstance, instanceVars, indexVars

\* Stopping an instance, before it finishes.
LEMMA StoppedCalls ==
  ASSUME IndInv, CallsInv, TaskInstanceStoppedOrCanceled \/ Settle
  PROVE  CallsInv'
<1> DEFINE i == Top.id
<1>1. /\ stack # <<>> /\ ~On("forget") /\ Top.op \in {"stopped", "settle"}
  BY DEF TaskInstanceStoppedOrCanceled, Settle, On, Top
<1>2. /\ i \in Created /\ i \in Nat /\ Top.mark \in BOOLEAN
      /\ i \in start => i \in stop
      /\ Top.op = "settle" => IsHerder(i)
  BY <1>1, TopFacts DEF Loops, Ends
<1>3. i \in Touches(Top)
  BY <1>1 DEF Touches
<1>4. /\ IsHerder(i) => CallMark("settle", i, Top.mark) \in PlainFrame
      /\ CallMark("finish", i, Top.mark) \in PlainFrame
      /\ Call("herded", i) \in PlainFrame
  BY <1>2, <1>3, CallPlain DEF Call, FrameOp, Ends
<1>5. Trigger(i, FinishActions(i)) \in Seq(PlainFrame)
  BY <1>2, FinishPlain
<1>6. \E frames \in Seq(PlainFrame) : Return(frames)
  BY <1>4, <1>5, SeqClosed DEF TaskInstanceStoppedOrCanceled, Settle
<1>7. \E new : QuietPush(new)
  BY <1>1, <1>6, PlainReturn
<1> QED BY <1>1, <1>7, QuietStep
        DEF TaskInstanceStoppedOrCanceled, Settle, instanceVars, indexVars

\* The loops over planned instances, and over those that have not started.
LEMMA EachCalls ==
  ASSUME IndInv, CallsInv, NEW i \in Created,
         EnqueueOrCancelPlanned(i) \/ ReplaceTaskOrCancel(i)
  PROVE  CallsInv'
<1> DEFINE next1 == Loop("enqueueEach", 0,
                         Above(i, {j \in Top.ids : Status(j) = "Planned"}))
           next2 == Loop("reload", 0,
                      Above(i, {j \in Top.ids : Status(j) \in UnstartedStatus}))
<1>1. /\ stack # <<>> /\ ~On("forget") /\ Top.op \in {"enqueueEach", "reload"}
      /\ Touches(Top) = Top.ids /\ Top.ids \in SUBSET Nat /\ i \in Top.ids
      /\ i \in Nat /\ Status(i) \in UnstartedStatus
  BY TopFacts, NumberFacts
     DEF EnqueueOrCancelPlanned, ReplaceTaskOrCancel, On, Top, Touches, Lowest,
         UnstartedStatus
<1>2. /\ next1 \in Seq(PlainFrame) /\ next2 \in Seq(PlainFrame)
  <2>1. /\ Above(i, {j \in Top.ids : Status(j) = "Planned"}) \subseteq Top.ids
        /\ Above(i, {j \in Top.ids : Status(j) \in UnstartedStatus})
             \subseteq Top.ids
    BY DEF Above
  <2> QED BY <1>1, <2>1, LoopPlain DEF Loops
<1>3. Call("cancel", i) \in PlainFrame
  BY <1>1, CallPlain DEF Call, FrameOp, Ends
<1>4. ASSUME EnqueueOrCancelPlanned(i), Return(<< Call("enqueue", i) >> \o next1)
      PROVE  \E new : QuietPush(new)
  <2> DEFINE f == Call("enqueue", i)
             S == Above(i, {j \in Top.ids : Status(j) = "Planned"})
             g == [op |-> "enqueueEach", id |-> 0, ids |-> S, acts |-> <<>>,
                   mark |-> FALSE]
  <2>1. f \in QuietFrame /\ f.op = "enqueue"
    <3>1. f \in KnownFrame /\ f.op = "enqueue" /\ f.id = i
      BY <1>1, CallKnown DEF Call, CallMark, FrameOp, Ends
    <3>2. Touches(f) = {i}
      BY <3>1 DEF Touches
    <3>3. ~Begun(i)
      BY <1>4 DEF EnqueueOrCancelPlanned, Lowest, Status, Begun
    <3> HIDE DEF f
    <3> QED BY <1>1, <3>1, <3>2, <3>3 DEF QuietFrame, Harmless
  <2>2. g \in QuietFrame /\ g.op = "enqueueEach"
    <3>1. S \subseteq Top.ids
      BY DEF Above
    <3>2. g \in KnownFrame /\ Touches(g) = S
      BY <1>1, <3>1, LoopKnown DEF FrameOp, Ends, Touches
    <3> QED BY <1>1, <3>1, <3>2 DEF QuietFrame, Harmless
  <2>3. next1 = IF S = {} THEN <<>> ELSE << g >>
    BY DEF Loop
  <2> HIDE DEF f, g, S, next1
  <2>4. Return(<< f >> \o next1)
    BY <1>4 DEF f
  <2>5. /\ Pushes(<< f >>) => QuietPush(<< f >>)
        /\ << f >> \o <<>> = << f >>
    BY <2>1, ShortPush
  <2>6. /\ Pushes(<< f, g >>) => QuietPush(<< f, g >>)
        /\ << f >> \o << g >> = << f, g >>
    BY <2>1, <2>2, ShortPush
  <2> QED BY <1>1, <2>3, <2>4, <2>5, <2>6, ReturnPushes
<1>5. \E new : QuietPush(new)
  <2>1. \/ EnqueueOrCancelPlanned(i) /\ Return(<< Call("enqueue", i) >> \o next1)
        \/ Return(<< Call("cancel", i) >> \o next1)
        \/ Return(<< Call("cancel", i) >> \o next2)
        \/ Return(next1) \/ Return(next2)
    BY DEF EnqueueOrCancelPlanned, ReplaceTaskOrCancel
  <2>2. CASE EnqueueOrCancelPlanned(i) /\ Return(<< Call("enqueue", i) >> \o next1)
    BY <1>4, <2>2
  <2>3. CASE \E frames \in Seq(PlainFrame) : Return(frames)
    BY <1>1, <2>3, PlainReturn
  <2> QED BY <1>2, <1>3, <2>1, <2>2, <2>3, SeqClosed
<1>6. unfinishedTasks \subseteq unfinishedTasks'
      /\ unfinishedTasks' \cap finish \subseteq unfinishedTasks
  <2>1. i \notin finish
    BY <1>1 DEF Status, UnstartedStatus
  <2> QED BY <2>1 DEF EnqueueOrCancelPlanned, ReplaceTaskOrCancel, indexVars
<1> QED BY <1>1, <1>5, <1>6, QuietStep
        DEF EnqueueOrCancelPlanned, ReplaceTaskOrCancel, instanceVars, indexVars

-----------------------------------------------------------------------------
(* Starting.                                                               *)

\* What is left of the loop that starts instances.
LEMMA StartLoop ==
  ASSUME IndInv, CallsInv, NEW i \in Created, StartTaskInstance(i)
  PROVE  LET rest == Above(i, {j \in Top.ids : Status(j) = "Queued"})
             g == [op |-> "start", id |-> 0, ids |-> rest, acts |-> <<>>,
                   mark |-> FALSE]
         IN  /\ stack # <<>> /\ ~On("forget") /\ Top.op = "start"
             /\ Rest = <<>> /\ Status(i) = "Queued" /\ i \in Nat
             /\ i \in Touches(Top) /\ rest \subseteq Touches(Top)
             /\ g \in QuietFrame /\ g.op = "start" /\ g \in KnownFrame'
             /\ Loop("start", 0, rest) = IF rest = {} THEN <<>> ELSE << g >>
<1> DEFINE rest == Above(i, {j \in Top.ids : Status(j) = "Queued"})
           g == [op |-> "start", id |-> 0, ids |-> rest, acts |-> <<>>,
                 mark |-> FALSE]
<1>1. /\ stack # <<>> /\ ~On("forget") /\ Top.op = "start"
      /\ Status(i) = "Queued" /\ i \in Top.ids
  BY DEF StartTaskInstance, On, Top, Lowest
<1>2. Rest = <<>> /\ Top.ids \in SUBSET Nat /\ i \in Nat
  BY <1>1, TopFacts
<1>3. Touches(Top) = Top.ids
  BY <1>1 DEF Touches
<1>4. rest \subseteq Top.ids
  BY DEF Above
<1>5. g \in KnownFrame /\ Touches(g) = rest
  BY <1>2, <1>4, LoopKnown DEF FrameOp, Ends, Touches
<1>6. g \in QuietFrame
  BY <1>3, <1>4, <1>5 DEF QuietFrame, Harmless
<1>7. g \in KnownFrame'
  BY <1>5 DEF KnownFrame, Ends
<1>8. Loop("start", 0, rest) = IF rest = {} THEN <<>> ELSE << g >>
  BY DEF Loop
<1> QED BY <1>1, <1>2, <1>3, <1>4, <1>6, <1>7, <1>8

\* The loop goes on, or a queued instance that has no target is stopped.
LEMMA PassedOver ==
  ASSUME IndInv, CallsInv, NEW i \in Created, StartTaskInstance(i),
         LET next == Loop("start", 0,
                          Above(i, {j \in Top.ids : Status(j) = "Queued"}))
         IN  \/ Return(next)
             \/ Return(<< CallMark("stopped", i, TRUE) >> \o next),
         UNCHANGED start
  PROVE  CallsInv'
<1> DEFINE rest == Above(i, {j \in Top.ids : Status(j) = "Queued"})
           g == [op |-> "start", id |-> 0, ids |-> rest, acts |-> <<>>,
                 mark |-> FALSE]
           f == CallMark("stopped", i, TRUE)
           next == Loop("start", 0, rest)
<1>1. /\ stack # <<>> /\ ~On("forget") /\ Rest = <<>> /\ Status(i) = "Queued"
      /\ i \in Nat /\ i \in Touches(Top) /\ g \in QuietFrame
      /\ next = IF rest = {} THEN <<>> ELSE << g >>
  BY StartLoop
<1>2. f \in PlainFrame
  <2>1. i \notin start
    BY <1>1 DEF Status
  <2> QED BY <1>1, <2>1, CallPlain DEF FrameOp, Ends
<1>3. f \in QuietFrame /\ f.op = "stopped" /\ g.op = "start"
  BY <1>2 DEF PlainFrame, CallMark
<1>4. Pushes(next) \/ Pushes(<< f >> \o next)
  BY <1>1, ReturnPushes
<1> HIDE DEF g, f, next, rest
<1>5. /\ Pushes(<< g >>) => QuietPush(<< g >>)
      /\ Pushes(<< f, g >>) => QuietPush(<< f, g >>)
      /\ << f >> \o << g >> = << f, g >> /\ << f >> \o <<>> = << f >>
  BY <1>1, <1>3, ShortPush
<1>6. /\ Pushes(<<>>) => QuietPush(<<>>)
      /\ Pushes(<< f >>) => QuietPush(<< f >>)
  BY <1>2, SeqClosed, PlainPush
<1>7. \E new : QuietPush(new)
  BY <1>1, <1>4, <1>5, <1>6
<1> QED BY <1>1, <1>7, QuietStep DEF StartTaskInstance, indexVars

\* The launch of a queued instance leaves the actions it triggers and the loop.
LEMMA Launched ==
  ASSUME IndInv, CallsInv, NEW i \in Created, StartTaskInstance(i),
         NEW h, Launch(i, h, Loop("start", 0,
                       Above(i, {j \in Top.ids : Status(j) = "Queued"})))
  PROVE  CallsInv'
<1> DEFINE rest == Above(i, {j \in Top.ids : Status(j) = "Queued"})
           g == [op |-> "start", id |-> 0, ids |-> rest, acts |-> <<>>,
                 mark |-> FALSE]
           next == Loop("start", 0, rest)
           acts == TaskOf(i).onstart
           t == [op |-> "trigger", id |-> i, ids |-> {}, acts |-> acts,
                 mark |-> FALSE]
           frames == Trigger(i, acts) \o next
<1>1. /\ stack # <<>> /\ ~On("forget") /\ Rest = <<>> /\ Status(i) = "Queued"
      /\ i \in Nat /\ i \in Touches(Top) /\ rest \subseteq Touches(Top)
      /\ g \in QuietFrame /\ g \in KnownFrame' /\ Top.op = "start"
      /\ next = IF rest = {} THEN <<>> ELSE << g >>
  BY StartLoop
<1>2. /\ start' = start \cup {i} /\ Pushes(frames)
      /\ UNCHANGED <<info, queue, stop, finish, indexVars>>
  BY <1>1, ReturnPushes DEF StartTaskInstance, Launch
<1>3. acts \in Seq(Action)
  BY StepFacts DEF TaskConfig
<1>4. t \in KnownFrame' /\ t.op = "trigger" /\ Touches(t) = {}
  BY <1>1, <1>3 DEF KnownFrame, CallFrame, FrameOp, Ends, Touches
<1>5. g.op = "start" /\ Touches(g) \subseteq rest
  BY DEF Touches
<1>6. Trigger(i, acts) = IF acts = <<>> THEN <<>> ELSE << t >>
  BY DEF Trigger
<1> HIDE DEF t, g, next, rest, acts
<1>7. /\ frames \in Seq(KnownFrame')
      /\ \A k \in DOMAIN frames :
           /\ frames[k] = t \/ frames[k] = g
           /\ frames[k].op = "start" => k = Len(frames)
  <2>1. frames \in {<<>>, << t >>, << g >>, << t, g >>}
    <3>1. /\ << t >> \o << g >> = << t, g >>
          /\ << t >> \o <<>> = << t >> /\ <<>> \o << g >> = << g >>
          /\ <<>> \o <<>> = <<>>
      BY Concats
    <3> QED BY <1>1, <1>6, <3>1
  <2>2. /\ <<>> \in Seq(KnownFrame') /\ << t >> \in Seq(KnownFrame')
        /\ << g >> \in Seq(KnownFrame') /\ << t, g >> \in Seq(KnownFrame')
    BY <1>1, <1>4, SeqClosed
  <2>3. /\ DOMAIN << t, g >> = {1, 2} /\ Len(<< t, g >>) = 2
        /\ DOMAIN << t >> = {1} /\ Len(<< t >>) = 1
        /\ DOMAIN << g >> = {1} /\ Len(<< g >>) = 1
        /\ << t, g >>[1] = t /\ << t, g >>[2] = g /\ << t >>[1] = t
        /\ << g >>[1] = g /\ DOMAIN <<>> = {}
    <3>1. /\ DOMAIN << t, g >> = {1, 2} /\ Len(<< t, g >>) = 2
          /\ DOMAIN << t >> = {1} /\ Len(<< t >>) = 1
          /\ << t, g >>[1] = t /\ << t, g >>[2] = g /\ << t >>[1] = t
          /\ DOMAIN <<>> = {}
      BY Concats
    <3>2. DOMAIN << g >> = {1} /\ Len(<< g >>) = 1 /\ << g >>[1] = g
      BY Concats
    <3> QED BY <3>1, <3>2
  <2> HIDE DEF frames
  <2>4. CASE frames = <<>>
    BY <2>2, <2>3, <2>4
  <2>5. CASE frames = << t >>
    BY <1>4, <2>2, <2>3, <2>5
  <2>6. CASE frames = << g >>
    BY <1>5, <2>2, <2>3, <2>6
  <2>7. CASE frames = << t, g >>
    BY <1>4, <1>5, <2>2, <2>3, <2>7
  <2> QED BY <2>1, <2>4, <2>5, <2>6, <2>7
<1> HIDE DEF frames
<1>8. stack' = frames
  <2>1. stack' = frames \o <<>>
    BY <1>1, <1>2 DEF Pushes
  <2> QED BY <1>7, <2>1, ConcatEmptySeq
<1>9. stack' \in Seq(KnownFrame') /\ StartLast'
  BY <1>7, <1>8 DEF StartLast
<1>10. Timestamps' /\ Herds' /\ Remembered'
  <2>1. \A j : ~Forgets(j)
    BY <1>1 DEF Forgets, On
  <2> QED BY <1>2, <2>1
          DEF CallsInv, Timestamps, Herds, Remembered, IsHerder, Created,
              indexVars
<1>11. Fresh'
  BY <1>4, <1>5, <1>7, <1>8 DEF Fresh
<1> QED BY <1>9, <1>10, <1>11 DEF CallsInv

\* startTaskInstance() keeps the invariant.
LEMMA StartCalls ==
  ASSUME IndInv, CallsInv, NEW i \in Created, StartTaskInstance(i)
  PROVE  CallsInv'
BY PassedOver, Launched DEF StartTaskInstance

-----------------------------------------------------------------------------
(* Queuing, finishing and forgetting.                                      *)

\* The frames of the stack stay known if what is known of them stays true.
LEMMA KnownKept ==
  ASSUME stack \in Seq(KnownFrame), StartLast, KnownFrame \subseteq KnownFrame',
         NEW frames \in Seq(KnownFrame'), Pushes(frames),
         \A k \in DOMAIN frames : frames[k].op # "start"
  PROVE  stack' \in Seq(KnownFrame') /\ StartLast'
<1> DEFINE G == KnownFrame'
<1>1. stack \in Seq(G) /\ frames \in Seq(G)
  BY SeqMonotonic
<1> HIDE DEF G
<1>2. stack' \in Seq(G)
  BY <1>1, Shift
<1>3. StartLast'
  BY <1>1, StartLastKept
<1> QED BY <1>2, <1>3 DEF G

\* The end of enqueueTaskInstance() keeps the invariant.
LEMMA QueueCalls == ASSUME IndInv, CallsInv, Queue PROVE CallsInv'
<1> DEFINE i == Top.id
<1>1. /\ stack # <<>> /\ ~On("forget") /\ Top.op = "queue" /\ i \in Created
      /\ 1 \in DOMAIN stack /\ Top = stack[1]
  BY TopFacts, FrameFacts DEF Queue, On, Top, Loops
<1>2. /\ Pushes(<<>>) /\ queue' \subseteq queue \cup {i}
      /\ unfinishedTasks \subseteq unfinishedTasks'
      /\ unfinishedTasks' \subseteq unfinishedTasks \cup {i}
      /\ UNCHANGED <<info, start, stop, finish, unfinishedHerds,
                     unfinishedHerdedTasks>>
  BY <1>1, ReturnPushes DEF Queue
<1>3. IsHerder(i) => ~Begun(i)
  BY <1>1 DEF CallsInv, Fresh
<1>4. KnownFrame' = KnownFrame /\ Created' = Created
  BY <1>2 DEF KnownFrame, IsHerder, Created
<1>5. stack' \in Seq(KnownFrame') /\ StartLast'
  BY <1>2, <1>4, KnownKept, SeqClosed, Concats DEF CallsInv
<1>6. Timestamps' /\ Herds'
  BY <1>2, <1>4 DEF CallsInv, Timestamps, Herds, IsHerder
<1>7. Fresh'
  <2>1. i \in Touches(Top)
    BY <1>1 DEF Touches
  <2>2. \A j \in Created : IsHerder(j) /\ Begun(j)' =>
          Begun(j) \/ stack = <<>> \/ j \in Touches(Top)
    BY <1>2, <2>1 DEF Begun
  <2>3. DOMAIN <<>> = {} /\ <<>> \in Seq(KnownFrame)
    BY SeqClosed
  <2> QED BY <1>2, <2>2, <2>3, FreshKept DEF CallsInv
<1>8. Remembered'
  <2>1. \A j : ~Forgets(j)
    BY <1>1 DEF Forgets, On
  <2>2. i \in finish => ~IsHerder(i)
    BY <1>3 DEF Begun
  <2> QED BY <1>2, <1>4, <2>1, <2>2 DEF CallsInv, Remembered, IsHerder
<1> QED BY <1>5, <1>6, <1>7, <1>8 DEF CallsInv

\* taskInstanceFinishedOrCanceled() keeps the invariant.
LEMMA FinishCalls ==
  ASSUME IndInv, CallsInv, TaskInstanceFinishedOrCanceled PROVE CallsInv'
<1>1. PICK i : i = Top.id
  OBVIOUS
<1> DEFINE trigger == IF IsHerder(i) THEN <<>> ELSE Trigger(i, FinishActions(i))
           f == Call("forget", i)
<1>2. /\ stack # <<>> /\ ~On("forget") /\ Top.op = "finish" /\ i \in Created
      /\ i \in Nat /\ (i \in start => i \in stop)
  BY <1>1, TopFacts DEF TaskInstanceFinishedOrCanceled, On, Top, Loops, Ends
<1>3. /\ finish' = finish \cup {i}
      /\ \/ i \notin start /\ start' \in {start, start \cup {i}}
            /\ stop' = stop \cup {i}
         \/ i \in start /\ UNCHANGED <<start, stop>>
      /\ UNCHANGED <<info, queue, indexVars>>
      /\ \/ Return(<< f >>) \/ Return(trigger \o << f >>)
  BY <1>1 DEF TaskInstanceFinishedOrCanceled
<1>4. stop' = stop \cup {i} /\ start' \in {start, start \cup {i}}
  BY <1>2, <1>3
<1>5. KnownFrame \subseteq KnownFrame' /\ Created' = Created
  BY <1>3, <1>4 DEF KnownFrame, IsHerder, Created, Ends
<1>6. f \in KnownFrame' /\ f.op = "forget" /\ f.id = i /\ Touches(f) = {}
  <2>1. <<>> \in Seq(Action)
    BY EmptySeq
  <2> QED BY <1>2, <1>3, <1>4, <2>1
          DEF Call, CallMark, KnownFrame, CallFrame, Ends, FrameOp, Touches
<1> HIDE DEF f
<1>7. /\ trigger \in Seq(PlainFrame) /\ PlainFrame \subseteq KnownFrame
      /\ \A g \in PlainFrame : Harmless(g) /\ g.op \notin {"start", "enqueue", "queue"}
  BY <1>2, FinishPlain, SeqClosed DEF PlainFrame, QuietFrame
<1>8. PICK new \in {<<>>, trigger} :
        /\ Pushes(new \o << f >>)
        /\ IsHerder(i) => new = <<>>
  <2>1. <<>> \o << f >> = << f >>
    BY Concats
  <2> QED BY <1>2, <1>3, <1>4, <2>1, ReturnPushes
<1>9. new \in Seq(PlainFrame)
  BY <1>7, <1>8, SeqClosed
<1> HIDE DEF trigger
<1> DEFINE G == PlainFrame \cup {f}
           frames == new \o << f >>
<1>10. /\ frames \in Seq(G) /\ \A k \in DOMAIN frames : frames[k] \in G
      /\ G \subseteq KnownFrame'
  <2>1. new \in Seq(G) /\ << f >> \in Seq(G)
    BY <1>9, SeqClosed, SeqMonotonic
  <2>2. frames \in Seq(G)
    BY <2>1, SeqClosed
  <2> QED BY <1>5, <1>6, <1>7, <2>2
<1>11. \A g \in G : g.op \notin {"start", "enqueue", "queue"} /\ Harmless(g)
  BY <1>6, <1>7 DEF Harmless
<1>12. frames \in Seq(KnownFrame')
  BY <1>10, SeqMonotonic
<1> HIDE DEF G, frames
<1>13. stack' \in Seq(KnownFrame') /\ StartLast'
  BY <1>5, <1>8, <1>10, <1>11, <1>12, KnownKept DEF CallsInv, frames
<1>14. Timestamps' /\ Herds'
  BY <1>2, <1>3, <1>4, <1>5 DEF CallsInv, Timestamps, Herds, IsHerder, indexVars
<1>15. Fresh'
  <2>1. i \in Touches(Top)
    BY <1>1, <1>2 DEF Touches
  <2>2. \A j \in Created : IsHerder(j) /\ Begun(j)' =>
          Begun(j) \/ stack = <<>> \/ j \in Touches(Top)
    BY <1>3, <1>4, <2>1 DEF Begun
  <2>3. stack \in Seq(KnownFrame \cup G) /\ frames \in Seq(KnownFrame \cup G)
    BY <1>10, SeqMonotonic DEF CallsInv
  <2>4. Pushes(frames)
    BY <1>8 DEF frames
  <2> QED BY <1>3, <1>4, <1>10, <1>11, <2>2, <2>3, <2>4, FreshKept DEF CallsInv
<1>16. Remembered'
  <2>1. \A j : ~Forgets(j)
    BY <1>2 DEF Forgets, On
  <2>2. IsHerder(i) => Forgets(i)'
    <3>1. SUFFICES ASSUME IsHerder(i) PROVE Forgets(i)'
      OBVIOUS
    <3>2. <<>> \o << f >> = << f >>
      BY Concats
    <3>3. stack' = << f >> \o Rest
      BY <1>8, <3>1, <3>2 DEF Pushes
    <3>4. Rest \in Seq(KnownFrame)
      BY RestIn DEF CallsInv
    <3>5. stack' # <<>> /\ Head(stack') = f
      <4>1. << f >> \in Seq(KnownFrame \cup {f}) /\ Rest \in Seq(KnownFrame \cup {f})
        BY <3>4, SeqClosed, SeqMonotonic
      <4>2. /\ stack' \in Seq(KnownFrame \cup {f}) /\ stack'[1] = f
            /\ Len(stack') >= 1
        <5>1. Len(<< f >>) = 1 /\ << f >>[1] = f /\ Len(Rest) \in Nat
          BY <4>1
        <5> QED BY <3>3, <4>1, <5>1, ConcatProperties
      <4> QED BY <4>2, EmptySeq
    <3> QED BY <1>6, <3>5 DEF Forgets
  <2> QED BY <1>3, <1>4, <1>5, <2>1, <2>2 DEF CallsInv, Remembered, IsHerder, indexVars
<1> QED BY <1>13, <1>14, <1>15, <1>16 DEF CallsInv

\* The end of taskInstanceFinishedOrCanceled() keeps the invariant: no
\* unfinished instance is forgotten.
LEMMA ForgetCalls == ASSUME IndInv, CallsInv, Forget PROVE CallsInv'
<1>1. PICK i : i = Top.id
  OBVIOUS
<1>2. /\ stack # <<>> /\ Top.op = "forget" /\ i \in Created /\ i \in Ids
      /\ i \in finish
  BY <1>1, TopFacts DEF Forget, On, Top, Loops
<1>3. /\ Pushes(<<>>) /\ UNCHANGED instanceVars
      /\ unfinishedTasks' = unfinishedTasks \ Forgotten(i)
      /\ \/ IsHerder(i)
            /\ unfinishedHerds' = [unfinishedHerds EXCEPT ![i] = {}]
            /\ unfinishedHerdedTasks' = [unfinishedHerdedTasks EXCEPT ![i] = {}]
         \/ ~IsHerder(i) /\ UNCHANGED <<unfinishedHerds, unfinishedHerdedTasks>>
  BY <1>1, <1>2, ReturnPushes DEF Forget
<1>4. KnownFrame' = KnownFrame /\ Created' = Created
      /\ UNCHANGED <<info, queue, start, stop, finish>>
  BY <1>3 DEF KnownFrame, IsHerder, Created, instanceVars
<1>5. /\ unfinishedHerds \in [Ids -> SUBSET Created]
      /\ unfinishedHerdedTasks \in [Ids -> SUBSET Created]
  BY StepFacts
<1>6. stack' \in Seq(KnownFrame') /\ StartLast'
  BY <1>3, <1>4, KnownKept, SeqClosed, Concats DEF CallsInv
<1>7. \A h \in Ids :
        /\ unfinishedHerds'[h] \in {unfinishedHerds[h], {}}
        /\ unfinishedHerdedTasks'[h] \in {unfinishedHerdedTasks[h], {}}
        /\ unfinishedHerds'[h] = {} /\ unfinishedHerds[h] # {} =>
             unfinishedHerdedTasks'[h] = {}
        /\ h = i /\ IsHerder(i) => unfinishedHerds'[h] = {}
  BY <1>2, <1>3, <1>5
<1>8. Timestamps' /\ Herds'
  BY <1>4, <1>7 DEF CallsInv, Timestamps, Herds, IsHerder
<1>9. Fresh'
  <2>1. \A j \in Created : IsHerder(j) /\ Begun(j)' =>
          Begun(j) \/ stack = <<>> \/ j \in Touches(Top)
    BY <1>4 DEF Begun
  <2>2. DOMAIN <<>> = {} /\ <<>> \in Seq(KnownFrame)
    BY SeqClosed
  <2> QED BY <1>3, <1>4, <2>1, <2>2, FreshKept DEF CallsInv
<1>10. Remembered'
  <2>1. Forgotten(i) \subseteq finish
    <3>1. \A j : IsFinished(j) => j \in finish
      BY DEF IsFinished, FinishedStatus, Status, CallsInv, Timestamps
    <3> QED BY <1>2, <3>1 DEF Forgotten
  <2>2. IsHerder(i) => i \in Forgotten(i)
    BY DEF Forgotten
  <2>3. \A j : j # i => ~Forgets(j)
    BY <1>1, <1>2 DEF Forgets, Top
  <2>4. finish \subseteq Ids
    BY StepFacts DEF TypeOK, InstanceTypeOK
  <2> QED BY <1>3, <1>4, <1>7, <2>1, <2>2, <2>3, <2>4
          DEF CallsInv, Remembered, IsHerder
<1> QED BY <1>6, <1>8, <1>9, <1>10 DEF CallsInv

\* What the end of a herded instance does to its herder keeps the invariant.
LEMMA HerdedCalls == ASSUME IndInv, CallsInv, Herded PROVE CallsInv'
<1> DEFINE i == Top.id
           h == info[i].herdid
<1>1. /\ stack # <<>> /\ ~On("forget") /\ i \in Created
  BY TopFacts DEF Herded, On, Top, Loops
<1>2. h \in Created /\ h \in Ids /\ h \in Nat
  BY <1>1, StepFacts, NumberFacts
<1>3. \/ Return(<<>>)
      \/ Status(h) = "Waiting" /\ Return(<< Call("finish", h) >>)
  BY DEF Herded, HerderFinishes
<1>4. Status(h) = "Waiting" => Call("finish", h) \in PlainFrame
  <2>1. Status(h) = "Waiting" => h \in stop
    BY DEF Status
  <2> QED BY <1>2, <2>1, CallPlain DEF Call, FrameOp, Ends, Begun
<1>5. \E new : QuietPush(new)
  BY <1>1, <1>3, <1>4, SeqClosed, PlainReturn
<1>6. \A j \in Ids : unfinishedHerdedTasks'[j] \subseteq unfinishedHerdedTasks[j]
  <2>1. unfinishedHerdedTasks \in [Ids -> SUBSET Created]
    BY StepFacts
  <2>2. \/ UNCHANGED unfinishedHerdedTasks
        \/ unfinishedHerdedTasks' =
             [unfinishedHerdedTasks EXCEPT ![h] = unfinishedHerdedTasks[h] \ {i}]
    BY DEF Herded
  <2> QED BY <1>2, <2>1, <2>2
<1> QED BY <1>1, <1>5, <1>6, QuietStep DEF Herded, instanceVars

-----------------------------------------------------------------------------
(* Planning.                                                               *)

\* Where the frames of two sequences with a frame between them come from.
LEMMA Sandwich ==
  ASSUME NEW G, NEW s1 \in Seq(G), NEW c \in G, NEW s2 \in Seq(G)
  PROVE  LET s == s1 \o << c >> \o s2
         IN  /\ s \in Seq(G) /\ Len(s1) \in Nat /\ DOMAIN s = 1..Len(s)
             /\ Len(s) = Len(s1) + 1 + Len(s2)
             /\ \A k \in DOMAIN s :
                  \/ k \in DOMAIN s1 /\ k < Len(s1) + 1 /\ s[k] = s1[k]
                  \/ k = Len(s1) + 1 /\ s[k] = c
                  \/ k - Len(s1) - 1 \in DOMAIN s2 /\ k > Len(s1) + 1
                     /\ s[k] = s2[k - Len(s1) - 1]
<1> DEFINE s3 == s1 \o << c >>
           s == s3 \o s2
<1>1. /\ << c >> \in Seq(G) /\ Len(<< c >>) = 1 /\ << c >>[1] = c
      /\ Len(s1) \in Nat /\ Len(s2) \in Nat
      /\ DOMAIN s1 = 1..Len(s1) /\ DOMAIN s2 = 1..Len(s2)
  BY SeqClosed
<1>2. /\ s3 \in Seq(G) /\ Len(s3) = Len(s1) + 1
      /\ \A k \in 1..(Len(s1) + 1) :
           s3[k] = IF k <= Len(s1) THEN s1[k] ELSE << c >>[k - Len(s1)]
  BY <1>1, ConcatProperties
<1> HIDE DEF s3
<1>3. /\ s \in Seq(G) /\ Len(s) = Len(s1) + 1 + Len(s2)
      /\ DOMAIN s = 1..Len(s)
      /\ \A k \in 1..(Len(s3) + Len(s2)) :
           s[k] = IF k <= Len(s3) THEN s3[k] ELSE s2[k - Len(s3)]
  <2>1. /\ s \in Seq(G) /\ Len(s) = Len(s3) + Len(s2)
        /\ \A k \in 1..(Len(s3) + Len(s2)) :
             s[k] = IF k <= Len(s3) THEN s3[k] ELSE s2[k - Len(s3)]
    <3>1. PICK r : r = s3 \o s2
      OBVIOUS
    <3>2. /\ r \in Seq(G) /\ Len(r) = Len(s3) + Len(s2)
          /\ \A k \in 1..(Len(s3) + Len(s2)) :
               r[k] = IF k <= Len(s3) THEN s3[k] ELSE s2[k - Len(s3)]
      BY <1>2, <3>1, ConcatProperties
    <3> QED BY <3>1, <3>2
  <2> HIDE DEF s
  <2>2. DOMAIN s = 1..Len(s)
    BY <2>1
  <2> QED BY <1>1, <1>2, <2>1, <2>2
<1> HIDE DEF s
<1>4. ASSUME NEW k \in DOMAIN s
      PROVE  \/ k \in DOMAIN s1 /\ k < Len(s1) + 1 /\ s[k] = s1[k]
             \/ k = Len(s1) + 1 /\ s[k] = c
             \/ k - Len(s1) - 1 \in DOMAIN s2 /\ k > Len(s1) + 1
                /\ s[k] = s2[k - Len(s1) - 1]
  <2>1. k \in 1..(Len(s1) + 1 + Len(s2)) /\ k \in Int
    BY <1>1, <1>3
  <2>2. CASE k <= Len(s1)
    <3>1. s[k] = s3[k] /\ s3[k] = s1[k]
      BY <1>1, <1>2, <1>3, <2>1, <2>2
    <3> QED BY <1>1, <2>1, <2>2, <3>1
  <2>3. CASE k = Len(s1) + 1
    <3>1. s[k] = s3[k] /\ s3[k] = << c >>[1]
      BY <1>1, <1>2, <1>3, <2>1, <2>3
    <3> QED BY <1>1, <2>3, <3>1
  <2>4. CASE k > Len(s1) + 1
    <3>1. s[k] = s2[k - Len(s3)] /\ k - Len(s3) = k - Len(s1) - 1
      BY <1>1, <1>2, <1>3, <2>1, <2>4
    <3>2. k - Len(s1) - 1 \in 1..Len(s2)
      BY <1>1, <2>1, <2>4
    <3> QED BY <1>1, <2>4, <3>1, <3>2
  <2> QED BY <1>1, <2>1, <2>2, <2>3, <2>4
<1> QED BY <1>1, <1>3, <1>4 DEF s, s3

\* What the creation of an instance changes: the same instances exist, and the
\* new one has a herd of its own or that of its parent.
LEMMA NewlyPlanned ==
  ASSUME IndInv, CallsInv, PlanTask, Head(Top.acts).task \in enabled
  PROVE  LET a == Head(Top.acts)
             i == Len(info) + 1
             herdid == HerdOf(Top.id, a)
             herded == herdid \in unfinishedTasks
         IN  /\ stack # <<>> /\ Top.op = "trigger" /\ ~On("forget")
             /\ a \in Action /\ Top.acts \in Seq(Action) /\ Top.acts # <<>>
             /\ Tail(Top.acts) \in Seq(Action)
             /\ i \in Ids /\ i \in Nat /\ i \notin Created
             /\ Top.id \in {0} \cup Created
             /\ herdid \in {0} \cup Created /\ (herded => herdid \in Created)
             /\ herdid # 0 => IsHerder(herdid)
             /\ Created' = Created \cup {i}
             /\ \A j \in Created : info'[j] = info[j]
             /\ info'[i].herdid = IF herdid = 0 THEN i ELSE herdid
             /\ info'[i].task = a.task /\ info'[i].force = a.force
             /\ unfinishedTasks' = unfinishedTasks \cup {i}
             /\ IF herded THEN AppendToHerd(herdid, i)
                ELSE UNCHANGED <<unfinishedHerds, unfinishedHerdedTasks>>
             /\ UNCHANGED <<queue, start, stop, finish, success, stderr, target>>
             /\ Pushes(Trigger(i, Task[a.task].onplan)
                       \o << Call(IF herded THEN "planned" ELSE "enqueue", i) >>
                       \o Trigger(Top.id, Tail(Top.acts)))
             /\ Task[a.task].onplan \in Seq(Action)
<1> DEFINE a == Head(Top.acts)
           i == Len(info) + 1
           herdid == HerdOf(Top.id, a)
           herded == herdid \in unfinishedTasks
<1>1. /\ stack # <<>> /\ Top.op = "trigger" /\ ~On("forget")
      /\ Top.acts # <<>> /\ Top.acts \in Seq(Action)
  BY NumberFacts DEF PlanTask, On, Top
<1>2. a \in Action /\ Tail(Top.acts) \in Seq(Action)
  BY <1>1, HeadTailProperties
<1>3. Task[a.task].onplan \in Seq(Action)
  BY <1>2, StepFacts DEF Action, TaskConfig
<1>4. Top.id \in {0} \cup Created
  BY <1>1, TopType, StepFacts DEF Created
<1>5. herdid \in {0} \cup Created /\ (herded => herdid \in Created)
  BY <1>4, StepFacts DEF HerdOf
<1>6. herdid # 0 => IsHerder(herdid)
  BY <1>4 DEF HerdOf, CallsInv, Herds
<1>7. /\ Len(info) < MaxId
      /\ unfinishedTasks' = unfinishedTasks \cup {i}
      /\ IF herded THEN AppendToHerd(herdid, i)
         ELSE UNCHANGED <<unfinishedHerds, unfinishedHerdedTasks>>
      /\ UNCHANGED <<queue, start, stop, finish, success, stderr, target>>
      /\ Return(Trigger(i, Task[a.task].onplan)
                \o << Call(IF herded THEN "planned" ELSE "enqueue", i) >>
                \o Trigger(Top.id, Tail(Top.acts)))
  BY DEF PlanTask, NewInstance
<1>8. i \in Ids /\ i \in Nat /\ i \notin Created /\ Len(info) \in Nat
  BY <1>7, StepFacts, MaxIdAssumption DEF Ids, Created
<1>9. \E r : /\ info' = Append(info, r)
             /\ r.herdid = IF herdid = 0 THEN i ELSE herdid
             /\ r.task = a.task /\ r.force = a.force
  <2>1. PICK x, y, z :
          info' = Append(info,
            [task |-> a.task, force |-> a.force,
             herdid |-> IF herdid = 0 THEN i ELSE herdid, parentid |-> Top.id,
             queuewhen |-> x, cancelwhen |-> y, watch |-> z])
    BY DEF PlanTask, NewInstance
  <2> HIDE DEF a, herdid, i
  <2> QED BY <2>1
<1>10. /\ Created' = Created \cup {i} /\ \A j \in Created : info'[j] = info[j]
       /\ info'[i].herdid = IF herdid = 0 THEN i ELSE herdid
       /\ info'[i].task = a.task /\ info'[i].force = a.force
  <2>1. PICK r : /\ info' = Append(info, r)
                 /\ r.herdid = IF herdid = 0 THEN i ELSE herdid
                 /\ r.task = a.task /\ r.force = a.force
    BY <1>9
  <2>2. info \in Seq(Info \cup {r}) /\ r \in Info \cup {r}
    <3>1. info \in Seq(Info)
      BY StepFacts DEF TypeOK, InstanceTypeOK
    <3> QED BY <3>1, SeqMonotonic
  <2>3. /\ Len(info') = i /\ info'[i] = r
        /\ \A j \in 1..Len(info) : info'[j] = info[j]
    BY <2>1, <2>2, <1>8, AppendProperties
  <2>4. Created' = Created \cup {i}
    BY <1>8, <2>3 DEF Created
  <2> QED BY <2>1, <2>3, <2>4 DEF Created
<1>11. Pushes(Trigger(i, Task[a.task].onplan)
              \o << Call(IF herded THEN "planned" ELSE "enqueue", i) >>
              \o Trigger(Top.id, Tail(Top.acts)))
  BY <1>1, <1>7, ReturnPushes
<1> QED BY <1>1, <1>2, <1>3, <1>4, <1>5, <1>6, <1>7, <1>8, <1>10, <1>11

\* Planning keeps the invariant: the new herder is fresh.
LEMMA PlanCalls ==
  ASSUME IndInv, CallsInv, PlanTask, Head(Top.acts).task \in enabled
  PROVE  CallsInv'
<1>1. PICK a, i, herdid, parent, acts, onplan, last :
        /\ a = Head(Top.acts) /\ i = Len(info) + 1 /\ herdid = HerdOf(Top.id, a)
        /\ parent = Top.id /\ acts = Tail(Top.acts) /\ onplan = Task[a.task].onplan
        /\ last = Call(IF herdid \in unfinishedTasks THEN "planned"
                       ELSE "enqueue", i)
  OBVIOUS
<1> DEFINE herded == herdid \in unfinishedTasks
           frames == Trigger(i, onplan) \o << last >> \o Trigger(parent, acts)
<1>2. /\ stack # <<>> /\ Top.op = "trigger" /\ ~On("forget")
      /\ acts \in Seq(Action) /\ onplan \in Seq(Action)
      /\ i \in Ids /\ i \in Nat /\ i \notin Created
      /\ parent \in {0} \cup Created
      /\ herdid \in {0} \cup Created /\ (herded => herdid \in Created)
      /\ herdid # 0 => IsHerder(herdid)
      /\ Created' = Created \cup {i}
      /\ \A j \in Created : info'[j] = info[j]
      /\ info'[i].herdid = IF herdid = 0 THEN i ELSE herdid
      /\ unfinishedTasks' = unfinishedTasks \cup {i}
      /\ IF herded THEN AppendToHerd(herdid, i)
         ELSE UNCHANGED <<unfinishedHerds, unfinishedHerdedTasks>>
      /\ UNCHANGED <<queue, start, stop, finish>>
      /\ Pushes(frames)
  BY <1>1, NewlyPlanned
<1> DEFINE G == {f \in KnownFrame' : f.op # "start" /\ Harmless(f)
                                     /\ f.op \notin {"enqueue", "queue"}
                                     /\ Touches(f) = {}} \cup {last}
<1>3. KnownFrame \subseteq KnownFrame'
  BY <1>2 DEF KnownFrame, IsHerder
<1>4. /\ last \in KnownFrame' /\ last.op \in {"planned", "enqueue"}
      /\ last.id = i /\ Touches(last) \subseteq {i} /\ Harmless(last)
  <2>1. last.op \in {"planned", "enqueue"} /\ last.id = i
    BY <1>1 DEF Call, CallMark
  <2>2. last \in KnownFrame
    BY <1>1, <1>2, CallKnown DEF Call, FrameOp, Ends
  <2>3. Touches(last) \subseteq {i}
    BY <2>1 DEF Touches
  <2> QED BY <1>2, <1>3, <2>1, <2>2, <2>3 DEF Harmless
<1>5. Trigger(i, onplan) \in Seq(G) /\ Trigger(parent, acts) \in Seq(G)
  <2>1. ASSUME NEW j \in Nat, NEW s \in Seq(Action)
        PROVE  Trigger(j, s) \in Seq(G)
    <3> DEFINE f == [op |-> "trigger", id |-> j, ids |-> {}, acts |-> s,
                     mark |-> FALSE]
    <3>1. f \in KnownFrame /\ Touches(f) = {}
      BY DEF KnownFrame, CallFrame, FrameOp, Ends, Touches
    <3>2. f \in G
      BY <1>3, <3>1 DEF Harmless
    <3> HIDE DEF G
    <3> QED BY <3>2, SeqClosed DEF Trigger
  <2>2. parent \in Nat
    BY <1>2, NumberFacts
  <2> HIDE DEF G
  <2> QED BY <1>2, <2>1, <2>2
<1>6. /\ last \in G /\ G \subseteq KnownFrame'
      /\ \A f \in G : f.op # "start" /\ Harmless(f)
      /\ \A f \in G : Touches(f) # {} \/ f.op \in {"enqueue", "queue"} => f = last
  BY <1>4
<1> HIDE DEF G
<1>7. /\ frames \in Seq(G)
      /\ \A k \in DOMAIN frames :
           /\ frames[k] \in G
           /\ frames[k].op \in {"enqueue", "queue"} =>
                \A m \in 1..(k - 1) : Touches(frames[m]) = {} \/ frames[m].op = "planned"
  <2> SUFFICES ASSUME TRUE
               PROVE  /\ frames \in Seq(G)
                      /\ \A k \in DOMAIN frames :
                           /\ frames[k] \in G
                           /\ frames[k].op \in {"enqueue", "queue"} =>
                                \A m \in 1..(k - 1) :
                                  Touches(frames[m]) = {}
                                  \/ frames[m].op = "planned"
    OBVIOUS
  <2>1. PICK s1, s2, s : s1 = Trigger(i, onplan) /\ s2 = Trigger(parent, acts)
                         /\ s = frames
    OBVIOUS
  <2>2. /\ s1 \in Seq(G) /\ s2 \in Seq(G) /\ s = s1 \o << last >> \o s2
    BY <1>5, <2>1
  <2>3. /\ s \in Seq(G) /\ Len(s1) \in Nat /\ DOMAIN s = 1..Len(s)
        /\ \A k \in DOMAIN s :
             \/ k \in DOMAIN s1 /\ k < Len(s1) + 1 /\ s[k] = s1[k]
             \/ k = Len(s1) + 1 /\ s[k] = last
             \/ k - Len(s1) - 1 \in DOMAIN s2 /\ k > Len(s1) + 1
                /\ s[k] = s2[k - Len(s1) - 1]
    BY <1>6, <2>2, Sandwich
  <2>4. /\ \A k \in DOMAIN s1 : s1[k].op = "trigger" /\ Touches(s1[k]) = {}
        /\ \A k \in DOMAIN s2 : s2[k].op = "trigger" /\ Touches(s2[k]) = {}
    BY <2>1, Concats DEF Trigger, Touches
  <2>5. \A k \in DOMAIN s : s[k] \in G
    BY <2>3
  <2>6. ASSUME NEW k \in DOMAIN s, s[k].op \in {"enqueue", "queue"},
               NEW m \in 1..(k - 1)
        PROVE  Touches(s[m]) = {}
    <3>1. k = Len(s1) + 1
      BY <2>3, <2>4, <2>6
    <3>2. m \in DOMAIN s /\ m < Len(s1) + 1 /\ m \in Int
      BY <2>3, <3>1
    <3>3. m \in DOMAIN s1 /\ s[m] = s1[m]
      BY <2>3, <3>2
    <3> QED BY <2>4, <3>3
  <2> QED BY <2>1, <2>3, <2>5, <2>6
<1> HIDE DEF frames
<1>8. stack' \in Seq(KnownFrame') /\ StartLast'
  <2>1. frames \in Seq(KnownFrame')
    BY <1>6, <1>7, SeqMonotonic
  <2> QED BY <1>2, <1>3, <1>6, <1>7, <2>1, KnownKept DEF CallsInv
<1>9. Timestamps' /\ Herds'
  <2>1. Timestamps'
    BY <1>2 DEF CallsInv, Timestamps
  <2>2. \A j \in Created' : info'[info'[j].herdid].herdid = info'[j].herdid
    <3>1. \A j \in Created :
            /\ info[j].herdid \in Created
            /\ info[info[j].herdid].herdid = info[j].herdid
      BY StepFacts DEF CallsInv, Herds, IsHerder
    <3> QED BY <1>2, <3>1 DEF IsHerder
  <2>3. ASSUME NEW h \in Ids
        PROVE  /\ unfinishedHerdedTasks'[h] \subseteq unfinishedHerds'[h]
               /\ \A j \in unfinishedHerds'[h] :
                    h \in Created' /\ j \in Created' /\ j # h
                    /\ info'[j].herdid = h
    <3>1. /\ unfinishedHerds \in [Ids -> SUBSET Created]
          /\ unfinishedHerdedTasks \in [Ids -> SUBSET Created]
      BY StepFacts
    <3>2. \/ /\ unfinishedHerds'[h] = unfinishedHerds[h]
             /\ unfinishedHerdedTasks'[h] = unfinishedHerdedTasks[h]
          \/ /\ herded /\ h = herdid
             /\ unfinishedHerds'[h] = unfinishedHerds[h] \cup {i}
             /\ unfinishedHerdedTasks'[h] = unfinishedHerdedTasks[h] \cup {i}
      BY <1>2, <3>1 DEF AppendToHerd
    <3>3. herded => herdid # 0 /\ herdid # i
      BY <1>2, StepFacts
    <3>4. /\ unfinishedHerdedTasks[h] \subseteq unfinishedHerds[h]
          /\ \A j \in unfinishedHerds[h] :
               h \in Created /\ j \in Created /\ j # h /\ info[j].herdid = h
      BY DEF CallsInv, Herds
    <3> QED BY <1>2, <3>2, <3>3, <3>4
  <2> QED BY <2>1, <2>2, <2>3 DEF Herds, IsHerder
<1>10. Fresh'
  <2>1. \A j \in Created : IsHerder(j) /\ Begun(j)' =>
          Begun(j) \/ stack = <<>> \/ j \in Touches(Top)
    BY <1>2 DEF Begun
  <2>2. i \notin queue \cup start \cup stop \cup finish
    BY <1>2 DEF IndInv, TypeOK, InstanceTypeOK
  <2>3. ~Begun(i)'
    BY <1>2, <2>2 DEF Begun
  <2>4. ASSUME NEW k \in DOMAIN frames, frames[k].op \in {"enqueue", "queue"}
        PROVE  /\ IsHerder(frames[k].id)' => ~Begun(frames[k].id)'
               /\ \A m \in 1..(k - 1) : frames[k].id \notin Touches(frames[m])
    <3>1. frames[k] = last /\ frames[k].id = i
      BY <1>4, <1>6, <1>7, <2>4
    <3>2. \A m \in 1..(k - 1) : Touches(frames[m]) = {} \/ frames[m].op = "planned"
      BY <1>7, <2>4
    <3>3. \A m \in 1..(k - 1) : Touches(frames[m]) = {}
      BY <3>2 DEF Touches
    <3> QED BY <2>3, <3>1, <3>3
  <2>5. stack \in Seq(KnownFrame \cup G) /\ frames \in Seq(KnownFrame \cup G)
    BY <1>7, SeqMonotonic DEF CallsInv
  <2>6. \A k \in DOMAIN frames : Harmless(frames[k])
    BY <1>6, <1>7
  <2> QED BY <1>2, <2>1, <2>4, <2>5, <2>6, FreshKept DEF CallsInv
<1>11. Remembered'
  <2>1. \A j : ~Forgets(j)
    BY <1>2 DEF Forgets, On
  <2>2. finish \subseteq Created
    BY DEF IndInv, TypeOK, InstanceTypeOK
  <2>3. \A j \in Created' : j \notin finish' => j \in unfinishedTasks'
    BY <1>2 DEF CallsInv, Remembered
  <2>4. ASSUME NEW h \in finish, IsHerder(h)
        PROVE  h \notin unfinishedTasks' /\ unfinishedHerds'[h] = {}
    <3>1. h \notin unfinishedTasks /\ unfinishedHerds[h] = {} /\ h \in Created
      BY <2>1, <2>2, <2>4 DEF CallsInv, Remembered
    <3>2. h # i /\ (herded => herdid # h)
      BY <1>2, <3>1
    <3>3. unfinishedHerds \in [Ids -> SUBSET Created]
      BY StepFacts
    <3>4. unfinishedHerds'[h] = unfinishedHerds[h]
      BY <1>2, <3>1, <3>2, <3>3, StepFacts DEF AppendToHerd
    <3> QED BY <1>2, <3>1, <3>2, <3>4
  <2>5. \A h \in finish' : IsHerder(h)' => IsHerder(h)
    BY <1>2, <2>2 DEF IsHerder
  <2> QED BY <1>2, <2>3, <2>4, <2>5 DEF Remembered
<1> QED BY <1>8, <1>9, <1>10, <1>11 DEF CallsInv

-----------------------------------------------------------------------------
(* The event loop and the other threads.                                   *)

\* The calls that an event makes.
LEMMA EventPush ==
  ASSUME stack = <<>>, NEW frames \in Seq(PlainFrame), stack' = frames
  PROVE  \E new : QuietPush(new)
<1>1. Rest = <<>>
  BY DEF Rest
<1>2. Pushes(frames)
  BY <1>1, ConcatEmptySeq DEF Pushes
<1> QED BY <1>2, PlainPush

\* A step of another thread that changes no timestamp but that of the end of an
\* execution.
LEMMA OtherThread ==
  ASSUME IndInv, CallsInv, start \subseteq Created,
         UNCHANGED <<info, queue, start, finish, indexVars, stack>>,
         stop \subseteq stop', stop' \subseteq stop \cup start
  PROVE  CallsInv'
<1>1. KnownFrame \subseteq KnownFrame' /\ Created' = Created
  BY DEF KnownFrame, IsHerder, Created
<1>2. stack' \in Seq(KnownFrame')
  BY <1>1, SeqMonotonic DEF CallsInv
<1>3. StartLast' /\ Timestamps' /\ Herds' /\ Remembered'
  BY <1>1 DEF CallsInv, StartLast, Timestamps, Herds, Remembered, IsHerder,
              Forgets, indexVars
<1>4. \A i : Begun(i)' <=> Begun(i)
  BY DEF Begun
<1>5. Fresh'
  BY <1>4 DEF CallsInv, Fresh, IsHerder, Touches, Begun
<1> QED BY <1>2, <1>3, <1>5 DEF CallsInv

\* The end of an execution keeps the invariant.
LEMMA ExecutorStopCalls ==
  ASSUME IndInv, CallsInv, NEW i \in Ids, ExecutorStop(i) PROVE CallsInv'
<1>1. i \in start
  BY DEF ExecutorStop, IndInv, ExecutorKnown
<1>2. start \subseteq Created
  BY DEF IndInv, TypeOK, InstanceTypeOK
<1> QED BY <1>1, <1>2, OtherThread DEF ExecutorStop

\* So do the handlers of posted events.
LEMMA HandleEventCalls ==
  ASSUME IndInv, CallsInv, HandleEvent PROVE CallsInv'
<1>1. CASE HandleQueuedEvent
  <2> DEFINE g == [op |-> "start", id |-> 0, ids |-> unfinishedTasks,
                   acts |-> <<>>, mark |-> FALSE]
  <2>1. stack = <<>> /\ ~On("forget") /\ Rest = <<>>
    BY <1>1 DEF HandleQueuedEvent, Idle, On, Rest
  <2>2. stack' \in {<<>>, << g >>}
    BY <1>1 DEF HandleQueuedEvent, Loop
  <2>3. g \in QuietFrame
    BY <2>1, NumberFacts, LoopKnown DEF FrameOp, Ends, QuietFrame, Harmless
  <2> HIDE DEF g
  <2>4. Pushes(<< g >>) => QuietPush(<< g >>)
    <3>1. PICK f \in QuietFrame : f.op # "start"
      <4>1. [op |-> "reload", id |-> 0, ids |-> {}, acts |-> <<>>,
             mark |-> FALSE] \in QuietFrame
        BY <2>1, LoopKnown DEF FrameOp, Ends, QuietFrame, Harmless
      <4> QED BY <4>1
    <3> QED BY <2>1, <2>3, <3>1, ShortPush
  <2>5. << g >> \o Rest = << g >> /\ <<>> \o Rest = <<>>
    BY <2>1, Concats
  <2>6. \E new : QuietPush(new)
    <3>1. CASE stack' = << g >>
      BY <2>4, <2>5, <3>1 DEF Pushes
    <3>2. CASE stack' = <<>>
      BY <2>1, <3>2, EventPush, SeqClosed
    <3> QED BY <2>2, <3>1, <3>2
  <2> QED BY <1>1, <2>1, <2>6, QuietStep
          DEF HandleQueuedEvent, instanceVars, indexVars
<1>2. CASE HandlePlannedEvent
  <2>1. stack = <<>> /\ ~On("forget")
    BY <1>2 DEF HandlePlannedEvent, Idle, On
  <2>2. Loop("enqueueEach", 0,
             {i \in unfinishedTasks : info[i].herdid \in dirtyHerds})
          \in Seq(PlainFrame)
    BY <2>1, NumberFacts, LoopPlain DEF Loops
  <2>3. \E frames \in Seq(PlainFrame) : stack' = frames
    BY <1>2, <2>1, <2>2, SeqClosed DEF HandlePlannedEvent
  <2>4. \E new : QuietPush(new)
    BY <2>1, <2>3, EventPush
  <2> QED BY <1>2, <2>1, <2>4, QuietStep DEF HandlePlannedEvent, instanceVars
<1>3. ASSUME NEW i \in Ids, HandleTaskInstanceStopped(i) PROVE CallsInv'
  <2>1. stack = <<>> /\ ~On("forget") /\ stack' = << Call("stopped", i) >>
    BY <1>3 DEF HandleTaskInstanceStopped, Idle, On
  <2>2. i \in stop /\ i \in Nat
    BY <1>3 DEF HandleTaskInstanceStopped, IndInv, ExecutorKnown, Ids
  <2>3. Call("stopped", i) \in PlainFrame
    BY <2>1, <2>2, CallPlain DEF Call, FrameOp, Ends
  <2>4. \E new : QuietPush(new)
    BY <2>1, <2>3, EventPush, SeqClosed
  <2> QED BY <1>3, <2>1, <2>4, QuietStep
          DEF HandleTaskInstanceStopped, instanceVars, indexVars
<1> QED BY <1>1, <1>2, <1>3 DEF HandleEvent

\* So do the requests of users, hosts and triggers.
LEMMA EnvironmentCalls ==
  ASSUME IndInv, CallsInv, Environment PROVE CallsInv'
<1>1. CASE \/ \E tasks \in Switches, b \in BOOLEAN : EnableTasks(tasks, b)
           \/ \E h \in Hosts : HostChanged(h)
           \/ Shutdown
  <2>1. start \subseteq Created
    BY DEF IndInv, TypeOK, InstanceTypeOK
  <2> QED BY <1>1, <2>1, OtherThread
          DEF EnableTasks, HostChanged, Shutdown, instanceVars
<1>2. ASSUME stack = <<>>,
             UNCHANGED <<instanceVars, indexVars>>,
             \E frames \in Seq(PlainFrame) : stack' = frames
      PROVE  CallsInv'
  <2>1. ~On("forget")
    BY <1>2 DEF On
  <2>2. \E new : QuietPush(new)
    BY <1>2, EventPush
  <2> QED BY <1>2, <2>1, <2>2, QuietStep DEF instanceVars, indexVars
<1>3. ASSUME NEW a \in Requests, RequestTask(a) PROVE CallsInv'
  <2>1. Trigger(0, << a >>) \in Seq(PlainFrame)
    <3>1. << a >> \in Seq(Action)
      BY ConfigAssumption
    <3> QED BY <3>1, TriggerPlain
  <2> QED BY <1>2, <1>3, <2>1 DEF RequestTask, Idle
<1>4. ASSUME NEW i \in unfinishedTasks,
             CancelTaskInstance(i) \/ AbortTaskInstance(i)
      PROVE  CallsInv'
  <2>1. stack = <<>> /\ i \in Nat
    BY <1>4, NumberFacts
       DEF CancelTaskInstance, AbortTaskInstance, Command, Idle
  <2>2. << Call("cancel", i) >> \in Seq(PlainFrame)
        /\ << Call("abort", i) >> \in Seq(PlainFrame)
    BY <2>1, CallPlain, SeqClosed DEF Call, FrameOp, Ends
  <2> QED BY <1>2, <1>4, <2>1, <2>2
          DEF CancelTaskInstance, AbortTaskInstance, Command
<1>5. ASSUME NEW t \in Tasks, \/ CancelTaskInstancesByTaskId(t)
                              \/ AbortTaskInstanceByTaskId(t)
      PROVE  CallsInv'
  <2>1. stack = <<>>
    BY <1>5 DEF CancelTaskInstancesByTaskId, AbortTaskInstanceByTaskId,
                Command, Idle
  <2>2. ASSUME NEW S \in SUBSET unfinishedTasks
        PROVE  /\ Loop("cancelEach", 0, S) \in Seq(PlainFrame)
               /\ Loop("abortEach", 0, S) \in Seq(PlainFrame)
    BY <2>1, NumberFacts, LoopPlain DEF Loops
  <2>3. \E frames \in Seq(PlainFrame) : stack' = frames
    BY <1>5, <2>2
       DEF CancelTaskInstancesByTaskId, AbortTaskInstanceByTaskId, Command
  <2> QED BY <1>2, <1>5, <2>1, <2>3
          DEF CancelTaskInstancesByTaskId, AbortTaskInstanceByTaskId, Command
<1>6. ASSUME NEW c \in Configs, ActivateConfig(c) PROVE CallsInv'
  <2>1. stack = <<>>
    BY <1>6 DEF ActivateConfig, Idle
  <2>2. Loop("reload", 0, unfinishedTasks) \in Seq(PlainFrame)
    BY <2>1, NumberFacts, LoopPlain DEF Loops
  <2>3. Trigger(0, OnConfigLoad[c]) \in Seq(PlainFrame)
    BY ConfigAssumption, TriggerPlain
  <2>4. \E frames \in Seq(PlainFrame) : stack' = frames
    BY <1>6, <2>2, <2>3, SeqClosed DEF ActivateConfig
  <2> QED BY <1>2, <1>6, <2>1, <2>4 DEF ActivateConfig
<1> QED BY <1>1, <1>3, <1>4, <1>5, <1>6 DEF Environment

-----------------------------------------------------------------------------
(* The invariant on calls.                                                 *)

LEMMA CallsInit == Init => CallsInv
<1> SUFFICES ASSUME Init PROVE CallsInv
  OBVIOUS
<1>1. stack = <<>> /\ Created = {} /\ finish = {} /\ stop = {}
      /\ \A h \in Ids : unfinishedHerds[h] = {} /\ unfinishedHerdedTasks[h] = {}
  BY DEF Init, InstanceInit, Created
<1>2. stack \in Seq(KnownFrame) /\ DOMAIN stack = {}
  BY <1>1, SeqClosed, Concats
<1> QED BY <1>1, <1>2
        DEF CallsInv, StartLast, Timestamps, Herds, Fresh, Remembered

LEMMA CallsNext == ASSUME IndInv, CallsInv, [Next]_vars PROVE CallsInv'
<1>1. CASE UNCHANGED vars
  <2>1. start \subseteq Created
    BY DEF IndInv, TypeOK, InstanceTypeOK
  <2> QED BY <1>1, <2>1, OtherThread DEF vars, instanceVars
<1>2. CASE Step
  BY <1>2, SimpleCalls, CancelCalls, EnqueueCalls, StoppedCalls, EachCalls,
     StartCalls, QueueCalls, FinishCalls, ForgetCalls, HerdedCalls, PlanCalls
     DEF Step
<1> QED BY <1>1, <1>2, HandleEventCalls, ExecutorStopCalls, EnvironmentCalls
        DEF Next

\* No unfinished instance is forgotten, whatever the calls in progress, and a
\* call that ends an instance never finds it running.
THEOREM CallsAreKnown == Spec => []CallsInv
<1>1. Init => CallsInv
  BY CallsInit
<1>2. IndInv /\ CallsInv /\ [Next]_vars => CallsInv'
  BY CallsNext
<1> QED BY <1>1, <1>2, Invariant, PTL DEF Spec

\* What is on the stack.
LEMMA StackFrames ==
  ASSUME IndInv, CallsInv
  PROVE  /\ stack \in Seq(CallFrame)
         /\ \A k \in DOMAIN stack :
              /\ stack[k] \in CallFrame /\ stack[k] \in KnownFrame
              /\ stack[k].op \notin Loops \cup {"trigger"} =>
                   /\ stack[k].id \in Created
                   /\ info[stack[k].id].herdid \in Created
              /\ stack[k].id # 0 => stack[k].id \in Created
<1>1. stack \in Seq(KnownFrame) /\ KnownFrame \subseteq CallFrame
  BY DEF CallsInv, KnownFrame
<1>2. stack \in Seq(CallFrame)
  BY <1>1, SeqMonotonic
<1>3. \A k \in DOMAIN stack : stack[k] \in CallFrame /\ stack[k] \in KnownFrame
  BY <1>1, <1>2
<1>4. \A k \in DOMAIN stack : stack[k].id \in 0..Len(info)
  BY FrameFacts DEF Frame
<1>5. \A k \in DOMAIN stack : stack[k].id # 0 => stack[k].id \in Created
  BY <1>4, StepFacts DEF Created
<1> QED BY <1>2, <1>3, <1>5, FrameFacts, StepFacts

\* What startTaskInstance() would do of an instance only depends on its
\* description, the configuration, the pool and the counts.
LEMMA SameStart ==
  ASSUME UNCHANGED <<enabled, available, config, availableExecutors,
                     runningCount, executionsCount, consumedResources>>,
         NEW i, info'[i] = info[i]
  PROVE  /\ TriedHosts(i)' = TriedHosts(i) /\ ChosenHosts(i)' = ChosenHosts(i)
         /\ Prevented(i)' <=> Prevented(i)
<1>1. TriedHosts(i)' = TriedHosts(i)
  BY DEF TriedHosts, TaskOf, Task
<1>2. ChosenHosts(i)' = ChosenHosts(i)
  BY <1>1 DEF ChosenHosts, Eligible, Enough, TaskOf, Task
<1>3. Prevented(i)' <=> Prevented(i)
  BY DEF Prevented, TooMany, TaskOf, Task
<1> QED BY <1>1, <1>2, <1>3

-----------------------------------------------------------------------------
(* Tasks out of herds.                                                     *)

\* No action of a task plans in the herd of the instance it is an action of.
NoHerds ==
  \A c \in Configs, t \in Tasks :
    /\ LoneActions(TasksOf[c][t].onplan) /\ LoneActions(TasksOf[c][t].onstart)
    /\ LoneActions(TasksOf[c][t].onsuccess)
    /\ LoneActions(TasksOf[c][t].onfailure)
    /\ LoneActions(TasksOf[c][t].onnostderr)

\* Calls that plan in no herd, and that no herd has.
LoneFrame ==
  {f \in CallFrame :
     /\ f.op # "herded"
     /\ f.op = "trigger" => f.id = 0 \/ LoneActions(f.acts)}

\* Of the calls that end an instance that was started, or is to be marked as
\* such, the last made was the first one, and it is the only one that ends it.
EndsOnce ==
  /\ stopped \cap finish = {}
  /\ \A k \in DOMAIN stack : stack[k].op \in Ends =>
       /\ stack[k].id \in start => stack[k].id \notin finish \cup stopped
       /\ stack[k].id \in start \/ stack[k].mark =>
            \A m \in DOMAIN stack : m > k => stack[m].op \notin Ends

LoneInv ==
  /\ stack \in Seq(LoneFrame)
  /\ \A i \in Created : IsHerder(i)
  /\ EndsOnce

\* The frames that end no instance.
IdleFrame == {f \in LoneFrame : f.op \notin Ends}

\* The calls that the scheduler makes.
LEMMA LoneCalls ==
  /\ \A op \in FrameOp \ {"trigger", "herded"}, i \in Nat, mark \in BOOLEAN :
       /\ CallMark(op, i, mark) \in LoneFrame
       /\ op \notin Ends => CallMark(op, i, mark) \in IdleFrame
  /\ \A op \in FrameOp \ ({"trigger", "herded"} \cup Ends), i \in Nat,
        S \in SUBSET Nat : Loop(op, i, S) \in Seq(IdleFrame)
  /\ \A i \in Nat, acts \in Seq(Action) :
       i = 0 \/ LoneActions(acts) => Trigger(i, acts) \in Seq(IdleFrame)
<1>1. <<>> \in Seq(Action) /\ {} \in SUBSET Nat
  BY EmptySeq
<1>2. ASSUME NEW op \in FrameOp \ {"trigger", "herded"}, NEW i \in Nat,
             NEW mark \in BOOLEAN
      PROVE  /\ CallMark(op, i, mark) \in LoneFrame
             /\ op \notin Ends => CallMark(op, i, mark) \in IdleFrame
  BY <1>1 DEF CallMark, LoneFrame, CallFrame, IdleFrame
<1>3. ASSUME NEW op \in FrameOp \ ({"trigger", "herded"} \cup Ends),
             NEW i \in Nat, NEW S \in SUBSET Nat
      PROVE  Loop(op, i, S) \in Seq(IdleFrame)
  <2>1. [op |-> op, id |-> i, ids |-> S, acts |-> <<>>, mark |-> FALSE]
          \in IdleFrame
    BY <1>1 DEF LoneFrame, CallFrame, IdleFrame
  <2> QED BY <2>1, SeqClosed DEF Loop
<1>4. ASSUME NEW i \in Nat, NEW acts \in Seq(Action),
             i = 0 \/ LoneActions(acts)
      PROVE  Trigger(i, acts) \in Seq(IdleFrame)
  <2>1. [op |-> "trigger", id |-> i, ids |-> {}, acts |-> acts,
         mark |-> FALSE] \in IdleFrame
    BY <1>1, <1>4 DEF LoneFrame, CallFrame, FrameOp, IdleFrame, Ends
  <2> QED BY <2>1, SeqClosed DEF Trigger
<1> QED BY <1>2, <1>3, <1>4

\* The calls that are made end no instance, but for one that is not started yet
\* or that no call below ends.
TidyPush(frames) ==
  /\ frames \in Seq(LoneFrame) /\ Pushes(frames)
  /\ \A k \in DOMAIN frames : frames[k].op \in Ends =>
       /\ frames[k].id \in start' => frames[k].id \notin finish' \cup stopped'
       /\ frames[k].id \in start' \/ frames[k].mark =>
            /\ \A m \in DOMAIN frames : m > k => frames[m].op \notin Ends
            /\ \A m \in DOMAIN stack : m > 1 => stack[m].op \notin Ends

\* The calls below the one on top of the stack stay there.
Keeps ==
  \A n \in DOMAIN stack : n > 1 => \E m \in DOMAIN stack' : stack'[m] = stack[n]

\* A step that makes such calls keeps them tidy.
LEMMA TidyKept ==
  ASSUME LoneInv, NEW frames, TidyPush(frames),
         (stopped \cap finish)' = {},
         \A m \in DOMAIN stack :
           m > 1 /\ stack[m].op \in Ends /\ stack[m].id \in start' =>
             /\ stack[m].id \in start
             /\ stack[m].id \notin finish' \cup stopped'
  PROVE  /\ stack' \in Seq(LoneFrame) /\ EndsOnce' /\ Keeps
         /\ \A k \in DOMAIN frames : k \in DOMAIN stack' /\ stack'[k] = frames[k]
<1>1. /\ stack' \in Seq(LoneFrame) /\ Len(stack') = Len(frames) + Len(Rest)
      /\ Len(frames) \in Nat /\ Len(stack) \in Nat
      /\ \A k \in DOMAIN stack' :
           \/ k \in DOMAIN frames /\ stack'[k] = frames[k]
           \/ /\ k - Len(frames) + 1 \in DOMAIN stack
              /\ k - Len(frames) + 1 > 1
              /\ stack'[k] = stack[k - Len(frames) + 1]
      /\ \A k \in DOMAIN frames : k \in DOMAIN stack' /\ stack'[k] = frames[k]
      /\ Keeps
  <2>1. stack \in Seq(LoneFrame) /\ frames \in Seq(LoneFrame) /\ Pushes(frames)
    BY DEF TidyPush, LoneInv
  <2>2. \A n \in DOMAIN stack : n > 1 =>
          /\ n - 1 + Len(frames) \in DOMAIN stack'
          /\ stack'[n - 1 + Len(frames)] = stack[n]
    BY <2>1, Shift
  <2> QED BY <2>1, <2>2, Shift DEF Keeps
<1>2. DOMAIN stack' \subseteq Int /\ DOMAIN frames = 1..Len(frames)
  BY <1>1 DEF TidyPush
<1> SUFFICES ASSUME NEW k \in DOMAIN stack', stack'[k].op \in Ends
             PROVE  /\ stack'[k].id \in start' =>
                         stack'[k].id \notin finish' \cup stopped'
                    /\ stack'[k].id \in start' \/ stack'[k].mark =>
                         \A m \in DOMAIN stack' : m > k => stack'[m].op \notin Ends
  BY <1>1 DEF EndsOnce
<1>3. CASE k \in DOMAIN frames /\ stack'[k] = frames[k]
  BY <1>1, <1>2, <1>3 DEF TidyPush
<1>4. CASE /\ k - Len(frames) + 1 \in DOMAIN stack
           /\ k - Len(frames) + 1 > 1
           /\ stack'[k] = stack[k - Len(frames) + 1]
  <2> DEFINE n == k - Len(frames) + 1
  <2>1. /\ n \in DOMAIN stack /\ n > 1 /\ stack[n].op \in Ends
        /\ stack'[k] = stack[n]
    BY <1>4
  <2>2. /\ stack[n].id \in start' =>
             stack[n].id \notin finish' \cup stopped' /\ stack[n].id \in start
        /\ stack[n].id \in start \/ stack[n].mark =>
             \A m \in DOMAIN stack : m > n => stack[m].op \notin Ends
    BY <2>1 DEF LoneInv, EndsOnce
  <2>3. ASSUME stack[n].id \in start' \/ stack[n].mark,
               NEW m \in DOMAIN stack', m > k
        PROVE  stack'[m].op \notin Ends
    <3>1. m \in Int /\ k \in Int /\ k >= Len(frames) + 1
      BY <1>1, <1>2, <1>4
    <3>2. m \notin DOMAIN frames
      BY <1>1, <1>2, <2>3, <3>1
    <3>3. /\ m - Len(frames) + 1 \in DOMAIN stack
          /\ stack'[m] = stack[m - Len(frames) + 1]
      BY <1>1, <3>2
    <3>4. m - Len(frames) + 1 > n
      BY <1>1, <2>3, <3>1
    <3> QED BY <2>2, <2>3, <3>3, <3>4
  <2> QED BY <2>1, <2>2, <2>3
<1> QED BY <1>1, <1>3, <1>4

\* Calls that end no instance are tidy.
LEMMA IdlePush ==
  ASSUME NEW frames \in Seq(IdleFrame), Pushes(frames)
  PROVE  TidyPush(frames)
<1>1. frames \in Seq(LoneFrame)
  <2>1. IdleFrame \subseteq LoneFrame
    BY DEF IdleFrame
  <2> QED BY <2>1, SeqMonotonic
<1>2. \A k \in DOMAIN frames : frames[k] \in IdleFrame
  OBVIOUS
<1> QED BY <1>1, <1>2 DEF TidyPush, IdleFrame

\* So is one that ends an instance, between others that do not.
LEMMA EndPush ==
  ASSUME NEW s1 \in Seq(IdleFrame), NEW s2 \in Seq(IdleFrame),
         NEW e \in LoneFrame, Pushes(s1 \o << e >> \o s2),
         e.id \in start' => e.id \notin finish' \cup stopped',
         e.id \in start' \/ e.mark =>
           \A m \in DOMAIN stack : m > 1 => stack[m].op \notin Ends
  PROVE  \E frames : TidyPush(frames) /\ \E k \in DOMAIN frames : frames[k] = e
<1>1. IdleFrame \subseteq LoneFrame
  BY DEF IdleFrame
<1>2. s1 \in Seq(LoneFrame) /\ s2 \in Seq(LoneFrame)
  BY <1>1, SeqMonotonic
<1>3. PICK s : s = s1 \o << e >> \o s2
  OBVIOUS
<1>4. /\ s \in Seq(LoneFrame) /\ Len(s1) \in Nat /\ DOMAIN s = 1..Len(s)
      /\ \A k \in DOMAIN s :
           \/ k \in DOMAIN s1 /\ k < Len(s1) + 1 /\ s[k] = s1[k]
           \/ k = Len(s1) + 1 /\ s[k] = e
           \/ k - Len(s1) - 1 \in DOMAIN s2 /\ k > Len(s1) + 1
              /\ s[k] = s2[k - Len(s1) - 1]
  BY <1>2, <1>3, Sandwich
<1>5. /\ \A k \in DOMAIN s1 : s1[k].op \notin Ends
      /\ \A k \in DOMAIN s2 : s2[k].op \notin Ends
  BY DEF IdleFrame
<1>6. \A k \in DOMAIN s : s[k].op \in Ends => k = Len(s1) + 1 /\ s[k] = e
  BY <1>4, <1>5
<1>7. TidyPush(s)
  <2>1. Pushes(s)
    BY <1>3
  <2> SUFFICES ASSUME NEW k \in DOMAIN s, s[k].op \in Ends
               PROVE  \A m \in DOMAIN s : m > k => s[m].op \notin Ends
    BY <1>4, <1>6, <2>1 DEF TidyPush
  <2> QED BY <1>4, <1>6
<1>8. Len(s1) + 1 \in DOMAIN s /\ s[Len(s1) + 1] = e
  <2>1. Len(s) = Len(s1) + 1 + Len(s2) /\ Len(s2) \in Nat
    BY <1>2, <1>3, Sandwich
  <2>2. Len(s1) + 1 \in DOMAIN s /\ Len(s1) + 1 \notin DOMAIN s1
    BY <1>4, <2>1
  <2>3. Len(s1) + 1 - Len(s1) - 1 \notin DOMAIN s2
    BY <1>4, <2>1
  <2> QED BY <1>4, <2>2, <2>3
<1> QED BY <1>7, <1>8

\* The same, when there is nothing before it.
LEMMA EndFirst ==
  ASSUME NEW s2 \in Seq(IdleFrame), NEW e \in LoneFrame, Pushes(<< e >> \o s2),
         e.id \in start' => e.id \notin finish' \cup stopped',
         e.id \in start' \/ e.mark =>
           \A m \in DOMAIN stack : m > 1 => stack[m].op \notin Ends
  PROVE  \E frames : TidyPush(frames) /\ \E k \in DOMAIN frames : frames[k] = e
<1>1. PICK s1 : s1 = <<>>
  OBVIOUS
<1>2. s1 \in Seq(IdleFrame)
  BY <1>1, SeqClosed
<1>3. s1 \o << e >> = << e >>
  BY <1>1, Concats
<1>4. Pushes(s1 \o << e >> \o s2)
  BY <1>3
<1> QED BY <1>2, <1>4, EndPush

\* A step that changes no timestamp, and creates herders only.
LEMMA LoneKept ==
  ASSUME LoneInv, \E frames : TidyPush(frames),
         UNCHANGED <<start, finish>>, stopped' \subseteq stopped,
         \A i \in Created' : IsHerder(i)'
  PROVE  LoneInv' /\ Keeps
<1>1. PICK frames : TidyPush(frames)
  OBVIOUS
<1>2. (stopped \cap finish)' = {}
  BY DEF LoneInv, EndsOnce
<1>3. \A m \in DOMAIN stack :
        m > 1 /\ stack[m].op \in Ends /\ stack[m].id \in start' =>
          /\ stack[m].id \in start
          /\ stack[m].id \notin finish' \cup stopped'
  BY DEF LoneInv, EndsOnce
<1>4. stack' \in Seq(LoneFrame) /\ EndsOnce' /\ Keeps
  BY <1>1, <1>2, <1>3, TidyKept
<1> QED BY <1>4 DEF LoneInv

-----------------------------------------------------------------------------
(* The steps of the scheduler thread, when no task plans in a herd.        *)

\* The actions of every task are lone.
LEMMA LoneTasks ==
  ASSUME IndInv, NoHerds, NEW t \in Tasks
  PROVE  /\ LoneActions(Task[t].onplan) /\ LoneActions(Task[t].onstart)
         /\ LoneActions(Task[t].onsuccess) /\ LoneActions(Task[t].onfailure)
         /\ LoneActions(Task[t].onnostderr)
BY StepFacts DEF NoHerds, Task, TypeOK

\* Actions put one after the other are lone when all of them are.
LEMMA LoneConcat ==
  ASSUME NEW s1 \in Seq(Action), NEW s2 \in Seq(Action),
         LoneActions(s1), LoneActions(s2)
  PROVE  LoneActions(s1 \o s2)
<1>1. PICK s : s = s1 \o s2
  OBVIOUS
<1>2. /\ s \in Seq(Action) /\ Len(s) = Len(s1) + Len(s2)
      /\ Len(s1) \in Nat /\ Len(s2) \in Nat
      /\ \A n \in 1..(Len(s1) + Len(s2)) :
           s[n] = IF n <= Len(s1) THEN s1[n] ELSE s2[n - Len(s1)]
  BY <1>1, ConcatProperties
<1>3. ASSUME NEW n \in DOMAIN s PROVE s[n].lone
  <2>1. n \in 1..(Len(s1) + Len(s2)) /\ n \in Int
    BY <1>2
  <2>2. CASE n <= Len(s1)
    BY <1>2, <2>1, <2>2 DEF LoneActions
  <2>3. CASE n > Len(s1)
    <3>1. n - Len(s1) \in DOMAIN s2
      BY <1>2, <2>1, <2>3
    <3> QED BY <1>2, <2>1, <2>3, <3>1 DEF LoneActions
  <2> QED BY <1>2, <2>1, <2>2, <2>3
<1> QED BY <1>1, <1>3 DEF LoneActions

\* The actions that an instance triggers when it ends.
LEMMA LoneFinish ==
  ASSUME IndInv, NoHerds, NEW i \in Created
  PROVE  Trigger(i, FinishActions(i)) \in Seq(IdleFrame)
<1>1. /\ TaskOf(i) \in TaskConfig /\ info[i].task \in Tasks
      /\ i \in Nat
  BY StepFacts, NumberFacts
<1>2. /\ LoneActions(TaskOf(i).onsuccess) /\ LoneActions(TaskOf(i).onfailure)
      /\ LoneActions(TaskOf(i).onnostderr) /\ LoneActions(<<>>)
  BY <1>1, LoneTasks DEF TaskOf, LoneActions
<1>3. /\ TaskOf(i).onsuccess \in Seq(Action) /\ TaskOf(i).onfailure \in Seq(Action)
      /\ TaskOf(i).onnostderr \in Seq(Action) /\ <<>> \in Seq(Action)
  BY <1>1, EmptySeq DEF TaskConfig
<1>4. FinishActions(i) \in Seq(Action) /\ LoneActions(FinishActions(i))
  <2>1. PICK s1 \in Seq(Action), s2 \in Seq(Action) :
          FinishActions(i) = s1 \o s2 /\ LoneActions(s1) /\ LoneActions(s2)
    BY <1>2, <1>3 DEF FinishActions
  <2> QED BY <2>1, LoneConcat, ConcatProperties
<1> QED BY <1>1, <1>4, LoneCalls

\* The call on top of the stack.
LEMMA TopLone ==
  ASSUME LoneInv, stack # <<>>
  PROVE  /\ Top.op # "herded"
         /\ Top.op = "trigger" => Top.id = 0 \/ LoneActions(Top.acts)
<1>1. Top \in LoneFrame
  BY RestIn DEF LoneInv, Top
<1> QED BY <1>1 DEF LoneFrame

\* The next of the actions that a call plans.
LEMMA LoneTail ==
  ASSUME IndInv, LoneInv, CallsInv, On("trigger")
  PROVE  /\ Head(Top.acts).lone \/ Top.id = 0
         /\ Trigger(Top.id, Tail(Top.acts)) \in Seq(IdleFrame)
<1>1. /\ stack # <<>> /\ Top.op = "trigger" /\ Top.id \in Nat
      /\ Top.acts \in Seq(Action) /\ Top.acts # <<>>
  BY NumberFacts DEF On, Top
<1>2. Top.id = 0 \/ LoneActions(Top.acts)
  BY <1>1, TopLone
<1>3. /\ Tail(Top.acts) \in Seq(Action) /\ 1 \in DOMAIN Top.acts
      /\ Head(Top.acts) = Top.acts[1]
      /\ LoneActions(Top.acts) => LoneActions(Tail(Top.acts))
  <2>1. PICK s : s = Top.acts
    OBVIOUS
  <2>2. /\ s \in Seq(Action) /\ Len(s) \in Nat /\ Len(s) # 0
    BY <1>1, <2>1, EmptySeq
  <2>3. /\ Tail(s) \in Seq(Action) /\ Len(Tail(s)) = Len(s) - 1
        /\ \A n \in 1..Len(Tail(s)) : Tail(s)[n] = s[n + 1]
    BY <1>1, <2>1, <2>2, HeadTailProperties
  <2>4. ASSUME LoneActions(s), NEW n \in DOMAIN Tail(s) PROVE Tail(s)[n].lone
    <3>1. n \in 1..Len(Tail(s)) /\ n + 1 \in DOMAIN s
      BY <2>2, <2>3
    <3> QED BY <2>3, <2>4, <3>1 DEF LoneActions
  <2> QED BY <2>1, <2>2, <2>3, <2>4 DEF LoneActions
<1> QED BY <1>1, <1>2, <1>3, LoneCalls DEF LoneActions

\* doPlanTask() creates herders only.
LEMMA LonePlan ==
  ASSUME IndInv, LoneInv, CallsInv, NoHerds, PlanTask
  PROVE  LoneInv' /\ Keeps
<1>1. /\ Head(Top.acts).lone \/ Top.id = 0
      /\ Trigger(Top.id, Tail(Top.acts)) \in Seq(IdleFrame)
      /\ stack # <<>>
  BY LoneTail DEF PlanTask, On
<1>2. CASE Head(Top.acts).task \notin enabled
  <2>1. /\ Return(Trigger(Top.id, Tail(Top.acts)))
        /\ UNCHANGED <<instanceVars, executionVars>>
    BY <1>2 DEF PlanTask
  <2>2. \E frames : TidyPush(frames)
    BY <1>1, <2>1, ReturnPushes, IdlePush
  <2>3. \A i \in Created' : IsHerder(i)'
    BY <2>1 DEF LoneInv, IsHerder, Created, instanceVars
  <2> QED BY <2>1, <2>2, <2>3, LoneKept DEF instanceVars, executionVars
<1>3. CASE Head(Top.acts).task \in enabled
  <2>1. PICK a, i, last, s2, onplan :
          /\ a = Head(Top.acts) /\ i = Len(info) + 1
          /\ last = Call(IF HerdOf(Top.id, a) \in unfinishedTasks
                         THEN "planned" ELSE "enqueue", i)
          /\ s2 = Trigger(Top.id, Tail(Top.acts)) /\ onplan = Task[a.task].onplan
    OBVIOUS
  <2>2. /\ a \in Action /\ i \in Nat /\ i \notin Created
        /\ Created' = Created \cup {i}
        /\ \A j \in Created : info'[j] = info[j]
        /\ info'[i].herdid = IF HerdOf(Top.id, a) = 0 THEN i
                             ELSE HerdOf(Top.id, a)
        /\ UNCHANGED <<start, finish>>
        /\ Pushes(Trigger(i, onplan) \o << last >> \o s2)
        /\ onplan \in Seq(Action)
    BY <1>3, <2>1, NewlyPlanned
  <2>3. HerdOf(Top.id, a) = 0
    BY <1>1, <2>1 DEF HerdOf
  <2>4. \A j \in Created' : IsHerder(j)'
    BY <2>2, <2>3 DEF LoneInv, IsHerder
  <2>5. Trigger(i, onplan) \in Seq(IdleFrame)
    <3>1. LoneActions(onplan)
      BY <2>1, <2>2, LoneTasks DEF Action
    <3> QED BY <2>2, <3>1, LoneCalls
  <2>6. last \in LoneFrame /\ last.op \notin Ends /\ last.id = i
        /\ last.mark = FALSE
    BY <2>1, <2>2, LoneCalls DEF Call, CallMark, FrameOp, Ends
  <2>7. last \in IdleFrame
    BY <2>6 DEF IdleFrame
  <2>8. PICK s1 : s1 = Trigger(i, onplan)
    OBVIOUS
  <2>9. s1 \o << last >> \o s2 \in Seq(IdleFrame)
    BY <1>1, <2>1, <2>5, <2>7, <2>8, SeqClosed
  <2>10. \E frames : TidyPush(frames)
    BY <2>2, <2>8, <2>9, IdlePush
  <2>11. stopped' = stopped
    BY DEF PlanTask, executionVars
  <2> QED BY <2>2, <2>4, <2>10, <2>11, LoneKept
<1> QED BY <1>2, <1>3

\* A call that ends no instance and returns into others that do not.
LEMMA IdleReturn ==
  ASSUME IndInv, LoneInv, stack # <<>>, NEW frames \in Seq(IdleFrame),
         Return(frames), UNCHANGED <<info, start, finish>>,
         stopped' \subseteq stopped
  PROVE  LoneInv' /\ Keeps
<1>1. \E new : TidyPush(new)
  BY ReturnPushes, IdlePush
<1>2. \A i \in Created' : IsHerder(i)'
  BY DEF LoneInv, IsHerder, Created
<1> QED BY <1>1, <1>2, LoneKept

\* A call that returns into one that ends an instance.
LEMMA EndReturn ==
  ASSUME IndInv, LoneInv, stack # <<>>, NEW s1 \in Seq(IdleFrame),
         NEW e \in LoneFrame, NEW s2 \in Seq(IdleFrame),
         \/ Return(s1 \o << e >> \o s2)
         \/ Return(s1 \o << e >>) /\ s2 = <<>>
         \/ Return(<< e >> \o s2) /\ s1 = <<>>
         \/ Return(<< e >>) /\ s1 = <<>> /\ s2 = <<>>,
         e.id \in start => e.id \notin finish \cup stopped,
         e.id \in start \/ e.mark =>
           \A m \in DOMAIN stack : m > 1 => stack[m].op \notin Ends,
         UNCHANGED <<info, start, finish, stopped>>
  PROVE  LoneInv' /\ Keeps /\ \E k \in DOMAIN stack' : stack'[k] = e
<1>1. Return(s1 \o << e >> \o s2)
  <2>1. <<>> \o << e >> = << e >>
    BY Concats
  <2>2. s1 \o << e >> \in Seq(LoneFrame) /\ << e >> \in Seq(LoneFrame)
    <3>1. IdleFrame \subseteq LoneFrame
      BY DEF IdleFrame
    <3>2. s1 \in Seq(LoneFrame)
      BY <3>1, SeqMonotonic
    <3> QED BY <3>2, SeqClosed
  <2>3. (s1 \o << e >>) \o <<>> = s1 \o << e >> /\ << e >> \o <<>> = << e >>
    BY <2>2, ConcatEmptySeq
  <2> QED BY <2>1, <2>3
<1>2. PICK new : TidyPush(new) /\ \E k \in DOMAIN new : new[k] = e
  BY <1>1, ReturnPushes, EndPush
<1>4. \E k \in DOMAIN stack' : stack'[k] = e
  <2>1. stack \in Seq(LoneFrame) /\ new \in Seq(LoneFrame) /\ Pushes(new)
    BY <1>2 DEF TidyPush, LoneInv
  <2> QED BY <1>2, <2>1, Shift
<1>3. \A i \in Created' : IsHerder(i)'
  BY DEF LoneInv, IsHerder, Created
<1> QED BY <1>2, <1>3, <1>4, LoneKept

\* Returning, canceling, aborting and queuing.
LEMMA LoneSimple ==
  ASSUME IndInv, LoneInv, CallsInv,
         \/ Planned \/ Dropped \/ Aborted \/ LoopEnds \/ Deduplicate
         \/ DoAbortTaskInstance \/ CancelOrAbortEach \/ EnqueueTaskInstance
         \/ Queue \/ Forget
  PROVE  LoneInv' /\ Keeps
<1>1. stack # <<>>
  BY DEF Planned, Dropped, Aborted, LoopEnds, Deduplicate, DoAbortTaskInstance,
         CancelOrAbortEach, EnqueueTaskInstance, Queue, Forget, On
<1>2. /\ UNCHANGED <<info, start, finish, stopped>>
  BY DEF Planned, Dropped, Aborted, LoopEnds, Deduplicate, DoAbortTaskInstance,
         CancelOrAbortEach, EnqueueTaskInstance, Queue, Forget, instanceVars,
         executionVars
<1>3. /\ Top.id \in Nat /\ Top.ids \in SUBSET Nat
      /\ Top.op \notin Loops \cup {"trigger"} => Top.id \in Created
  BY <1>1, NumberFacts
<1>4. CASE Planned \/ Dropped \/ Aborted \/ LoopEnds \/ Queue \/ Forget
  <2>1. Return(<<>>)
    BY <1>4 DEF Planned, Dropped, Aborted, LoopEnds, Queue, Forget
  <2> QED BY <1>1, <1>2, <2>1, SeqClosed, IdleReturn
<1>5. CASE Deduplicate
  <2>1. PICK j \in Top.ids :
          Return(<< Call("cancel", j) >>
                 \o Loop("deduplicate", Top.id, Top.ids \ {j}))
    BY <1>5 DEF Deduplicate
  <2>2. /\ Call("cancel", j) \in IdleFrame
        /\ Loop("deduplicate", Top.id, Top.ids \ {j}) \in Seq(IdleFrame)
    BY <1>3, LoneCalls DEF Call, FrameOp, Ends
  <2>3. \E frames \in Seq(IdleFrame) : Return(frames)
    BY <2>1, <2>2, SeqClosed
  <2> QED BY <1>1, <1>2, <2>3, IdleReturn
<1>6. CASE DoAbortTaskInstance
  <2>1. /\ Call("aborted", Top.id) \in IdleFrame
        /\ Loop("abortHerd", Top.id, HerdedTasks(Top.id)) \in Seq(IdleFrame)
    <3>1. Top.id \in Ids
      BY <1>3, <1>6, StepFacts DEF DoAbortTaskInstance, On, Top, Loops
    <3> QED BY <1>3, <3>1, HerdFacts, LoneCalls DEF Call, FrameOp, Ends
  <2>2. \E frames \in Seq(IdleFrame) : Return(frames)
    BY <1>6, <2>1, SeqClosed DEF DoAbortTaskInstance
  <2> QED BY <1>1, <1>2, <2>2, IdleReturn
<1>7. CASE CancelOrAbortEach
  <2>1. PICK j \in Top.ids :
          LET next == Loop(Top.op, Top.id, Top.ids \ {j})
          IN  \/ Return(<< Call("cancel", j) >> \o next)
              \/ Return(<< Call("abort", j) >> \o next)
              \/ Return(next)
    BY <1>7 DEF CancelOrAbortEach
  <2>2. /\ Call("cancel", j) \in IdleFrame /\ Call("abort", j) \in IdleFrame
        /\ Loop(Top.op, Top.id, Top.ids \ {j}) \in Seq(IdleFrame)
    <3>1. Top.op \in {"cancelEach", "abortEach", "abortHerd"}
      BY <1>7 DEF CancelOrAbortEach
    <3> QED BY <1>3, <3>1, LoneCalls DEF Call, FrameOp, Ends
  <2>3. \E frames \in Seq(IdleFrame) : Return(frames)
    BY <2>1, <2>2, SeqClosed
  <2> QED BY <1>1, <1>2, <2>3, IdleReturn
<1>8. CASE EnqueueTaskInstance
  <2> DEFINE i == Top.id
             victims == IF info[i].force THEN {} ELSE Deduplicated(i)
  <2>1. /\ Call("cancel", i) \in IdleFrame /\ Call("dropped", i) \in IdleFrame
        /\ Call("queue", i) \in IdleFrame
    BY <1>3, LoneCalls DEF Call, FrameOp, Ends
  <2>2. victims \in SUBSET Nat
    <3>1. Duplicates(i) \subseteq Nat
      BY StepFacts, NumberFacts DEF Duplicates
    <3> QED BY <1>3, <3>1 DEF Deduplicated
  <2>3. Loop("deduplicate", i, victims) \in Seq(IdleFrame)
    BY <1>3, <2>2, LoneCalls DEF FrameOp, Ends
  <2>4. \E frames \in Seq(IdleFrame) : Return(frames)
    BY <1>8, <2>1, <2>3, SeqClosed DEF EnqueueTaskInstance
  <2> QED BY <1>1, <1>2, <2>4, IdleReturn
<1> QED BY <1>4, <1>5, <1>6, <1>7, <1>8

\* The loops over planned instances, and over those that have not started.
LEMMA LoneEach ==
  ASSUME IndInv, LoneInv, CallsInv, NEW i \in Created,
         EnqueueOrCancelPlanned(i) \/ ReplaceTaskOrCancel(i)
  PROVE  LoneInv' /\ Keeps
<1>1. stack # <<>> /\ UNCHANGED <<info, start, finish, stopped>>
  BY DEF EnqueueOrCancelPlanned, ReplaceTaskOrCancel, On, instanceVars,
         executionVars
<1>2. i \in Nat /\ Top.ids \in SUBSET Nat
  BY <1>1, NumberFacts
<1>3. ASSUME NEW op \in {"enqueueEach", "reload"}, NEW S \in SUBSET Top.ids
      PROVE  Loop(op, 0, Above(i, S)) \in Seq(IdleFrame)
  <2>1. Above(i, S) \in SUBSET Nat
    BY <1>2 DEF Above
  <2> QED BY <2>1, LoneCalls DEF FrameOp, Ends
<1>4. Call("cancel", i) \in IdleFrame /\ Call("enqueue", i) \in IdleFrame
  BY <1>2, LoneCalls DEF Call, FrameOp, Ends
<1>5. \E frames \in Seq(IdleFrame) : Return(frames)
  BY <1>3, <1>4, SeqClosed DEF EnqueueOrCancelPlanned, ReplaceTaskOrCancel
<1> QED BY <1>1, <1>5, IdleReturn

\* The calls that end an instance.
LEMMA LoneEnds ==
  ASSUME IndInv, LoneInv, CallsInv, NoHerds,
         DoCancelTaskInstance \/ TaskInstanceStoppedOrCanceled \/ Settle
  PROVE  /\ LoneInv' /\ Keeps
         /\ TaskInstanceStoppedOrCanceled \/ Settle =>
              \E k \in DOMAIN stack' : stack'[k].op \in Ends
<1>1. PICK i : i = Top.id
  OBVIOUS
<1>2. /\ stack # <<>> /\ i \in Created /\ i \in Nat /\ i \in Ids
      /\ Top.mark \in BOOLEAN
  BY <1>1, TopFacts, NumberFacts
     DEF DoCancelTaskInstance, TaskInstanceStoppedOrCanceled, Settle, On, Top,
         Loops
<1>3. UNCHANGED <<info, start, finish, stopped>>
  BY DEF DoCancelTaskInstance, TaskInstanceStoppedOrCanceled, Settle,
         instanceVars, executionVars
<1>4. IsHerder(i)
  BY <1>2 DEF LoneInv
<1>5. /\ CallMark("finish", i, Top.mark) \in LoneFrame
      /\ CallMark("settle", i, Top.mark) \in LoneFrame
      /\ Call("stopped", i) \in LoneFrame
  BY <1>2, LoneCalls DEF Call, FrameOp
<1>6. CASE DoCancelTaskInstance
  <2> SUFFICES LoneInv' /\ Keeps
    <3>1. ~TaskInstanceStoppedOrCanceled /\ ~Settle
      BY <1>6 DEF DoCancelTaskInstance, TaskInstanceStoppedOrCanceled, Settle,
                  On, Top
    <3> QED BY <3>1
  <2>1. Loop("cancelEach", i, HerdedTasks(i)) \in Seq(IdleFrame)
    BY <1>2, HerdFacts, LoneCalls DEF FrameOp, Ends
  <2>2. CASE Return(<<>>)
    BY <1>2, <1>3, <2>2, SeqClosed, IdleReturn
  <2>3. CASE /\ Status(i) \in UnstartedStatus
             /\ Return(Loop("cancelEach", i, HerdedTasks(i))
                       \o << Call("stopped", i) >>)
    <3>1. i \notin start
      BY <2>3 DEF UnstartedStatus, Status
    <3>2. PICK e, s1, s2 : /\ e = Call("stopped", i) /\ s2 = <<>>
                           /\ s1 = Loop("cancelEach", i, HerdedTasks(i))
      OBVIOUS
    <3>3. e.id = i /\ e.mark = FALSE /\ e \in LoneFrame
      BY <1>5, <3>2 DEF Call, CallMark
    <3>4. s2 \in Seq(IdleFrame) /\ s1 \in Seq(IdleFrame)
      BY <2>1, <3>2, SeqClosed
    <3>5. Return(s1 \o << e >>)
      BY <2>3, <3>2
    <3> QED BY <1>2, <1>3, <3>1, <3>2, <3>3, <3>4, <3>5, EndReturn
  <2> QED BY <1>1, <1>6, <2>2, <2>3 DEF DoCancelTaskInstance
<1>7. CASE TaskInstanceStoppedOrCanceled \/ Settle
  <2>1. /\ i \in start => i \notin finish \cup stopped
        /\ i \in start \/ Top.mark =>
             \A m \in DOMAIN stack : m > 1 => stack[m].op \notin Ends
    <3>1. Top = stack[1] /\ 1 \in DOMAIN stack /\ Top.op \in Ends
      BY <1>2, <1>7, FrameFacts
         DEF TaskInstanceStoppedOrCanceled, Settle, On, Top, Ends
    <3> QED BY <1>1, <3>1 DEF LoneInv, EndsOnce
  <2>2. \A op : CallMark(op, i, Top.mark).id = i
                /\ CallMark(op, i, Top.mark).mark = Top.mark
    BY DEF CallMark
  <2>3. CASE TaskInstanceStoppedOrCanceled
    <3>1. PICK e, s1, s2 : /\ e = CallMark("settle", i, Top.mark) /\ s2 = <<>>
                           /\ s1 = IF Status(i) = "Canceled" THEN <<>>
                                   ELSE Trigger(i, FinishActions(i))
      OBVIOUS
    <3>2. s1 \in Seq(IdleFrame) /\ s2 \in Seq(IdleFrame)
      BY <1>2, <3>1, LoneFinish, SeqClosed
    <3>3. Return(s1 \o << e >>)
      BY <1>1, <1>4, <2>3, <3>1 DEF TaskInstanceStoppedOrCanceled
    <3>4. LoneInv' /\ Keeps /\ \E k \in DOMAIN stack' : stack'[k] = e
      BY <1>2, <1>3, <1>5, <2>1, <2>2, <3>1, <3>2, <3>3, EndReturn
    <3>5. e.op \in Ends
      BY <3>1 DEF CallMark, Ends
    <3> QED BY <3>4, <3>5
  <2>4. CASE Settle
    <3>1. unfinishedHerdedTasks[i] = {}
      <4>1. \A j \in unfinishedHerds[i] : ~IsHerder(j) /\ j \in Created
        BY <1>2 DEF CallsInv, Herds, IsHerder
      <4>2. unfinishedHerdedTasks[i] \subseteq unfinishedHerds[i]
        BY <1>2 DEF CallsInv, Herds
      <4>3. \A j \in Created : IsHerder(j)
        BY DEF LoneInv
      <4> QED BY <4>1, <4>2, <4>3
    <3>2. PICK e, s : e = CallMark("finish", i, Top.mark) /\ s = <<>>
      OBVIOUS
    <3>3. Return(<< e >>) /\ s \in Seq(IdleFrame)
      BY <1>1, <2>4, <3>1, <3>2, SeqClosed DEF Settle
    <3>4. LoneInv' /\ Keeps /\ \E k \in DOMAIN stack' : stack'[k] = e
      BY <1>2, <1>3, <1>5, <2>1, <2>2, <3>2, <3>3, EndReturn
    <3>5. e.op \in Ends
      BY <3>2 DEF CallMark, Ends
    <3> QED BY <3>4, <3>5
  <2> QED BY <1>7, <2>3, <2>4
<1> QED BY <1>6, <1>7

\* taskInstanceFinishedOrCanceled() finishes an instance that was started once.
LEMMA LoneFinished ==
  ASSUME IndInv, LoneInv, CallsInv, NoHerds, TaskInstanceFinishedOrCanceled
  PROVE  /\ LoneInv' /\ Keeps
         /\ \E k \in DOMAIN stack' : stack'[k].op = "forget"
         /\ Top.id \in start => Top.id \notin finish
<1>1. PICK i : i = Top.id
  OBVIOUS
<1>2. /\ stack # <<>> /\ i \in Created /\ i \in Nat /\ Top.op \in Ends
  BY <1>1, TopFacts DEF TaskInstanceFinishedOrCanceled, On, Top, Loops, Ends
<1>3. /\ finish' = finish \cup {i}
      /\ \/ i \notin start /\ Top.mark /\ start' = start \cup {i}
         \/ start' = start
      /\ UNCHANGED <<info, stopped>>
      /\ \/ Return(<< Call("forget", i) >>)
         \/ Return(<<>> \o << Call("forget", i) >>)
  BY <1>1, <1>2 DEF TaskInstanceFinishedOrCanceled, executionVars, LoneInv
<1>4. /\ i \in start => i \notin finish \cup stopped
      /\ i \in start \/ Top.mark =>
           \A m \in DOMAIN stack : m > 1 => stack[m].op \notin Ends
  <2>1. Top = stack[1] /\ 1 \in DOMAIN stack
    BY <1>2, FrameFacts
  <2> QED BY <1>1, <1>2, <2>1 DEF LoneInv, EndsOnce
<1>5. (stopped \cap finish)' = {}
  <2>1. i \in stopped => i \in start
    BY <1>2, StepFacts DEF IndInv, ExecutorKnown
  <2> QED BY <1>3, <1>4, <2>1 DEF LoneInv, EndsOnce
<1>6. \A m \in DOMAIN stack :
        m > 1 /\ stack[m].op \in Ends /\ stack[m].id \in start' =>
          /\ stack[m].id \in start
          /\ stack[m].id \notin finish' \cup stopped'
  BY <1>3, <1>4 DEF LoneInv, EndsOnce
<1>7. PICK new : TidyPush(new) /\ \E k \in DOMAIN new : new[k].op = "forget"
  <2>1. PICK f : f = Call("forget", i)
    OBVIOUS
  <2>2. f \in IdleFrame /\ f.op = "forget"
    <3>1. f.op = "forget"
      BY <2>1 DEF Call, CallMark
    <3> QED BY <1>2, <2>1, <3>1, LoneCalls DEF Call, FrameOp, Ends
  <2>3. PICK new : new = << f >>
    OBVIOUS
  <2>4. /\ Pushes(new) /\ new \in Seq(IdleFrame)
        /\ \E k \in DOMAIN new : new[k].op = "forget"
    <3>1. <<>> \o << f >> = << f >> /\ DOMAIN << f >> = {1} /\ << f >>[1] = f
      BY Concats
    <3> QED BY <1>2, <1>3, <2>1, <2>2, <2>3, <3>1, SeqClosed, ReturnPushes
  <2> QED BY <2>4, IdlePush
<1>8. /\ stack' \in Seq(LoneFrame) /\ EndsOnce' /\ Keeps
      /\ \E k \in DOMAIN stack' : stack'[k].op = "forget"
  BY <1>5, <1>6, <1>7, TidyKept
<1>9. \A j \in Created' : IsHerder(j)'
  BY <1>3 DEF LoneInv, IsHerder, Created
<1> QED BY <1>1, <1>4, <1>8, <1>9 DEF LoneInv

\* startTaskInstance() starts an instance that no call ends.
LEMMA LoneStart ==
  ASSUME IndInv, LoneInv, CallsInv, NoHerds, NEW i \in Created,
         StartTaskInstance(i)
  PROVE  LoneInv' /\ Keeps
<1> DEFINE rest == Above(i, {j \in Top.ids : Status(j) = "Queued"})
           next == Loop("start", 0, rest)
<1>1. /\ stack # <<>> /\ Rest = <<>> /\ Status(i) = "Queued" /\ i \in Nat
      /\ Top.ids \in SUBSET Nat
  BY StartLoop, TopFacts
<1>2. next \in Seq(IdleFrame)
  <2>1. rest \in SUBSET Nat
    BY <1>1 DEF Above
  <2> QED BY <2>1, LoneCalls DEF FrameOp, Ends
<1>3. \A m \in DOMAIN stack : ~(m > 1)
  <2>1. Len(Rest) = Len(stack) - 1
    BY <1>1, RestIn DEF LoneInv
  <2>2. Len(Rest) = 0
    BY <1>1, EmptySeq
  <2> QED BY <2>1, <2>2, FrameFacts
<1>4. /\ UNCHANGED <<info, finish, stopped>>
      /\ \/ Return(next) /\ UNCHANGED start
         \/ Return(<< CallMark("stopped", i, TRUE) >> \o next) /\ UNCHANGED start
         \/ Return(Trigger(i, TaskOf(i).onstart) \o next)
            /\ start' = start \cup {i}
  BY DEF StartTaskInstance, Launch, executionVars
<1> HIDE DEF next
<1>5. CASE Return(next) /\ UNCHANGED start
  BY <1>1, <1>2, <1>4, <1>5, IdleReturn
<1>6. CASE Return(<< CallMark("stopped", i, TRUE) >> \o next) /\ UNCHANGED start
  <2>1. i \notin start
    BY <1>1 DEF Status
  <2>2. PICK e, s : e = CallMark("stopped", i, TRUE) /\ s = <<>>
    OBVIOUS
  <2>3. e \in LoneFrame /\ e.id = i /\ s \in Seq(IdleFrame)
    <3>1. e.id = i
      BY <2>2 DEF CallMark
    <3> QED BY <1>1, <2>2, <3>1, LoneCalls, SeqClosed DEF FrameOp
  <2>4. Return(<< e >> \o next)
    BY <1>6, <2>2
  <2> QED BY <1>1, <1>2, <1>3, <1>4, <1>6, <2>1, <2>2, <2>3, <2>4, EndReturn
<1>7. CASE Return(Trigger(i, TaskOf(i).onstart) \o next)
           /\ start' = start \cup {i}
  <2>1. Trigger(i, TaskOf(i).onstart) \in Seq(IdleFrame)
    <3>1. /\ TaskOf(i) \in TaskConfig /\ info[i].task \in Tasks
      BY StepFacts
    <3>2. LoneActions(TaskOf(i).onstart)
      BY <3>1, LoneTasks DEF TaskOf
    <3> QED BY <1>1, <3>1, <3>2, LoneCalls DEF TaskConfig
  <2>2. \E frames : TidyPush(frames)
    <3>1. \E frames \in Seq(IdleFrame) : Return(frames)
      BY <1>2, <1>7, <2>1, SeqClosed
    <3> QED BY <1>1, <3>1, ReturnPushes, IdlePush
  <2>3. (stopped \cap finish)' = {}
    BY <1>4 DEF LoneInv, EndsOnce
  <2>4. stack' \in Seq(LoneFrame) /\ EndsOnce' /\ Keeps
    BY <1>3, <2>2, <2>3, TidyKept
  <2>5. \A j \in Created' : IsHerder(j)'
    BY <1>4 DEF LoneInv, IsHerder, Created
  <2> QED BY <2>4, <2>5 DEF LoneInv
<1> QED BY <1>4, <1>5, <1>6, <1>7

-----------------------------------------------------------------------------
(* The event loop and the other threads, when no task plans in a herd.     *)

\* An event makes calls that end no instance.
LEMMA IdleEvent ==
  ASSUME IndInv, LoneInv, stack = <<>>, NEW frames \in Seq(IdleFrame),
         stack' = frames, UNCHANGED <<info, start, finish>>,
         stopped' \subseteq stopped
  PROVE  LoneInv' /\ Keeps
<1>1. Rest = <<>>
  BY DEF Rest
<1>2. Pushes(frames)
  BY <1>1, ConcatEmptySeq DEF Pushes
<1>3. \E new : TidyPush(new)
  BY <1>2, IdlePush
<1>4. \A i \in Created' : IsHerder(i)'
  BY DEF LoneInv, IsHerder, Created
<1> QED BY <1>3, <1>4, LoneKept

LEMMA LoneEvent ==
  ASSUME IndInv, LoneInv, CallsInv, NoHerds, HandleEvent PROVE LoneInv' /\ Keeps
<1>1. CASE HandleQueuedEvent
  <2>1. Loop("start", 0, unfinishedTasks) \in Seq(IdleFrame)
    BY NumberFacts, LoneCalls DEF FrameOp, Ends
  <2>2. \E frames \in Seq(IdleFrame) : stack' = frames
    BY <1>1, <2>1, SeqClosed DEF HandleQueuedEvent
  <2> QED BY <1>1, <2>2, IdleEvent
          DEF HandleQueuedEvent, Idle, instanceVars, executionVars
<1>2. CASE HandlePlannedEvent
  <2>1. Loop("enqueueEach", 0,
             {i \in unfinishedTasks : info[i].herdid \in dirtyHerds})
          \in Seq(IdleFrame)
    BY NumberFacts, LoneCalls DEF FrameOp, Ends
  <2>2. \E frames \in Seq(IdleFrame) : stack' = frames
    BY <1>2, <2>1, SeqClosed DEF HandlePlannedEvent, Idle
  <2> QED BY <1>2, <2>2, IdleEvent
          DEF HandlePlannedEvent, Idle, instanceVars, executionVars
<1>3. ASSUME NEW i \in Ids, HandleTaskInstanceStopped(i) PROVE LoneInv' /\ Keeps
  <2>1. /\ stack = <<>> /\ i \in stopped /\ stopped' = stopped \ {i}
        /\ stack' = << Call("stopped", i) >>
        /\ UNCHANGED <<info, start, finish>>
    BY <1>3 DEF HandleTaskInstanceStopped, Idle, instanceVars
  <2>2. i \in Nat /\ i \notin finish
    BY <2>1 DEF Ids, LoneInv, EndsOnce
  <2>3. PICK e, s : e = Call("stopped", i) /\ s = <<>>
    OBVIOUS
  <2>4. e \in LoneFrame /\ e.id = i /\ s \in Seq(IdleFrame)
    <3>1. e.id = i
      BY <2>3 DEF Call, CallMark
    <3> QED BY <2>2, <2>3, <3>1, LoneCalls, SeqClosed DEF FrameOp, Call
  <2>5. Pushes(<< e >> \o s) /\ Rest = <<>>
    <3>1. Rest = <<>> /\ << e >> \in Seq(LoneFrame)
      BY <2>1, <2>4, SeqClosed DEF Rest
    <3>2. << e >> \o s = << e >> /\ << e >> \o Rest = << e >>
      BY <2>3, <3>1, ConcatEmptySeq
    <3> QED BY <2>1, <2>3, <3>1, <3>2 DEF Pushes
  <2>6. \A m \in DOMAIN stack : ~(m > 1)
    <3>1. Len(stack) = 0
      BY <2>1, EmptySeq
    <3> QED BY <3>1, FrameFacts
  <2>7. \E frames : TidyPush(frames)
    BY <2>1, <2>2, <2>4, <2>5, <2>6, EndFirst
  <2>8. \A j \in Created' : IsHerder(j)'
    BY <2>1 DEF LoneInv, IsHerder, Created
  <2> QED BY <2>1, <2>7, <2>8, LoneKept
<1> QED BY <1>1, <1>2, <1>3 DEF HandleEvent

\* The end of an execution is posted before any call ends the instance.
LEMMA LoneStop ==
  ASSUME IndInv, LoneInv, CallsInv, NEW i \in Ids, ExecutorStop(i)
  PROVE  LoneInv' /\ Keeps
<1>1. /\ i \in start /\ i \notin stop /\ stopped' = stopped \cup {i}
      /\ UNCHANGED <<info, start, finish, stack>>
  BY DEF ExecutorStop, IndInv, ExecutorKnown
<1>2. i \notin finish
  BY <1>1 DEF CallsInv, Timestamps
<1>3. \A k \in DOMAIN stack : stack[k].op \in Ends => stack[k].id # i
  <2>1. \A k \in DOMAIN stack : stack[k] \in KnownFrame
    BY DEF CallsInv
  <2> QED BY <1>1, <2>1 DEF KnownFrame
<1>4. EndsOnce'
  BY <1>1, <1>2, <1>3 DEF LoneInv, EndsOnce
<1> QED BY <1>1, <1>4 DEF LoneInv, IsHerder, Created, Keeps

LEMMA LoneEnvironment ==
  ASSUME IndInv, LoneInv, CallsInv, Environment PROVE LoneInv' /\ Keeps
<1>1. CASE \/ \E tasks \in Switches, b \in BOOLEAN : EnableTasks(tasks, b)
           \/ \E h \in Hosts : HostChanged(h)
           \/ Shutdown
  <2>1. UNCHANGED <<info, start, finish, stopped, stack>>
    BY <1>1 DEF EnableTasks, HostChanged, Shutdown, instanceVars, executionVars
  <2> QED BY <2>1 DEF LoneInv, EndsOnce, IsHerder, Created, Keeps
<1>2. ASSUME stack = <<>>, UNCHANGED <<instanceVars, executionVars>>,
             \E frames \in Seq(IdleFrame) : stack' = frames
      PROVE  LoneInv' /\ Keeps
  BY <1>2, IdleEvent DEF instanceVars, executionVars
<1>3. ASSUME NEW a \in Requests, RequestTask(a) PROVE LoneInv' /\ Keeps
  <2>1. Trigger(0, << a >>) \in Seq(IdleFrame)
    <3>1. << a >> \in Seq(Action)
      BY ConfigAssumption
    <3> QED BY <3>1, LoneCalls
  <2> QED BY <1>2, <1>3, <2>1 DEF RequestTask, Idle
<1>4. ASSUME NEW i \in unfinishedTasks,
             CancelTaskInstance(i) \/ AbortTaskInstance(i)
      PROVE  LoneInv' /\ Keeps
  <2>1. << Call("cancel", i) >> \in Seq(IdleFrame)
        /\ << Call("abort", i) >> \in Seq(IdleFrame)
    <3>1. i \in Nat
      BY NumberFacts
    <3> QED BY <3>1, LoneCalls, SeqClosed DEF Call, FrameOp, Ends
  <2> QED BY <1>2, <1>4, <2>1
          DEF CancelTaskInstance, AbortTaskInstance, Command, Idle
<1>5. ASSUME NEW t \in Tasks, \/ CancelTaskInstancesByTaskId(t)
                              \/ AbortTaskInstanceByTaskId(t)
      PROVE  LoneInv' /\ Keeps
  <2>1. ASSUME NEW S \in SUBSET unfinishedTasks
        PROVE  /\ Loop("cancelEach", 0, S) \in Seq(IdleFrame)
               /\ Loop("abortEach", 0, S) \in Seq(IdleFrame)
    <3>1. S \in SUBSET Nat
      BY NumberFacts
    <3> QED BY <3>1, LoneCalls DEF FrameOp, Ends
  <2>2. \E frames \in Seq(IdleFrame) : stack' = frames
    BY <1>5, <2>1
       DEF CancelTaskInstancesByTaskId, AbortTaskInstanceByTaskId, Command
  <2> QED BY <1>2, <1>5, <2>2
          DEF CancelTaskInstancesByTaskId, AbortTaskInstanceByTaskId, Command,
              Idle
<1>6. ASSUME NEW c \in Configs, ActivateConfig(c) PROVE LoneInv' /\ Keeps
  <2>1. Loop("reload", 0, unfinishedTasks) \in Seq(IdleFrame)
    BY NumberFacts, LoneCalls DEF FrameOp, Ends
  <2>2. Trigger(0, OnConfigLoad[c]) \in Seq(IdleFrame)
    BY ConfigAssumption, LoneCalls
  <2>3. \E frames \in Seq(IdleFrame) : stack' = frames
    BY <1>6, <2>1, <2>2, SeqClosed DEF ActivateConfig
  <2> QED BY <1>2, <1>6, <2>3 DEF ActivateConfig, Idle
<1> QED BY <1>1, <1>3, <1>4, <1>5, <1>6 DEF Environment

LEMMA LoneInit == Init => LoneInv
<1> SUFFICES ASSUME Init PROVE LoneInv
  OBVIOUS
<1>1. stack = <<>> /\ Created = {} /\ finish = {} /\ stopped = {}
  BY DEF Init, InstanceInit, Created
<1>2. stack \in Seq(LoneFrame) /\ DOMAIN stack = {}
  BY <1>1, SeqClosed, Concats
<1> QED BY <1>1, <1>2 DEF LoneInv, EndsOnce

LEMMA LoneNext ==
  ASSUME NoHerds, IndInv, CallsInv, LoneInv, [Next]_vars PROVE LoneInv'
<1>1. CASE UNCHANGED vars
  BY <1>1 DEF vars, instanceVars, executionVars, LoneInv, EndsOnce, IsHerder,
              Created
<1>2. CASE Step
  <2>1. ~Herded
    BY TopLone DEF Herded, On, Top
  <2> QED BY <1>2, <2>1, LonePlan, LoneSimple, LoneEach, LoneEnds, LoneFinished,
             LoneStart DEF Step
<1> QED BY <1>1, <1>2, LoneEvent, LoneStop, LoneEnvironment DEF Next

\* When no task plans in a herd, every instance is its own herder, and finishes
\* at most once after it started.
THEOREM LoneInvariant ==
  ASSUME NoHerds PROVE Spec => []LoneInv
<1>1. Init => LoneInv
  BY LoneInit
<1>2. IndInv /\ CallsInv /\ LoneInv /\ [Next]_vars => LoneInv'
  BY LoneNext
<1> QED BY <1>1, <1>2, Invariant, CallsAreKnown, PTL DEF Spec

-----------------------------------------------------------------------------
(* Running counts, when no task plans in a herd.                           *)

\* Those of the instances of a task that started and are not finished, and that
\* were not forced.
Unforced(t) == {i \in Live(t) : ~info[i].force}

\* The tasks of instances are those of some configuration, only tasks of the
\* active one are enabled, and the count of a task that is the same in every
\* configuration is exact at any time.
CountInv ==
  /\ enabled \subseteq Configured
  /\ \A i \in Created : \E c \in Configs : info[i].task \in TasksIn(c)
  /\ \A t \in Lasting : /\ runningCount[t] = Cardinality(Live(t))
                        /\ Cardinality(Unforced(t)) <= Task[t].maxInstances

\* Sets of instances are finite.
LEMMA LiveFinite ==
  ASSUME IndInv, NEW t
  PROVE  /\ Live(t) \subseteq Created /\ Unforced(t) \subseteq Live(t)
         /\ IsFiniteSet(Live(t)) /\ IsFiniteSet(Unforced(t))
         /\ Cardinality(Live(t)) \in Nat /\ Cardinality(Unforced(t)) \in Nat
<1>1. IsFiniteSet(Created)
  <2>1. Len(info) \in Nat /\ Created \subseteq Nat
    BY StepFacts, NumberFacts
  <2>2. \A i \in Created : i <= Len(info)
    BY <2>1 DEF Created
  <2> QED BY <2>1, <2>2, FS_BoundedSetOfNaturals
<1>2. Live(t) \subseteq Created /\ Unforced(t) \subseteq Live(t)
  BY DEF Live, Unforced
<1>3. IsFiniteSet(Live(t))
  BY <1>1, <1>2, FS_Subset
<1>4. IsFiniteSet(Unforced(t))
  BY <1>2, <1>3, FS_Subset
<1> QED BY <1>2, <1>3, <1>4, FS_CardinalityType

\* A task that lasts is the same in every configuration.
LEMMA LastingTasks ==
  ASSUME IndInv, config' \in Configs
  PROVE  /\ Lasting' = Lasting
         /\ \A t \in Lasting : /\ t \in Tasks /\ Task'[t] = Task[t]
                               /\ t \in Configured' <=> t \in Configured
                               /\ \A c \in Configs :
                                    t \in TasksIn(c) => t \in Configured
<1>1. config \in Configs
  BY StepFacts DEF TypeOK
<1>2. Lasting' = Lasting
  BY <1>1 DEF Lasting, Task
<1> QED BY <1>1, <1>2 DEF Lasting, Task, Configured, TasksIn

\* A step that starts and finishes nothing.
LEMMA CountSame ==
  ASSUME IndInv, CountInv,
         UNCHANGED <<config, runningCount, start, finish>>,
         enabled' \subseteq Configured,
         Created \subseteq Created', \A j \in Created : info'[j] = info[j],
         \A j \in Created' \ Created : \E c \in Configs : info'[j].task \in TasksIn(c)
  PROVE  CountInv'
<1>1. start \subseteq Created
  BY DEF IndInv, TypeOK, InstanceTypeOK
<1>2. \A t : Live(t)' = Live(t)
  BY <1>1 DEF Live
<1>3. \A t : Unforced(t)' = Unforced(t)
  BY <1>2 DEF Unforced, Live
<1>4. Lasting' = Lasting /\ Configured' = Configured /\ Task' = Task
  BY DEF Lasting, Configured, Task
<1>5. \A j \in Created' : \E c \in Configs : info'[j].task \in TasksIn(c)
  <2> TAKE j \in Created'
  <2>1. CASE j \in Created
    BY <2>1 DEF CountInv
  <2>2. CASE j \notin Created
    BY <2>2
  <2> QED BY <2>1, <2>2
<1>6. \A t \in Lasting' :
        /\ runningCount'[t] = Cardinality(Live(t)')
        /\ Cardinality(Unforced(t)') <= Task'[t].maxInstances
  BY <1>2, <1>3, <1>4 DEF CountInv
<1>7. (enabled \subseteq Configured)'
  BY <1>4
<1> QED BY <1>5, <1>6, <1>7 DEF CountInv

\* taskInstanceFinishedOrCanceled() counts down what startTaskInstance() counted
\* up, once.
LEMMA CountFinish ==
  ASSUME IndInv, LoneInv, CallsInv, NoHerds, CountInv,
         TaskInstanceFinishedOrCanceled
  PROVE  CountInv'
<1>1. PICK i, u : i = Top.id /\ u = info[i].task
  OBVIOUS
<1>2. /\ stack # <<>> /\ i \in Created /\ u \in Tasks
      /\ start \subseteq Created /\ finish \subseteq Created
      /\ i \in start => i \notin finish
  BY <1>1, TopFacts, StepFacts, LoneFinished
     DEF TaskInstanceFinishedOrCanceled, On, Top, Loops, IndInv, TypeOK,
         InstanceTypeOK
<1>3. /\ finish' = finish \cup {i}
      /\ UNCHANGED <<info, config, enabled>>
      /\ \/ i \notin start /\ start' \in {start, start \cup {i}}
            /\ UNCHANGED runningCount
         \/ i \in start /\ start' = start
            /\ runningCount' = IF u \in Configured
                               THEN [runningCount EXCEPT ![u] = @ + (-1)]
                               ELSE runningCount
  BY <1>1 DEF TaskInstanceFinishedOrCanceled, AddRunningCount, settingVars,
              countVars
<1>4. /\ Created' = Created /\ Lasting' = Lasting /\ Configured' = Configured
      /\ Task' = Task
  BY <1>3 DEF Created, Lasting, Configured, Task
<1>5. \A t : Live(t)' = Live(t) \ {i} /\ Unforced(t)' = Unforced(t) \ {i}
  <2>1. \A t : Live(t)' = Live(t) \ {i}
    BY <1>2, <1>3, <1>4 DEF Live
  <2> QED BY <1>3, <2>1 DEF Unforced
<1>6. \A t : i \in Live(t) <=> t = u /\ i \in start
  BY <1>1, <1>2 DEF Live
<1>7. \A t : Cardinality(Live(t)') = IF i \in Live(t) THEN Cardinality(Live(t)) - 1
                                     ELSE Cardinality(Live(t))
  BY <1>5, LiveFinite, FS_RemoveElement
<1>8. \A t : Cardinality(Unforced(t)') <= Cardinality(Unforced(t))
  <2> TAKE t
  <2>1. Unforced(t)' \in SUBSET Unforced(t)
    BY <1>5
  <2> QED BY <2>1, LiveFinite, FS_Subset
<1>9. runningCount \in [Tasks -> Int]
  BY DEF IndInv, TypeOK
<1>10. ASSUME NEW t \in Lasting
       PROVE  runningCount'[t] = Cardinality(Live(t)')
  <2>1. /\ runningCount[t] = Cardinality(Live(t)) /\ Cardinality(Live(t)) \in Nat
        /\ t \in Tasks
    BY LiveFinite DEF CountInv, Lasting
  <2>2. t = u => u \in Configured
    <3>1. \E c \in Configs : u \in TasksIn(c)
      BY <1>1, <1>2 DEF CountInv
    <3>2. config' \in Configs
      BY <1>3, StepFacts DEF TypeOK
    <3> QED BY <1>10, <3>1, <3>2, LastingTasks
  <2>3. CASE i \notin start
    BY <1>3, <1>6, <1>7, <2>1, <2>3
  <2>4. CASE i \in start /\ t # u
    BY <1>2, <1>3, <1>6, <1>7, <1>9, <2>1, <2>4
  <2>5. CASE i \in start /\ t = u
    BY <1>2, <1>3, <1>6, <1>7, <1>9, <2>1, <2>2, <2>5
  <2> QED BY <2>3, <2>4, <2>5
<1>11. ASSUME NEW t \in Lasting
       PROVE  Cardinality(Unforced(t)') <= Task[t].maxInstances
  <2>1. /\ Cardinality(Unforced(t)) <= Task[t].maxInstances
        /\ Cardinality(Unforced(t)) \in Nat /\ Task[t].maxInstances \in Nat
    BY LiveFinite, StepFacts DEF CountInv, Lasting, TaskConfig
  <2>2. Cardinality(Unforced(t)') \in Nat
    <3>1. Unforced(t)' \in SUBSET Unforced(t)
      BY <1>5
    <3> QED BY <3>1, LiveFinite, FS_Subset, FS_CardinalityType
  <2> QED BY <1>8, <2>1, <2>2
<1> QED BY <1>3, <1>4, <1>10, <1>11 DEF CountInv

\* startTaskInstance() counts an instance up.
LEMMA CountStart ==
  ASSUME IndInv, CallsInv, CountInv, NEW i \in Created, StartTaskInstance(i)
  PROVE  CountInv'
<1> DEFINE next == Loop("start", 0, Above(i, {j \in Top.ids : Status(j) = "Queued"}))
<1>1. CASE UNCHANGED <<start, countVars>>
  BY <1>1, CountSame
     DEF StartTaskInstance, settingVars, countVars, Created, CountInv
<1>2. ASSUME NEW h, Launch(i, h, next), ~Prevented(i) PROVE CountInv'
  <2>1. PICK u : u = info[i].task
    OBVIOUS
  <2>2. /\ start' = start \cup {i} /\ i \notin start /\ i \notin finish
        /\ UNCHANGED <<info, finish, config, enabled>>
        /\ runningCount' = IF u \in Configured
                           THEN [runningCount EXCEPT ![u] = @ + 1]
                           ELSE runningCount
        /\ u \in Tasks
    BY <1>2, <2>1, StepFacts
       DEF StartTaskInstance, Launch, AddRunningCount, settingVars, Lowest, Status
  <2>3. /\ Created' = Created /\ Lasting' = Lasting /\ Configured' = Configured
        /\ Task' = Task
    BY <2>2 DEF Created, Lasting, Configured, Task
  <2>4. \A t : /\ Live(t)' = IF t = u THEN Live(t) \cup {i} ELSE Live(t)
               /\ i \notin Live(t)
    BY <2>1, <2>2, <2>3 DEF Live
  <2>5. \A t : Unforced(t)' = IF t = u /\ ~info[i].force
                              THEN Unforced(t) \cup {i} ELSE Unforced(t)
    BY <2>2, <2>4 DEF Unforced
  <2>6. runningCount \in [Tasks -> Int]
    BY DEF IndInv, TypeOK
  <2>7. ASSUME NEW t \in Lasting
        PROVE  runningCount'[t] = Cardinality(Live(t)')
    <3>1. /\ runningCount[t] = Cardinality(Live(t)) /\ Cardinality(Live(t)) \in Nat
          /\ t \in Tasks
      BY LiveFinite DEF CountInv, Lasting
    <3>2. t = u => u \in Configured
      <4>1. \E c \in Configs : u \in TasksIn(c)
        BY <2>1 DEF CountInv
      <4>2. config' \in Configs
        BY <2>2, StepFacts DEF TypeOK
      <4> QED BY <2>7, <4>1, <4>2, LastingTasks
    <3>3. Cardinality(Live(t) \cup {i}) = Cardinality(Live(t)) + 1
      BY <2>4, LiveFinite, FS_AddElement
    <3> QED BY <2>2, <2>4, <2>6, <3>1, <3>2, <3>3
  <2>8. ASSUME NEW t \in Lasting
        PROVE  Cardinality(Unforced(t)') <= Task[t].maxInstances
    <3>1. /\ Cardinality(Unforced(t)) <= Task[t].maxInstances
          /\ runningCount[t] = Cardinality(Live(t)) /\ Cardinality(Live(t)) \in Nat
          /\ Cardinality(Unforced(t)) \in Nat /\ Task[t].maxInstances \in Nat
      BY LiveFinite, StepFacts DEF CountInv, Lasting, TaskConfig
    <3>2. CASE t = u /\ ~info[i].force
      <4>1. runningCount[t] < Task[t].maxInstances
        BY <1>2, <2>1, <3>1, <3>2 DEF Prevented, TooMany, TaskOf
      <4>5. Unforced(t)' = Unforced(t) \cup {i}
        BY <2>5, <3>2
      <4>2. Cardinality(Unforced(t)) <= Cardinality(Live(t))
        BY LiveFinite, FS_Subset
      <4>3. i \notin Unforced(t)
        BY <2>4 DEF Unforced
      <4>4. Cardinality(Unforced(t) \cup {i}) = Cardinality(Unforced(t)) + 1
        BY <4>3, LiveFinite, FS_AddElement
      <4>6. Cardinality(Unforced(t)') = Cardinality(Unforced(t)) + 1
        BY <4>4, <4>5
      <4> QED BY <3>1, <4>1, <4>2, <4>6
    <3>3. CASE ~(t = u /\ ~info[i].force)
      <4>1. Unforced(t)' = Unforced(t)
        BY <2>5, <3>3
      <4> QED BY <3>1, <4>1
    <3> QED BY <3>2, <3>3
  <2> QED BY <2>2, <2>3, <2>7, <2>8 DEF CountInv
<1> HIDE DEF next
<1>3. \/ UNCHANGED <<start, countVars>>
      \/ \E h : Launch(i, h, next) /\ ~Prevented(i)
  BY DEF StartTaskInstance, next
<1> QED BY <1>1, <1>2, <1>3

\* A count is copied to the next configuration, if that has the task.
LEMMA CountActivate ==
  ASSUME IndInv, CountInv, NEW c \in Configs, ActivateConfig(c)
  PROVE  CountInv'
<1> DEFINE kept == Configured \cap TasksIn(c)
<1>1. /\ config' = c /\ UNCHANGED <<info, start, finish>>
      /\ enabled' \subseteq TasksIn(c)
      /\ \A t \in kept : runningCount'[t] = runningCount[t]
      /\ \A t \in Tasks : t \notin TasksIn(c) => runningCount'[t] = 0
  BY NewTasksType
     DEF ActivateConfig, CopyLiveAttributes, Attributes, TasksIn, instanceVars
<1>2. \A t : Live(t)' = Live(t) /\ Unforced(t)' = Unforced(t)
  BY <1>1 DEF Live, Unforced, Created
<1>3. /\ Lasting' = Lasting
      /\ \A t \in Lasting : /\ t \in Tasks /\ Task'[t] = Task[t]
                            /\ t \in Configured' <=> t \in Configured
                            /\ \A d \in Configs :
                                 t \in TasksIn(d) => t \in Configured
  BY <1>1, LastingTasks
<1>4. Configured' = TasksIn(c)
  BY <1>1 DEF Configured, TasksIn
<1>5. enabled' \subseteq Configured'
  BY <1>1, <1>4
<1>6. ASSUME NEW t \in Lasting
      PROVE  runningCount'[t] = Cardinality(Live(t)')
  <2>1. runningCount[t] = Cardinality(Live(t))
    BY DEF CountInv
  <2>2. CASE t \in kept
    BY <1>1, <1>2, <1>3, <2>1, <2>2
  <2>3. CASE t \notin kept
    <3>1. t \notin Configured
      BY <1>3, <1>4, <2>3
    <3>2. Live(t) = {}
      <4>1. \A i \in Created : info[i].task # t
        BY <1>3, <3>1 DEF CountInv
      <4> QED BY <4>1 DEF Live
    <3>3. t \in Tasks /\ t \notin TasksIn(c)
      BY <1>3, <1>4, <3>1
    <3> QED BY <1>1, <1>2, <3>2, <3>3, FS_EmptySet
  <2> QED BY <2>2, <2>3
<1>7. ASSUME NEW t \in Lasting
      PROVE  Cardinality(Unforced(t)') <= Task'[t].maxInstances
  BY <1>2, <1>3 DEF CountInv
<1>8. \A i \in Created' : \E d \in Configs : info'[i].task \in TasksIn(d)
  BY <1>1 DEF CountInv, Created
<1> QED BY <1>3, <1>5, <1>6, <1>7, <1>8 DEF CountInv

\* The other steps.
LEMMA CountStep ==
  ASSUME IndInv, LoneInv, CallsInv, NoHerds, CountInv, Step PROVE CountInv'
<1>1. CASE PlanTask
  <2>1. CASE Head(Top.acts).task \notin enabled
    BY <1>1, <2>1, CountSame
       DEF PlanTask, instanceVars, countVars, settingVars, Created, CountInv
  <2>2. CASE Head(Top.acts).task \in enabled
    <3>1. PICK a, i : a = Head(Top.acts) /\ i = Len(info) + 1
      OBVIOUS
    <3>2. /\ Created' = Created \cup {i} /\ info'[i].task = a.task
          /\ \A j \in Created : info'[j] = info[j]
          /\ UNCHANGED <<start, finish>>
      BY <1>1, <2>2, <3>1, NewlyPlanned
    <3>3. a.task \in TasksIn(config) /\ config \in Configs
      BY <2>2, <3>1, StepFacts DEF CountInv, Configured, TypeOK
    <3>4. UNCHANGED <<config, enabled, runningCount>>
      BY <1>1 DEF PlanTask, countVars, settingVars
    <3>5. \A j \in Created' \ Created :
            \E c \in Configs : info'[j].task \in TasksIn(c)
      BY <3>2, <3>3
    <3> QED BY <3>2, <3>4, <3>5, CountSame DEF CountInv
  <2> QED BY <2>1, <2>2
<1>2. CASE TaskInstanceFinishedOrCanceled
  BY <1>2, CountFinish
<1>3. ASSUME NEW i \in Created, StartTaskInstance(i) PROVE CountInv'
  BY <1>3, CountStart
<1>4. CASE UNCHANGED <<info, start, finish, runningCount, config, enabled>>
  BY <1>4, CountSame DEF Created, CountInv
<1> HIDE DEF CountInv
<1>5. CASE \/ Planned \/ EnqueueTaskInstance \/ Deduplicate \/ Dropped \/ Queue
           \/ DoCancelTaskInstance \/ DoAbortTaskInstance \/ Aborted
           \/ CancelOrAbortEach \/ TaskInstanceStoppedOrCanceled \/ Settle
           \/ Forget \/ Herded \/ LoopEnds
           \/ \E i \in Created : EnqueueOrCancelPlanned(i)
           \/ \E i \in Created : ReplaceTaskOrCancel(i)
  <2>1. UNCHANGED <<info, start, finish, runningCount, config, enabled>>
    BY <1>5
       DEF Planned, EnqueueTaskInstance, Deduplicate, Dropped, Queue,
           DoCancelTaskInstance, DoAbortTaskInstance, Aborted,
           CancelOrAbortEach, TaskInstanceStoppedOrCanceled, Settle, Forget,
           Herded, LoopEnds, EnqueueOrCancelPlanned, ReplaceTaskOrCancel,
           instanceVars, countVars, settingVars
  <2> QED BY <1>4, <2>1
<1> QED BY <1>1, <1>2, <1>3, <1>5 DEF Step

\* Events and requests change no count.
LEMMA CountOthers ==
  ASSUME IndInv, CountInv,
         \/ UNCHANGED vars \/ HandleEvent \/ Environment
         \/ \E i \in Ids : ExecutorStop(i)
  PROVE  CountInv'
<1> HIDE DEF CountInv
<1>1. CASE UNCHANGED <<info, start, finish, runningCount, config, enabled>>
  BY <1>1, CountSame DEF Created, CountInv
<1>2. CASE UNCHANGED vars
  BY <1>1, <1>2 DEF vars, instanceVars, countVars, settingVars
<1>3. CASE HandleEvent
  <2>1. UNCHANGED <<instanceVars, countVars, settingVars>>
    BY <1>3 DEF HandleEvent, HandleQueuedEvent, HandlePlannedEvent,
                HandleTaskInstanceStopped
  <2> QED BY <1>1, <2>1 DEF instanceVars, countVars, settingVars
<1>4. CASE \E i \in Ids : ExecutorStop(i)
  BY <1>1, <1>4 DEF ExecutorStop, countVars, settingVars
<1>5. CASE \E tasks \in Switches, b \in BOOLEAN : EnableTasks(tasks, b)
  <2>1. /\ UNCHANGED <<info, start, finish, runningCount, config>>
        /\ enabled' \subseteq enabled \cup Configured
    BY <1>5 DEF EnableTasks, instanceVars, countVars
  <2> QED BY <2>1, CountSame DEF Created, CountInv
<1>6. CASE \E c \in Configs : ActivateConfig(c)
  BY <1>6, CountActivate
<1>7. CASE \/ \E a \in Requests : RequestTask(a)
           \/ \E h \in Hosts : HostChanged(h)
           \/ Shutdown
           \/ \E i \in unfinishedTasks : CancelTaskInstance(i) \/ AbortTaskInstance(i)
           \/ \E t \in Tasks : \/ CancelTaskInstancesByTaskId(t)
                               \/ AbortTaskInstanceByTaskId(t)
  <2>1. UNCHANGED <<info, start, finish, runningCount, config, enabled>>
    BY <1>7
       DEF RequestTask, HostChanged, Shutdown, CancelTaskInstance,
           AbortTaskInstance, CancelTaskInstancesByTaskId,
           AbortTaskInstanceByTaskId, Command, instanceVars, countVars,
           settingVars
  <2> QED BY <1>1, <2>1
<1> QED BY <1>2, <1>3, <1>4, <1>5, <1>6, <1>7 DEF Environment

LEMMA CountInit == Init => CountInv
<1> SUFFICES ASSUME Init PROVE CountInv
  OBVIOUS
<1>1. /\ Created = {} /\ enabled = Configured
      /\ \A t \in Tasks : runningCount[t] = 0
  BY DEF Init, InstanceInit, Created
<1>2. \A t : Live(t) = {} /\ Unforced(t) = {}
  BY <1>1 DEF Live, Unforced
<1>3. \A t \in Tasks : Task[t].maxInstances \in Nat
  BY ConfigAssumption DEF Init, Task, TaskConfig
<1> QED BY <1>1, <1>2, <1>3, FS_EmptySet DEF CountInv, Lasting

\* A task whose definition is the same in every configuration never has more
\* instances running than its maxinstances, and its running count is exact, if
\* no task plans in a herd.
THEOREM CountsKept ==
  ASSUME NoHerds PROVE Spec => [](MaxInstancesRespected /\ RunningCountExact)
<1>1. Init => CountInv
  BY CountInit
<1>2. IndInv /\ CallsInv /\ LoneInv /\ CountInv /\ [Next]_vars => CountInv'
  <2> SUFFICES ASSUME IndInv, CallsInv, LoneInv, CountInv, [Next]_vars
               PROVE  CountInv'
    OBVIOUS
  <2> QED BY CountStep, CountOthers DEF Next
<1>3. CountInv => MaxInstancesRespected /\ RunningCountExact
  BY DEF CountInv, MaxInstancesRespected, RunningCountExact, Unforced
<1> QED BY <1>1, <1>2, <1>3, Invariant, CallsAreKnown, LoneInvariant, PTL
        DEF Spec

-----------------------------------------------------------------------------
(* All limits, when no task plans in a herd.                               *)

\* The resources of a task and the length of its queue are the same in all
\* configurations that have it.
SteadyLimits ==
  \A c, d \in Configs : \A t \in TasksIn(c) \cap TasksIn(d) :
    /\ TasksOf[c][t].resources = TasksOf[d][t].resources
    /\ TasksOf[c][t].maxQueuedInstances = TasksOf[d][t].maxQueuedInstances

\* Actions that force no task which uses resources.
FreeActions(acts) ==
  \A n \in DOMAIN acts : acts[n].force =>
    \A c \in Configs, k \in Kinds : TasksOf[c][acts[n].task].resources[k] = 0

ForcedFree ==
  /\ \A a \in Requests : FreeActions(<< a >>)
  /\ \A c \in Configs :
       /\ FreeActions(OnConfigLoad[c])
       /\ \A t \in Tasks :
            /\ FreeActions(TasksOf[c][t].onplan) /\ FreeActions(TasksOf[c][t].onstart)
            /\ FreeActions(TasksOf[c][t].onsuccess)
            /\ FreeActions(TasksOf[c][t].onfailure)
            /\ FreeActions(TasksOf[c][t].onnostderr)

\* Canceling a duplicate triggers no action.
QuietDuplicates ==
  \A c \in Configs, t \in Tasks : TasksOf[c][t].maxQueuedInstances > 0 =>
    TasksOf[c][t].onfailure = <<>> /\ TasksOf[c][t].onnostderr = <<>>

FreeFrame ==
  {f \in CallFrame : f.op = "trigger" => FreeActions(f.acts)}

\* The instances of a task that are queued, forced ones not counted.
Waits(t) ==
  {i \in queue \ (start \cup stop \cup finish) :
     info[i].task = t /\ ~info[i].force}

\* The calls that queue an instance, once those that cancel its duplicates
\* return, and the instances that these are about.
QueueFrame == {f \in CallFrame : f.op = "queue" /\ ~info[f.id].force}
Cancelers == {"deduplicate", "cancel", "stopped", "settle", "finish", "forget"}
Doomed(f) == IF f.op = "deduplicate" THEN f.ids ELSE {f.id}

\* What will still be queued when the n-th call queues its instance.
Left(n) ==
  {j \in Waits(info[stack[n].id].task) :
     \A m \in 1..(n - 1) : j \notin Doomed(stack[m])}

\* Queuing one more instance does not exceed the limit of its task.
RoomLeft ==
  \A n \in DOMAIN stack : stack[n] \in QueueFrame =>
    LET t == info[stack[n].id].task
    IN  /\ n > 1 => \E c \in Configs : TasksOf[c][t].maxQueuedInstances > 0
        /\ \A m \in 1..(n - 1) :
             /\ stack[m].op \in Cancelers
             /\ stack[m].op = "stopped" => m = 1 /\ stack[m].id \notin start
             /\ \A j \in Doomed(stack[m]) : j \in Created /\ info[j].task = t
        /\ \A c \in Configs : TasksOf[c][t].maxQueuedInstances > 0 =>
             Cardinality(Left(n)) < TasksOf[c][t].maxQueuedInstances

\* What a task needs in the configurations that have it.
Needs(t) == TasksOf[CHOOSE c \in Configs : t \in TasksIn(c)][t].resources

Runs(h) == {i \in start \ finish : target[i] = h /\ ~info[i].force}
Units(h, k) == UNION {{i} \X (1..Needs(info[i].task)[k]) : i \in Runs(h)}

LimitInv ==
  /\ success \subseteq start
  /\ stack \in Seq(FreeFrame)
  /\ \A i \in Created : info[i].force =>
       \A c \in Configs, k \in Kinds : TasksOf[c][info[i].task].resources[k] = 0
  /\ \A c \in Configs, t \in Tasks : TasksOf[c][t].maxQueuedInstances > 0 =>
       Cardinality(Waits(t)) <= TasksOf[c][t].maxQueuedInstances
  /\ RoomLeft
  /\ \A h \in Hosts, k \in Kinds :
       /\ Cardinality(Units(h, k)) <= consumedResources[h][k]
       /\ consumedResources[h][k] <= Capacity[h][k]

\* Calls that queue nothing and force no task which uses resources.
TameFrame == {f \in FreeFrame : f.op # "queue"}

\* The calls that the scheduler makes.
LEMMA TameCalls ==
  /\ \A op \in FrameOp \ {"trigger", "queue"}, i \in Nat, mark \in BOOLEAN :
       CallMark(op, i, mark) \in TameFrame
  /\ \A op \in FrameOp \ {"trigger", "queue"}, i \in Nat, S \in SUBSET Nat :
       Loop(op, i, S) \in Seq(TameFrame)
  /\ \A i \in Nat, acts \in Seq(Action) :
       FreeActions(acts) => Trigger(i, acts) \in Seq(TameFrame)
<1>1. <<>> \in Seq(Action) /\ {} \in SUBSET Nat
  BY EmptySeq
<1>2. ASSUME NEW op \in FrameOp \ {"trigger", "queue"}, NEW i \in Nat,
             NEW mark \in BOOLEAN
      PROVE  CallMark(op, i, mark) \in TameFrame
  BY <1>1 DEF CallMark, TameFrame, FreeFrame, CallFrame
<1>3. ASSUME NEW op \in FrameOp \ {"trigger", "queue"}, NEW i \in Nat,
             NEW S \in SUBSET Nat
      PROVE  Loop(op, i, S) \in Seq(TameFrame)
  <2>1. [op |-> op, id |-> i, ids |-> S, acts |-> <<>>, mark |-> FALSE]
          \in TameFrame
    BY <1>1 DEF TameFrame, FreeFrame, CallFrame
  <2> QED BY <2>1, LoopIn
<1>4. ASSUME NEW i \in Nat, NEW acts \in Seq(Action), FreeActions(acts)
      PROVE  Trigger(i, acts) \in Seq(TameFrame)
  <2>1. [op |-> "trigger", id |-> i, ids |-> {}, acts |-> acts,
         mark |-> FALSE] \in TameFrame
    BY <1>1, <1>4 DEF TameFrame, FreeFrame, CallFrame, FrameOp
  <2> QED BY <2>1, TriggerIn
<1> QED BY <1>2, <1>3, <1>4

\* The actions of every task force none that uses resources.
LEMMA FreeTasks ==
  ASSUME IndInv, ForcedFree, NEW t \in Tasks
  PROVE  /\ FreeActions(Task[t].onplan) /\ FreeActions(Task[t].onstart)
         /\ FreeActions(Task[t].onsuccess) /\ FreeActions(Task[t].onfailure)
         /\ FreeActions(Task[t].onnostderr)
BY StepFacts DEF ForcedFree, Task, TypeOK

\* Nor do actions put one after the other, when neither does.
LEMMA FreeConcat ==
  ASSUME NEW s1 \in Seq(Action), NEW s2 \in Seq(Action),
         FreeActions(s1), FreeActions(s2)
  PROVE  FreeActions(s1 \o s2)
<1>1. PICK s : s = s1 \o s2
  OBVIOUS
<1>2. /\ s \in Seq(Action) /\ Len(s) = Len(s1) + Len(s2)
      /\ Len(s1) \in Nat /\ Len(s2) \in Nat
      /\ \A n \in 1..(Len(s1) + Len(s2)) :
           s[n] = IF n <= Len(s1) THEN s1[n] ELSE s2[n - Len(s1)]
  BY <1>1, ConcatProperties
<1>3. ASSUME NEW n \in DOMAIN s, s[n].force, NEW c \in Configs, NEW k \in Kinds
      PROVE  TasksOf[c][s[n].task].resources[k] = 0
  <2>1. n \in 1..(Len(s1) + Len(s2)) /\ n \in Int
    BY <1>2
  <2>2. CASE n <= Len(s1)
    BY <1>2, <1>3, <2>1, <2>2 DEF FreeActions
  <2>3. CASE n > Len(s1)
    <3>1. n - Len(s1) \in DOMAIN s2
      BY <1>2, <2>1, <2>3
    <3> QED BY <1>2, <1>3, <2>1, <2>3, <3>1 DEF FreeActions
  <2> QED BY <1>2, <2>1, <2>2, <2>3
<1> QED BY <1>1, <1>3 DEF FreeActions

\* The actions that an instance triggers when it ends.
LEMMA FreeFinish ==
  ASSUME IndInv, ForcedFree, NEW i \in Created
  PROVE  Trigger(i, FinishActions(i)) \in Seq(TameFrame)
<1>1. /\ TaskOf(i) \in TaskConfig /\ info[i].task \in Tasks
      /\ i \in Nat
  BY StepFacts, NumberFacts
<1>2. /\ FreeActions(TaskOf(i).onsuccess) /\ FreeActions(TaskOf(i).onfailure)
      /\ FreeActions(TaskOf(i).onnostderr) /\ FreeActions(<<>>)
  <2>1. FreeActions(<<>>)
    BY Concats DEF FreeActions
  <2> QED BY <1>1, <2>1, FreeTasks DEF TaskOf
<1>3. /\ TaskOf(i).onsuccess \in Seq(Action) /\ TaskOf(i).onfailure \in Seq(Action)
      /\ TaskOf(i).onnostderr \in Seq(Action) /\ <<>> \in Seq(Action)
  BY <1>1, EmptySeq DEF TaskConfig
<1>4. FinishActions(i) \in Seq(Action) /\ FreeActions(FinishActions(i))
  <2>1. PICK s1 \in Seq(Action), s2 \in Seq(Action) :
          FinishActions(i) = s1 \o s2 /\ FreeActions(s1) /\ FreeActions(s2)
    BY <1>2, <1>3 DEF FinishActions
  <2> QED BY <2>1, FreeConcat, ConcatProperties
<1> QED BY <1>1, <1>4, TameCalls

\* The next of the actions that a call plans.
LEMMA FreeTail ==
  ASSUME IndInv, LimitInv, On("trigger")
  PROVE  /\ Top.acts \in Seq(Action) /\ Top.acts # <<>>
         /\ Head(Top.acts).force => \A c \in Configs, k \in Kinds :
              TasksOf[c][Head(Top.acts).task].resources[k] = 0
         /\ Trigger(Top.id, Tail(Top.acts)) \in Seq(TameFrame)
<1>1. /\ stack # <<>> /\ Top.op = "trigger" /\ Top.id \in Nat
      /\ Top.acts \in Seq(Action) /\ Top.acts # <<>>
  BY NumberFacts DEF On, Top
<1>2. FreeActions(Top.acts)
  <2>1. Top \in FreeFrame
    BY <1>1, RestIn DEF LimitInv, Top
  <2> QED BY <1>1, <2>1 DEF FreeFrame
<1>3. /\ Tail(Top.acts) \in Seq(Action) /\ 1 \in DOMAIN Top.acts
      /\ Head(Top.acts) = Top.acts[1]
      /\ FreeActions(Tail(Top.acts))
  <2>1. PICK s : s = Top.acts
    OBVIOUS
  <2>2. /\ s \in Seq(Action) /\ Len(s) \in Nat /\ Len(s) # 0
    BY <1>1, <2>1, EmptySeq
  <2>3. /\ Tail(s) \in Seq(Action) /\ Len(Tail(s)) = Len(s) - 1
        /\ \A n \in 1..Len(Tail(s)) : Tail(s)[n] = s[n + 1]
    BY <1>1, <2>1, <2>2, HeadTailProperties
  <2>4. ASSUME NEW n \in DOMAIN Tail(s) PROVE n + 1 \in DOMAIN s /\ Tail(s)[n] = s[n + 1]
    <3>1. n \in 1..Len(Tail(s)) /\ n + 1 \in DOMAIN s
      BY <2>2, <2>3, <2>4
    <3> QED BY <2>3, <3>1
  <2>5. FreeActions(s)
    BY <1>2, <2>1
  <2>6. FreeActions(Tail(s))
    BY <2>4, <2>5 DEF FreeActions
  <2> QED BY <2>1, <2>2, <2>3, <2>6
<1>4. Head(Top.acts).force => \A c \in Configs, k \in Kinds :
              TasksOf[c][Head(Top.acts).task].resources[k] = 0
  BY <1>2, <1>3 DEF FreeActions
<1>5. Trigger(Top.id, Tail(Top.acts)) \in Seq(TameFrame)
  BY <1>1, <1>3, TameCalls
<1> QED BY <1>1, <1>4, <1>5

\* Sets of instances that wait are finite.
LEMMA WaitsFinite ==
  ASSUME IndInv, NEW t
  PROVE  /\ Waits(t) \subseteq Created /\ IsFiniteSet(Waits(t))
         /\ Cardinality(Waits(t)) \in Nat
         /\ \A S \in SUBSET Waits(t) :
              IsFiniteSet(S) /\ Cardinality(S) \in Nat
<1>1. IsFiniteSet(Created)
  <2>1. Len(info) \in Nat /\ Created \subseteq Nat
    BY StepFacts, NumberFacts
  <2>2. \A i \in Created : i <= Len(info)
    BY <2>1 DEF Created
  <2> QED BY <2>1, <2>2, FS_BoundedSetOfNaturals
<1>2. Waits(t) \subseteq Created
  BY DEF Waits, IndInv, TypeOK, InstanceTypeOK
<1>3. \A S \in SUBSET Created : IsFiniteSet(S) /\ Cardinality(S) \in Nat
  BY <1>1, FS_Subset, FS_CardinalityType
<1> QED BY <1>2, <1>3

\* Fewer instances wait than did, if none is queued.
LEMMA WaitsShrink ==
  ASSUME IndInv, Created \subseteq Created', \A j \in Created : info'[j] = info[j],
         queue' = queue, start \subseteq start', stop \subseteq stop',
         finish \subseteq finish'
  PROVE  \A t : Waits(t)' \subseteq Waits(t)
<1>1. queue \subseteq Created
  BY DEF IndInv, TypeOK, InstanceTypeOK
<1> QED BY <1>1 DEF Waits

\* New calls leave room for those that queue an instance, if they are about the
\* instances that the call on top of the stack was about.
LEMMA RoomKept ==
  ASSUME IndInv, CallsInv, RoomLeft,
         NEW frames \in Seq(CallFrame), Pushes(frames),
         Created \subseteq Created', \A j \in Created : info'[j] = info[j],
         \A t : Waits(t)' \subseteq Waits(t),
         \A k \in DOMAIN frames : frames[k].op # "queue",
         \/ stack = <<>> \/ stack[1].op \notin Cancelers
         \/ /\ \A k \in DOMAIN frames :
                 /\ frames[k].op \in Cancelers
                 /\ frames[k].op = "stopped" => k = 1 /\ frames[k].id \notin start'
                 /\ Doomed(frames[k]) \subseteq Doomed(stack[1])
            /\ \A t : \A j \in Doomed(stack[1]) :
                 j \in Waits(t)' => \E k \in DOMAIN frames : j \in Doomed(frames[k])
         \/ \A n \in DOMAIN stack : stack[n] \in QueueFrame => n = 1
  PROVE  RoomLeft'
<1>1. stack \in Seq(CallFrame)
  BY StackFrames
<1>2. /\ Len(frames) \in Nat /\ Len(stack) \in Nat
      /\ DOMAIN stack = 1..Len(stack) /\ DOMAIN frames = 1..Len(frames)
      /\ \A k \in DOMAIN stack' :
           \/ k \in DOMAIN frames /\ stack'[k] = frames[k]
           \/ /\ k - Len(frames) + 1 \in DOMAIN stack
              /\ k - Len(frames) + 1 > 1
              /\ stack'[k] = stack[k - Len(frames) + 1]
      /\ \A k \in DOMAIN frames : k \in DOMAIN stack' /\ stack'[k] = frames[k]
      /\ \A n \in DOMAIN stack : n > 1 =>
           /\ n - 1 + Len(frames) \in DOMAIN stack'
           /\ stack'[n - 1 + Len(frames)] = stack[n]
      /\ stack' \in Seq(CallFrame)
  BY <1>1, Shift
<1> SUFFICES ASSUME NEW n1 \in DOMAIN stack', stack'[n1] \in QueueFrame'
             PROVE  LET t == info'[stack'[n1].id].task
                    IN  /\ n1 > 1 => \E c \in Configs : TasksOf[c][t].maxQueuedInstances > 0
                        /\ \A m \in 1..(n1 - 1) :
                             /\ stack'[m].op \in Cancelers
                             /\ stack'[m].op = "stopped" => m = 1 /\ stack'[m].id \notin start'
                             /\ \A j \in Doomed(stack'[m]) :
                                  j \in Created' /\ info'[j].task = t
                        /\ \A c \in Configs : TasksOf[c][t].maxQueuedInstances > 0 =>
                             Cardinality(Left(n1)') < TasksOf[c][t].maxQueuedInstances
  BY DEF RoomLeft, Doomed
<1>3. PICK n : /\ n \in DOMAIN stack /\ n > 1 /\ n1 = n - 1 + Len(frames)
               /\ stack'[n1] = stack[n]
  <2>1. n1 \notin DOMAIN frames
    BY <1>2 DEF QueueFrame
  <2>2. /\ n1 - Len(frames) + 1 \in DOMAIN stack
        /\ n1 - Len(frames) + 1 > 1
        /\ stack'[n1] = stack[n1 - Len(frames) + 1]
    BY <1>2, <2>1
  <2>3. n1 \in Int
    BY <1>2
  <2> QED BY <1>2, <2>2, <2>3
<1>4. PICK t : /\ t = info[stack[n].id].task /\ t = info'[stack'[n1].id].task
               /\ stack[n] \in QueueFrame
  <2>1. stack[n].op = "queue" /\ stack[n] \in CallFrame
    BY <1>3 DEF QueueFrame
  <2>2. stack[n].id \in Created
    BY <1>3, <2>1, StackFrames DEF Loops
  <2> QED BY <1>3, <2>1, <2>2 DEF QueueFrame
<1>5. /\ \E c \in Configs : TasksOf[c][t].maxQueuedInstances > 0
      /\ \A m \in 1..(n - 1) :
           /\ stack[m].op \in Cancelers
           /\ stack[m].op = "stopped" => m = 1 /\ stack[m].id \notin start
           /\ \A j \in Doomed(stack[m]) : j \in Created /\ info[j].task = t
      /\ \A c \in Configs : TasksOf[c][t].maxQueuedInstances > 0 =>
           Cardinality(Left(n)) < TasksOf[c][t].maxQueuedInstances
  BY <1>3, <1>4 DEF RoomLeft
<1>6. n \in Int /\ 1 \in 1..(n - 1) /\ stack # <<>>
  BY <1>2, <1>3, Concats
<1>7. /\ \A k \in DOMAIN frames :
           /\ frames[k].op \in Cancelers
           /\ frames[k].op = "stopped" => k = 1 /\ frames[k].id \notin start'
           /\ Doomed(frames[k]) \subseteq Doomed(stack[1])
      /\ \A u : \A j \in Doomed(stack[1]) :
           j \in Waits(u)' => \E k \in DOMAIN frames : j \in Doomed(frames[k])
  BY <1>3, <1>4, <1>5, <1>6
<1>8. ASSUME NEW m1 \in 1..(n1 - 1)
      PROVE  /\ stack'[m1].op \in Cancelers
             /\ stack'[m1].op = "stopped" => m1 = 1 /\ stack'[m1].id \notin start'
             /\ \A j \in Doomed(stack'[m1]) : j \in Created' /\ info'[j].task = t
  <2>1. m1 \in DOMAIN stack' /\ m1 \in Int
    BY <1>2, <1>3
  <2>2. CASE m1 \in DOMAIN frames /\ stack'[m1] = frames[m1]
    <3>1. \A j \in Doomed(frames[m1]) : j \in Created /\ info[j].task = t
      BY <1>5, <1>6, <1>7, <2>2
    <3> QED BY <1>7, <2>2, <3>1
  <2>3. ASSUME NEW m, m = m1 - Len(frames) + 1, m \in DOMAIN stack, m > 1,
               stack'[m1] = stack[m]
        PROVE  /\ stack'[m1].op \in Cancelers
               /\ stack'[m1].op # "stopped"
               /\ \A j \in Doomed(stack'[m1]) : j \in Created' /\ info'[j].task = t
    <3>1. m \in 1..(n - 1)
      BY <1>2, <1>3, <1>6, <2>1, <2>3
    <3> QED BY <1>5, <2>3, <3>1
  <2> QED BY <1>2, <2>1, <2>2, <2>3
<1>9. Left(n1)' \subseteq Left(n)
  <2> SUFFICES ASSUME NEW j \in Waits(t)',
                      \A m \in 1..(n1 - 1) : j \notin Doomed(stack'[m])
               PROVE  j \in Waits(t) /\ \A m \in 1..(n - 1) : j \notin Doomed(stack[m])
    BY <1>4 DEF Left, Doomed
  <2>1. j \in Waits(t)
    OBVIOUS
  <2>2. ASSUME NEW m \in 1..(n - 1), m > 1 PROVE j \notin Doomed(stack[m])
    <3>1. PICK m1 : m1 = m - 1 + Len(frames)
      OBVIOUS
    <3>2. m \in DOMAIN stack
      BY <1>2, <1>3, <1>6
    <3>3. stack'[m1] = stack[m]
      BY <1>2, <2>2, <3>1, <3>2
    <3>4. m1 \in 1..(n1 - 1)
      BY <1>2, <1>3, <1>6, <2>2, <3>1
    <3> QED BY <3>3, <3>4
  <2>3. j \notin Doomed(stack[1])
    <3>1. \A k \in DOMAIN frames : k \in 1..(n1 - 1) /\ stack'[k] = frames[k]
      BY <1>2, <1>3, <1>6
    <3> QED BY <1>7, <3>1
  <2> QED BY <1>6, <2>1, <2>2, <2>3
<1>10. ASSUME NEW c \in Configs, TasksOf[c][t].maxQueuedInstances > 0
       PROVE  Cardinality(Left(n1)') < TasksOf[c][t].maxQueuedInstances
  <2>1. Left(n) \subseteq Waits(t)
    BY <1>4 DEF Left
  <2>2. /\ IsFiniteSet(Left(n)) /\ Cardinality(Left(n)) \in Nat
        /\ IsFiniteSet(Left(n1)') /\ Cardinality(Left(n1)') \in Nat
    BY <1>9, <2>1, WaitsFinite
  <2>3. Cardinality(Left(n1)') <= Cardinality(Left(n))
    BY <1>9, <2>2, FS_Subset
  <2>4. TasksOf[c][t].maxQueuedInstances \in Nat
    <3>1. t \in Tasks
      <4>1. stack[n].op = "queue"
        BY <1>4 DEF QueueFrame
      <4>2. stack[n].id \in Created
        BY <1>3, <4>1, StackFrames DEF Loops
      <4> QED BY <1>4, <4>2, StepFacts
    <3> QED BY <3>1, ConfigAssumption DEF TaskConfig
  <2> QED BY <1>5, <1>10, <2>2, <2>3, <2>4
<1> QED BY <1>4, <1>5, <1>8, <1>10

\* The resources of a host that nothing is started on, or given back to.
LEMMA UnitsKept ==
  ASSUME IndInv, LimitInv, UNCHANGED <<start, finish, target, consumedResources>>,
         \A j \in Created : info'[j] = info[j]
  PROVE  \A h \in Hosts, k \in Kinds :
           /\ Cardinality(Units(h, k)') <= consumedResources'[h][k]
           /\ consumedResources'[h][k] <= Capacity[h][k]
<1>1. start \subseteq Created
  BY DEF IndInv, TypeOK, InstanceTypeOK
<1>2. \A h : Runs(h)' = Runs(h)
  BY <1>1 DEF Runs
<1>3. \A h, k : Units(h, k)' = Units(h, k)
  <2> TAKE h, k
  <2>1. \A i \in Runs(h) : info'[i] = info[i]
    BY <1>1 DEF Runs
  <2> QED BY <1>2, <2>1 DEF Units
<1> QED BY <1>3 DEF LimitInv

\* Steps that queue nothing, of which the calls leave room and resources are
\* taken and given back as they must.
LEMMA LimitKept ==
  ASSUME IndInv, CallsInv, LimitInv,
         NEW frames \in Seq(TameFrame), Pushes(frames),
         Created \subseteq Created', \A j \in Created : info'[j] = info[j],
         \A j \in Created' \ Created : info'[j].force =>
           \A c \in Configs, k \in Kinds : TasksOf[c][info'[j].task].resources[k] = 0,
         queue' = queue, start \subseteq start', stop \subseteq stop',
         finish \subseteq finish', success' \subseteq start',
         \/ stack = <<>> \/ stack[1].op \notin Cancelers
         \/ /\ \A k \in DOMAIN frames :
                 /\ frames[k].op \in Cancelers
                 /\ frames[k].op = "stopped" => k = 1 /\ frames[k].id \notin start'
                 /\ Doomed(frames[k]) \subseteq Doomed(stack[1])
            /\ \A t : \A j \in Doomed(stack[1]) :
                 j \in Waits(t)' => \E k \in DOMAIN frames : j \in Doomed(frames[k])
         \/ \A n \in DOMAIN stack : stack[n] \in QueueFrame => n = 1,
         \A h \in Hosts, k \in Kinds :
           /\ Cardinality(Units(h, k)') <= consumedResources'[h][k]
           /\ consumedResources'[h][k] <= Capacity[h][k]
  PROVE  LimitInv'
<1>1. frames \in Seq(FreeFrame) /\ frames \in Seq(CallFrame)
  <2>1. TameFrame \subseteq FreeFrame /\ TameFrame \subseteq CallFrame
    BY DEF TameFrame, FreeFrame
  <2> QED BY <2>1, SeqMonotonic
<1>2. stack' \in Seq(FreeFrame)
  BY <1>1, Shift DEF LimitInv
<1>3. \A k \in DOMAIN frames : frames[k].op # "queue"
  <2>1. \A k \in DOMAIN frames : frames[k] \in TameFrame
    OBVIOUS
  <2> QED BY <2>1 DEF TameFrame
<1>4. \A t : Waits(t)' \subseteq Waits(t)
  BY WaitsShrink
<1>5. RoomLeft'
  BY <1>1, <1>3, <1>4, RoomKept DEF LimitInv
<1>6. ASSUME NEW c \in Configs, NEW t \in Tasks, TasksOf[c][t].maxQueuedInstances > 0
      PROVE  Cardinality(Waits(t)') <= TasksOf[c][t].maxQueuedInstances
  <2>1. Cardinality(Waits(t)) <= TasksOf[c][t].maxQueuedInstances
    BY <1>6 DEF LimitInv
  <2>2. /\ IsFiniteSet(Waits(t)) /\ Cardinality(Waits(t)) \in Nat
        /\ Cardinality(Waits(t)') \in Nat
    BY <1>4, WaitsFinite
  <2>3. Cardinality(Waits(t)') <= Cardinality(Waits(t))
    BY <1>4, <2>2, FS_Subset
  <2>4. TasksOf[c][t].maxQueuedInstances \in Nat
    BY ConfigAssumption DEF TaskConfig
  <2> QED BY <2>1, <2>2, <2>3, <2>4
<1>7. ASSUME NEW j \in Created', info'[j].force, NEW c \in Configs, NEW k \in Kinds
      PROVE  TasksOf[c][info'[j].task].resources[k] = 0
  BY <1>7 DEF LimitInv
<1> QED BY <1>2, <1>5, <1>6, <1>7 DEF LimitInv

\* Steps that only make calls, or change the indexes.
LEMMA TameStep ==
  ASSUME IndInv, CallsInv, LimitInv,
         \E frames \in Seq(TameFrame) : Pushes(frames),
         UNCHANGED <<info, queue, start, finish, success, target, consumedResources>>,
         stop \subseteq stop',
         stack = <<>> \/ stack[1].op \notin Cancelers
  PROVE  LimitInv'
<1>1. Created' = Created
  BY DEF Created
<1>2. success' \subseteq start'
  BY DEF LimitInv
<1> QED BY <1>1, <1>2, UnitsKept, LimitKept

\* The same, for a call that returns into others.
LEMMA TameReturn ==
  ASSUME IndInv, CallsInv, LimitInv, stack # <<>>, Top.op \notin Cancelers,
         \E frames \in Seq(TameFrame) : Return(frames),
         UNCHANGED <<info, queue, start, finish, success, target, consumedResources>>,
         stop \subseteq stop'
  PROVE  LimitInv'
<1>1. Top = stack[1]
  BY FrameFacts
<1>2. \E frames \in Seq(TameFrame) : Pushes(frames)
  BY ReturnPushes
<1> QED BY <1>1, <1>2, TameStep

\* Returning, aborting, and the loops on planned and unstarted instances.
LEMMA LimitSimple ==
  ASSUME IndInv, CallsInv, LimitInv,
         \/ Planned \/ Dropped \/ Aborted \/ LoopEnds
         \/ DoAbortTaskInstance \/ CancelOrAbortEach
         \/ \E i \in Created : EnqueueOrCancelPlanned(i) \/ ReplaceTaskOrCancel(i)
  PROVE  LimitInv'
<1>1. stack # <<>> /\ Top.op \notin Cancelers
  <2>1. /\ ~On("deduplicate") /\ ~On("cancel") /\ ~On("stopped")
        /\ ~On("settle") /\ ~On("finish") /\ ~On("forget") /\ stack # <<>>
    BY DEF Planned, Dropped, Aborted, LoopEnds, DoAbortTaskInstance,
           CancelOrAbortEach, EnqueueOrCancelPlanned, ReplaceTaskOrCancel, On, Top,
           Loops
  <2> QED BY <2>1 DEF On, Top, Cancelers
<1>2. /\ UNCHANGED <<info, queue, start, finish, success, target, consumedResources>>
      /\ stop \subseteq stop'
  BY DEF Planned, Dropped, Aborted, LoopEnds, DoAbortTaskInstance,
         CancelOrAbortEach, EnqueueOrCancelPlanned, ReplaceTaskOrCancel,
         instanceVars, countVars
<1>3. /\ Top.id \in Nat /\ Top.ids \in SUBSET Nat
      /\ Top.op \notin Loops \cup {"trigger"} => Top.id \in Created
  BY <1>1, NumberFacts
<1>4. CASE Planned \/ Dropped \/ Aborted \/ LoopEnds
  <2>1. Return(<<>>)
    BY <1>4 DEF Planned, Dropped, Aborted, LoopEnds
  <2> QED BY <1>1, <1>2, <2>1, SeqClosed, TameReturn
<1>5. CASE DoAbortTaskInstance
  <2>1. /\ Call("aborted", Top.id) \in TameFrame
        /\ Loop("abortHerd", Top.id, HerdedTasks(Top.id)) \in Seq(TameFrame)
    <3>1. Top.id \in Ids
      BY <1>3, <1>5, StepFacts DEF DoAbortTaskInstance, On, Top, Loops
    <3> QED BY <1>3, <3>1, HerdFacts, TameCalls DEF Call, FrameOp
  <2>2. \E frames \in Seq(TameFrame) : Return(frames)
    BY <1>5, <2>1, SeqClosed DEF DoAbortTaskInstance
  <2> QED BY <1>1, <1>2, <2>2, TameReturn
<1>6. CASE CancelOrAbortEach
  <2>1. PICK j \in Top.ids :
          LET next == Loop(Top.op, Top.id, Top.ids \ {j})
          IN  \/ Return(<< Call("cancel", j) >> \o next)
              \/ Return(<< Call("abort", j) >> \o next)
              \/ Return(next)
    BY <1>6 DEF CancelOrAbortEach
  <2>2. /\ Call("cancel", j) \in TameFrame /\ Call("abort", j) \in TameFrame
        /\ Loop(Top.op, Top.id, Top.ids \ {j}) \in Seq(TameFrame)
    <3>1. Top.op \in {"cancelEach", "abortEach", "abortHerd"}
      BY <1>6 DEF CancelOrAbortEach
    <3> QED BY <1>3, <3>1, TameCalls DEF Call, FrameOp
  <2>3. \E frames \in Seq(TameFrame) : Return(frames)
    BY <2>1, <2>2, SeqClosed
  <2> QED BY <1>1, <1>2, <2>3, TameReturn
<1>7. ASSUME NEW i \in Created, EnqueueOrCancelPlanned(i) \/ ReplaceTaskOrCancel(i)
      PROVE  LimitInv'
  <2>1. i \in Nat
    BY NumberFacts
  <2>2. ASSUME NEW op \in {"enqueueEach", "reload"}, NEW S \in SUBSET Top.ids
        PROVE  Loop(op, 0, Above(i, S)) \in Seq(TameFrame)
    <3>1. Above(i, S) \in SUBSET Nat
      BY <1>3 DEF Above
    <3> QED BY <3>1, TameCalls DEF FrameOp
  <2>3. Call("cancel", i) \in TameFrame /\ Call("enqueue", i) \in TameFrame
    BY <2>1, TameCalls DEF Call, FrameOp
  <2>4. \E frames \in Seq(TameFrame) : Return(frames)
    BY <1>7, <2>2, <2>3, SeqClosed DEF EnqueueOrCancelPlanned, ReplaceTaskOrCancel
  <2> QED BY <1>1, <1>2, <2>4, TameReturn
<1> QED BY <1>4, <1>5, <1>6, <1>7

\* Planning an instance, which no forced action does of a task that uses resources.
LEMMA LimitPlan ==
  ASSUME IndInv, CallsInv, LimitInv, ForcedFree, PlanTask
  PROVE  LimitInv'
<1>1. /\ stack # <<>> /\ Top.op = "trigger" /\ Top.op \notin Cancelers
      /\ Top = stack[1]
  BY FrameFacts DEF PlanTask, On, Top, Cancelers
<1>2. /\ Head(Top.acts).force => \A c \in Configs, k \in Kinds :
              TasksOf[c][Head(Top.acts).task].resources[k] = 0
      /\ Trigger(Top.id, Tail(Top.acts)) \in Seq(TameFrame)
  BY FreeTail DEF PlanTask
<1>3. CASE Head(Top.acts).task \notin enabled
  <2>1. /\ Return(Trigger(Top.id, Tail(Top.acts)))
        /\ UNCHANGED <<instanceVars, countVars>>
    BY <1>3 DEF PlanTask
  <2> QED BY <1>1, <1>2, <2>1, TameReturn DEF instanceVars, countVars
<1>4. CASE Head(Top.acts).task \in enabled
  <2>1. PICK a, i, last, s2, onplan :
          /\ a = Head(Top.acts) /\ i = Len(info) + 1
          /\ last = Call(IF HerdOf(Top.id, a) \in unfinishedTasks
                         THEN "planned" ELSE "enqueue", i)
          /\ s2 = Trigger(Top.id, Tail(Top.acts)) /\ onplan = Task[a.task].onplan
    OBVIOUS
  <2>2. /\ a \in Action /\ i \in Nat /\ i \notin Created
        /\ Created' = Created \cup {i}
        /\ \A j \in Created : info'[j] = info[j]
        /\ info'[i].task = a.task /\ info'[i].force = a.force
        /\ UNCHANGED <<queue, start, stop, finish, success, target>>
        /\ Pushes(Trigger(i, onplan) \o << last >> \o s2)
        /\ onplan \in Seq(Action)
    BY <1>4, <2>1, NewlyPlanned
  <2>3. Trigger(i, onplan) \in Seq(TameFrame)
    <3>1. FreeActions(onplan)
      BY <2>1, <2>2, FreeTasks DEF Action
    <3> QED BY <2>2, <3>1, TameCalls
  <2>4. last \in TameFrame
    BY <2>1, <2>2, TameCalls DEF Call, FrameOp
  <2>5. PICK s1 : s1 = Trigger(i, onplan)
    OBVIOUS
  <2>6. \E frames \in Seq(TameFrame) : Pushes(frames)
    <3>1. s1 \o << last >> \o s2 \in Seq(TameFrame)
      BY <1>2, <2>1, <2>3, <2>4, <2>5, SeqClosed
    <3> QED BY <2>2, <2>5, <3>1
  <2>7. consumedResources' = consumedResources
    BY DEF PlanTask, countVars
  <2>8. success' \subseteq start'
    BY <2>2 DEF LimitInv
  <2>9. \A j \in Created' \ Created : info'[j].force =>
          \A c \in Configs, k \in Kinds : TasksOf[c][info'[j].task].resources[k] = 0
    BY <1>2, <2>1, <2>2
  <2>10. \A h \in Hosts, k \in Kinds :
           /\ Cardinality(Units(h, k)') <= consumedResources'[h][k]
           /\ consumedResources'[h][k] <= Capacity[h][k]
    BY <2>2, <2>7, UnitsKept
  <2>11. PICK frames \in Seq(TameFrame) : Pushes(frames)
    BY <2>6
  <2>12. Created \subseteq Created' /\ stack[1].op \notin Cancelers
    BY <1>1, <2>2
  <2> QED BY <2>2, <2>8, <2>9, <2>10, <2>11, <2>12, LimitKept
<1> QED BY <1>3, <1>4

\* A call that queues an instance waits for the one on top to cancel another.
Awaited == \E n \in DOMAIN stack : n > 1 /\ stack[n] \in QueueFrame

\* What is known then of the call on top.
LEMMA AwaitedTop ==
  ASSUME IndInv, CallsInv, LimitInv, SteadyLimits, QuietDuplicates, Awaited
  PROVE  /\ stack # <<>> /\ Top = stack[1]
         /\ Top.op = "stopped" => Top.id \notin start /\ FinishActions(Top.id) = <<>>
<1>1. PICK n \in DOMAIN stack : n > 1 /\ stack[n] \in QueueFrame
  BY DEF Awaited
<1>2. DOMAIN stack = 1..Len(stack) /\ Len(stack) \in Nat
  BY FrameFacts
<1>3. stack # <<>> /\ Top = stack[1] /\ 1 \in 1..(n - 1)
  BY <1>1, <1>2, FrameFacts, Concats
<1>4. PICK t : t = info[stack[n].id].task
  OBVIOUS
<1>5. /\ \E c \in Configs : TasksOf[c][t].maxQueuedInstances > 0
      /\ Top.op = "stopped" => Top.id \notin start
      /\ \A j \in Doomed(Top) : j \in Created /\ info[j].task = t
  BY <1>1, <1>3, <1>4 DEF LimitInv, RoomLeft
<1>6. ASSUME Top.op = "stopped" PROVE FinishActions(Top.id) = <<>>
  <2>1. info[Top.id].task = t /\ Top.id \in Created
    BY <1>5, <1>6 DEF Doomed
  <2>2. t \in Tasks /\ config \in Configs
    BY <2>1, StepFacts DEF TypeOK
  <2>3. TaskOf(Top.id).onfailure = <<>> /\ TaskOf(Top.id).onnostderr = <<>>
    <3>1. CASE t \in Configured
      <4>1. PICK c \in Configs : TasksOf[c][t].maxQueuedInstances > 0
        BY <1>5
      <4>2. t \in TasksIn(c)
        BY <2>2, <4>1 DEF TasksIn, NullTask
      <4>3. TasksOf[config][t].maxQueuedInstances > 0
        BY <2>2, <3>1, <4>1, <4>2 DEF SteadyLimits, Configured
      <4> QED BY <2>1, <2>2, <4>3 DEF QuietDuplicates, TaskOf, Task
    <3>2. CASE t \notin Configured
      <4>1. TaskOf(Top.id) = NullTask
        BY <2>1, <2>2, <3>2 DEF TaskOf, Task, Configured, TasksIn
      <4> QED BY <4>1 DEF NullTask
    <3> QED BY <3>1, <3>2
  <2>4. Top.id \notin success
    BY <1>5, <1>6 DEF LimitInv
  <2>5. FinishActions(Top.id) = <<>> \o <<>>
    BY <2>3, <2>4 DEF FinishActions
  <2> QED BY <2>5, Concats
<1> QED BY <1>3, <1>5, <1>6

\* Canceling a duplicate, while no call that queues an instance waits for it, or
\* while what is left of it is still to be canceled.
LEMMA CancelerStep ==
  ASSUME IndInv, CallsInv, LimitInv, stack # <<>>,
         NEW frames \in Seq(TameFrame), Return(frames),
         UNCHANGED <<info, queue, start, stop, finish, success, target,
                     consumedResources>>,
         Awaited =>
           /\ \A k \in DOMAIN frames :
                /\ frames[k].op \in Cancelers
                /\ frames[k].op = "stopped" => k = 1 /\ frames[k].id \notin start
                /\ Doomed(frames[k]) \subseteq Doomed(Top)
           /\ \A t : \A j \in Doomed(Top) :
                j \in Waits(t) => \E k \in DOMAIN frames : j \in Doomed(frames[k])
  PROVE  LimitInv'
<1>1. Top = stack[1] /\ Pushes(frames) /\ Created' = Created
  BY FrameFacts, ReturnPushes DEF Created
<1>2. \A t : Waits(t)' \subseteq Waits(t)
  BY <1>1, WaitsShrink
<1>3. success' \subseteq start'
  BY DEF LimitInv
<1>4. \A h \in Hosts, k \in Kinds :
        /\ Cardinality(Units(h, k)') <= consumedResources'[h][k]
        /\ consumedResources'[h][k] <= Capacity[h][k]
  BY UnitsKept
<1>5. CASE Awaited
  <2>1. /\ \A k \in DOMAIN frames :
             /\ frames[k].op \in Cancelers
             /\ frames[k].op = "stopped" => k = 1 /\ frames[k].id \notin start'
             /\ Doomed(frames[k]) \subseteq Doomed(stack[1])
        /\ \A t : \A j \in Doomed(stack[1]) :
             j \in Waits(t)' => \E k \in DOMAIN frames : j \in Doomed(frames[k])
    BY <1>1, <1>2, <1>5
  <2> QED BY <1>1, <1>3, <1>4, <2>1, LimitKept
<1>6. CASE ~Awaited
  <2>1. \A n \in DOMAIN stack : stack[n] \in QueueFrame => n = 1
    BY <1>6, FrameFacts DEF Awaited
  <2> QED BY <1>1, <1>3, <1>4, <2>1, LimitKept
<1> QED BY <1>5, <1>6

\* The loop on the duplicates goes to the next one.
LEMMA LimitDeduplicate ==
  ASSUME IndInv, CallsInv, LimitInv, Deduplicate
  PROVE  LimitInv'
<1>1. /\ stack # <<>> /\ Top.op = "deduplicate"
      /\ UNCHANGED <<info, queue, start, stop, finish, success, target,
                     consumedResources>>
  BY DEF Deduplicate, On, Top, instanceVars, countVars
<1>2. Top.id \in Nat /\ Top.ids \in SUBSET Nat
  BY <1>1, NumberFacts
<1>3. PICK j \in Top.ids :
        Return(<< Call("cancel", j) >> \o Loop("deduplicate", Top.id, Top.ids \ {j}))
  BY DEF Deduplicate
<1>4. PICK f, g, rest :
        /\ f = Call("cancel", j) /\ rest = Top.ids \ {j}
        /\ g = [op |-> "deduplicate", id |-> Top.id, ids |-> rest,
                acts |-> <<>>, mark |-> FALSE]
  OBVIOUS
<1>5. /\ f \in TameFrame /\ f.op = "cancel" /\ f.id = j /\ Doomed(f) = {j}
      /\ g.op = "deduplicate" /\ Doomed(g) = rest
      /\ Loop("deduplicate", Top.id, rest) = IF rest = {} THEN <<>> ELSE << g >>
  <2>1. f \in TameFrame
    BY <1>2, <1>3, <1>4, TameCalls DEF Call, FrameOp
  <2> QED BY <1>4, <2>1 DEF Call, CallMark, Doomed, Loop
<1>6. Loop("deduplicate", Top.id, rest) \in Seq(TameFrame)
  BY <1>2, <1>4, TameCalls DEF FrameOp
<1>7. PICK frames : /\ frames = << f >> \o Loop("deduplicate", Top.id, rest)
                    /\ frames \in Seq(TameFrame) /\ Return(frames)
  BY <1>3, <1>4, <1>5, <1>6, SeqClosed
<1>8. Doomed(Top) = Top.ids
  BY <1>1 DEF Doomed
<1>9. CASE rest = {}
  <2>1. frames = << f >>
    BY <1>5, <1>7, <1>9, Concats
  <2>2. DOMAIN frames = {1} /\ frames[1] = f
    BY <2>1, Concats
  <2>3. \A i \in Top.ids : i \in Doomed(f)
    BY <1>4, <1>5, <1>9
  <2> QED BY <1>1, <1>3, <1>5, <1>7, <1>8, <2>2, <2>3, CancelerStep DEF Cancelers
<1>10. CASE rest # {}
  <2>1. frames = << f, g >>
    BY <1>5, <1>7, <1>10, Concats
  <2>2. DOMAIN frames = {1, 2} /\ frames[1] = f /\ frames[2] = g
    BY <2>1, Concats
  <2>3. \A i \in Top.ids : i \in Doomed(f) \/ i \in Doomed(g)
    BY <1>4, <1>5
  <2>4. Doomed(f) \subseteq Top.ids /\ Doomed(g) \subseteq Top.ids
    BY <1>3, <1>4, <1>5
  <2>5. \A k \in DOMAIN frames : frames[k] = f \/ frames[k] = g
    BY <2>2
  <2>6. /\ \A k \in DOMAIN frames :
             /\ frames[k].op \in Cancelers
             /\ frames[k].op # "stopped"
             /\ Doomed(frames[k]) \subseteq Doomed(Top)
        /\ \A i \in Doomed(Top) : \E k \in DOMAIN frames : i \in Doomed(frames[k])
    BY <1>5, <1>8, <2>2, <2>3, <2>4, <2>5 DEF Cancelers
  <2> QED BY <1>1, <1>7, <2>6, CancelerStep
<1> QED BY <1>9, <1>10

\* A call about an instance goes on with one about the same instance, or ends it.
LEMMA CancelerGoesOn ==
  ASSUME IndInv, CallsInv, LimitInv, stack # <<>>,
         Top.op \in Cancelers \ {"deduplicate"},
         UNCHANGED <<info, queue, start, stop, finish, success, target,
                     consumedResources>>,
         \/ Return(<<>>) /\ \A t : Top.id \notin Waits(t)
         \/ \E op \in Cancelers \ {"deduplicate"}, mark \in BOOLEAN :
              /\ op = "stopped" => Top.id \notin start
              /\ Return(<< CallMark(op, Top.id, mark) >>)
  PROVE  LimitInv'
<1>1. Doomed(Top) = {Top.id} /\ Top.id \in Nat
  BY NumberFacts DEF Doomed
<1>2. CASE Return(<<>>) /\ \A t : Top.id \notin Waits(t)
  <2>1. PICK frames : frames = <<>>
    OBVIOUS
  <2>2. frames \in Seq(TameFrame) /\ Return(frames) /\ DOMAIN frames = {}
    BY <1>2, <2>1, SeqClosed, Concats
  <2> QED BY <1>1, <1>2, <2>2, CancelerStep
<1>3. ASSUME NEW op \in Cancelers \ {"deduplicate"}, NEW mark \in BOOLEAN,
             op = "stopped" => Top.id \notin start,
             Return(<< CallMark(op, Top.id, mark) >>)
      PROVE  LimitInv'
  <2>1. PICK f, frames : f = CallMark(op, Top.id, mark) /\ frames = << f >>
    OBVIOUS
  <2>2. f \in TameFrame /\ f.op = op /\ f.id = Top.id /\ Doomed(f) = {Top.id}
    <3>1. f \in TameFrame
      BY <1>1, <2>1, TameCalls DEF Cancelers, FrameOp
    <3>2. f.op = op /\ f.id = Top.id
      BY <2>1 DEF CallMark
    <3> QED BY <3>1, <3>2 DEF Doomed
  <2>3. /\ frames \in Seq(TameFrame) /\ Return(frames) /\ DOMAIN frames = {1}
        /\ frames[1] = f
    BY <1>3, <2>1, <2>2, SeqClosed, Concats
  <2> QED BY <1>1, <1>3, <2>2, <2>3, CancelerStep
<1> QED BY <1>2, <1>3

\* Canceling an instance, that has no herd.
LEMMA LimitCancel ==
  ASSUME IndInv, CallsInv, LoneInv, LimitInv, DoCancelTaskInstance
  PROVE  LimitInv'
<1>1. PICK i : i = Top.id
  OBVIOUS
<1>2. /\ stack # <<>> /\ Top.op = "cancel" /\ i \in Created /\ i \in Ids
      /\ UNCHANGED <<info, queue, start, stop, finish, success, target,
                     consumedResources>>
  BY <1>1, TopFacts DEF DoCancelTaskInstance, On, Top, Loops, instanceVars, countVars
<1>3. HerdedTasks(i) = {}
  BY <1>2, HerdFacts DEF LoneInv
<1>4. CASE Status(i) \in UnstartedStatus
  <2>1. Loop("cancelEach", i, HerdedTasks(i)) = <<>>
    BY <1>3 DEF Loop
  <2>2. Return(<< Call("stopped", i) >>)
    BY <1>1, <1>4, <2>1, Concats DEF DoCancelTaskInstance
  <2>3. i \notin start
    BY <1>4 DEF Status, UnstartedStatus
  <2> QED BY <1>1, <1>2, <2>2, <2>3, CancelerGoesOn DEF Call, Cancelers
<1>5. CASE Status(i) \notin UnstartedStatus
  <2>1. Return(<<>>)
    BY <1>1, <1>5 DEF DoCancelTaskInstance
  <2>2. i \in start \cup stop \cup finish
    BY <1>5 DEF Status, UnstartedStatus
  <2> QED BY <1>1, <1>2, <2>1, <2>2, CancelerGoesOn DEF Waits, Cancelers
<1> QED BY <1>4, <1>5

\* Stopping an instance, which triggers nothing if that is a duplicate.
LEMMA LimitStopped ==
  ASSUME IndInv, CallsInv, LoneInv, LimitInv, ForcedFree, SteadyLimits,
         QuietDuplicates, TaskInstanceStoppedOrCanceled \/ Settle
  PROVE  LimitInv'
<1>1. PICK i : i = Top.id
  OBVIOUS
<1>2. /\ stack # <<>> /\ Top.op \in {"stopped", "settle"} /\ i \in Created
      /\ i \in Ids /\ i \in Nat /\ Top.mark \in BOOLEAN /\ IsHerder(i)
      /\ UNCHANGED <<info, queue, start, stop, finish, success, target,
                     consumedResources>>
  <2>1. stack # <<>> /\ Top.op \in {"stopped", "settle"}
    BY DEF TaskInstanceStoppedOrCanceled, Settle, On, Top
  <2>2. i \in Created /\ i \in Ids /\ i \in Nat /\ Top.mark \in BOOLEAN
    BY <1>1, <2>1, TopFacts DEF Loops
  <2> QED BY <2>1, <2>2 DEF LoneInv, TaskInstanceStoppedOrCanceled, Settle,
                            instanceVars, countVars
<1>3. CASE Settle
  <2>1. unfinishedHerdedTasks[i] = {}
    <3>1. \A j \in unfinishedHerds[i] : ~IsHerder(j) /\ j \in Created
      BY <1>2 DEF CallsInv, Herds, IsHerder
    <3>2. unfinishedHerdedTasks[i] \subseteq unfinishedHerds[i]
      BY <1>2 DEF CallsInv, Herds
    <3> QED BY <3>1, <3>2 DEF LoneInv
  <2>2. Return(<< CallMark("finish", i, Top.mark) >>)
    BY <1>1, <1>3, <2>1 DEF Settle
  <2> QED BY <1>1, <1>2, <2>2, CancelerGoesOn DEF Cancelers
<1>4. CASE TaskInstanceStoppedOrCanceled
  <2>1. PICK f, acts : /\ f = CallMark("settle", i, Top.mark)
                       /\ acts = IF Status(i) = "Canceled" THEN <<>>
                                 ELSE Trigger(i, FinishActions(i))
    OBVIOUS
  <2>2. Return(acts \o << f >>) /\ Top.op = "stopped"
    BY <1>1, <1>2, <1>4, <2>1 DEF TaskInstanceStoppedOrCanceled, On, Top
  <2>3. CASE Awaited
    <3>1. FinishActions(i) = <<>>
      BY <1>1, <2>2, <2>3, AwaitedTop
    <3>2. acts = <<>>
      BY <2>1, <3>1 DEF Trigger
    <3>3. Return(<< CallMark("settle", i, Top.mark) >>)
      <4>1. acts \o << f >> = << f >>
        BY <3>2, Concats
      <4>2. Return(<< f >>)
        BY <2>2, <4>1
      <4> QED BY <2>1, <4>2
    <3> QED BY <1>1, <1>2, <3>3, CancelerGoesOn DEF Cancelers
  <2>4. CASE ~Awaited
    <3>1. acts \in Seq(TameFrame)
      BY <1>2, <2>1, FreeFinish, SeqClosed
    <3>2. f \in TameFrame
      BY <1>2, <2>1, TameCalls DEF FrameOp
    <3>3. PICK frames \in Seq(TameFrame) : Return(frames)
      BY <2>2, <3>1, <3>2, SeqClosed
    <3> QED BY <1>2, <2>4, <3>3, CancelerStep
  <2> QED BY <2>3, <2>4
<1> QED BY <1>3, <1>4

\* Forgetting an instance, that is finished.
LEMMA LimitForget ==
  ASSUME IndInv, CallsInv, LimitInv, Forget
  PROVE  LimitInv'
<1>1. stack # <<>> /\ Top.op = "forget"
  BY DEF Forget, On, Top
<1>2. Top.id \in finish
  BY <1>1, TopFacts
<1> QED BY <1>1, <1>2, CancelerGoesOn DEF Forget, instanceVars, countVars, Cancelers, Waits

\* What the task of an instance needs is the same in every configuration that
\* has it, and nothing in the others.
LEMMA NeedsFacts ==
  ASSUME IndInv, CountInv, SteadyLimits, NEW i \in Created, NEW k \in Kinds
  PROVE  /\ Needs(info[i].task)[k] \in Nat
         /\ TaskOf(i).resources[k] \in {0, Needs(info[i].task)[k]}
         /\ info[i].task \in Configured =>
              TaskOf(i).resources[k] = Needs(info[i].task)[k]
<1>1. PICK t : t = info[i].task
  OBVIOUS
<1>2. t \in Tasks /\ config \in Configs /\ TaskOf(i) = TasksOf[config][t]
  BY <1>1, StepFacts DEF TypeOK, TaskOf, Task
<1>3. PICK c : c = CHOOSE d \in Configs : t \in TasksIn(d)
  OBVIOUS
<1>4. c \in Configs /\ t \in TasksIn(c)
  <2>1. \E d \in Configs : t \in TasksIn(d)
    BY <1>1 DEF CountInv
  <2> QED BY <1>3, <2>1
<1>5. Needs(t) = TasksOf[c][t].resources
  BY <1>3 DEF Needs
<1>6. TasksOf[c][t].resources \in [Kinds -> Nat]
  <2>1. TasksOf[c][t] \in TaskConfig
    BY <1>2, <1>4, ConfigAssumption
  <2> QED BY <2>1 DEF TaskConfig
<1>7. t \in Configured => TaskOf(i).resources = Needs(t)
  BY <1>2, <1>4, <1>5 DEF SteadyLimits, Configured
<1>8. t \notin Configured => TaskOf(i).resources[k] = 0
  <2>1. t \notin Configured => TasksOf[config][t] = NullTask
    BY <1>2 DEF Configured, TasksIn
  <2> QED BY <1>2, <2>1 DEF NullTask
<1> QED BY <1>1, <1>5, <1>6, <1>7, <1>8

\* Finitely many units of a resource.
LEMMA FiniteUnits ==
  ASSUME NEW S, IsFiniteSet(S), NEW n \in [S -> Nat]
  PROVE  IsFiniteSet(UNION {{i} \X (1..n[i]) : i \in S})
<1> DEFINE U == {{i} \X (1..n[i]) : i \in S}
           f == [i \in S |-> {i} \X (1..n[i])]
<1>1. f \in Surjection(S, U)
  BY DEF Surjection
<1>2. IsFiniteSet(U)
  BY <1>1, FS_Surjection
<1>3. \A T \in U : IsFiniteSet(T)
  <2> SUFFICES ASSUME NEW i \in S PROVE IsFiniteSet({i} \X (1..n[i]))
    OBVIOUS
  <2>1. n[i] \in Int /\ 1 \in Int
    OBVIOUS
  <2>2. PICK a \in Int, b \in Int : a = 1 /\ b = n[i]
    BY <2>1
  <2>3. IsFiniteSet(a..b)
    BY FS_Interval
  <2> QED BY <2>2, <2>3, FS_Singleton, FS_Product
<1> HIDE DEF U
<1>4. IsFiniteSet(UNION U)
  BY <1>2, <1>3, FS_UNION
<1> QED BY <1>4 DEF U

\* What is used by one instance more.
LEMMA OneUnit ==
  ASSUME NEW i, NEW n \in Nat
  PROVE  IsFiniteSet({i} \X (1..n)) /\ Cardinality({i} \X (1..n)) = n
<1>1. PICK a \in Int, b \in Int : a = 1 /\ b = n
  OBVIOUS
<1>2. IsFiniteSet(a..b) /\ Cardinality(a..b) = n
  <2>1. Cardinality(a..b) = IF a > b THEN 0 ELSE b-a+1
    BY FS_Interval
  <2> QED BY <1>1, <2>1, FS_Interval
<1>3. IsFiniteSet({i}) /\ Cardinality({i}) = 1
  BY FS_Singleton
<1>4. Cardinality({i} \X (a..b)) = 1 * n /\ IsFiniteSet({i} \X (a..b))
  BY <1>2, <1>3, FS_Product
<1> QED BY <1>1, <1>4

LEMMA UnitsFinite ==
  ASSUME IndInv, CountInv, SteadyLimits, NEW h, NEW k \in Kinds
  PROVE  /\ Runs(h) \subseteq Created
         /\ IsFiniteSet(Units(h, k)) /\ Cardinality(Units(h, k)) \in Nat
<1>1. IsFiniteSet(Created)
  <2>1. Len(info) \in Nat /\ Created \subseteq Nat
    BY StepFacts, NumberFacts
  <2>2. \A i \in Created : i <= Len(info)
    BY <2>1 DEF Created
  <2> QED BY <2>1, <2>2, FS_BoundedSetOfNaturals
<1>2. Runs(h) \subseteq Created
  BY DEF Runs, IndInv, TypeOK, InstanceTypeOK
<1>3. IsFiniteSet(Runs(h))
  BY <1>1, <1>2, FS_Subset
<1>4. PICK n : n = [i \in Runs(h) |-> Needs(info[i].task)[k]]
  OBVIOUS
<1>5. n \in [Runs(h) -> Nat]
  BY <1>2, <1>4, NeedsFacts
<1>6. IsFiniteSet(UNION {{i} \X (1..n[i]) : i \in Runs(h)})
  BY <1>3, <1>5, FiniteUnits
<1>7. Units(h, k) = UNION {{i} \X (1..n[i]) : i \in Runs(h)}
  BY <1>4 DEF Units
<1> QED BY <1>2, <1>6, <1>7, FS_CardinalityType

\* An instance that finishes gives back what it took.
LEMMA UnitsGivenBack ==
  ASSUME IndInv, CountInv, LimitInv, SteadyLimits, NEW i \in Created,
         i \in start => i \notin finish,
         finish' = finish \cup {i}, start' \in {start, start \cup {i}},
         UNCHANGED <<info, target>>,
         consumedResources' =
           IF i \in start
           THEN [consumedResources EXCEPT ![target[i]] =
                   [k \in Kinds |-> @[k] - TaskOf(i).resources[k]]]
           ELSE consumedResources,
         NEW h \in Hosts, NEW k \in Kinds
  PROVE  /\ Cardinality(Units(h, k)') <= consumedResources'[h][k]
         /\ consumedResources'[h][k] <= Capacity[h][k]
<1>1. Runs(h)' = Runs(h) \ {i}
  BY DEF Runs
<1>2. Units(h, k)' \subseteq Units(h, k)
  BY <1>1 DEF Units
<1>3. PICK u, m : u = Cardinality(Units(h, k)) /\ m = Cardinality(Units(h, k)')
  OBVIOUS
<1>4. u \in Nat /\ m \in Nat /\ m <= u
  BY <1>2, <1>3, UnitsFinite, FS_Subset, FS_CardinalityType
<1>5. /\ consumedResources \in [Hosts -> [Kinds -> Int]]
      /\ Capacity[h][k] \in Nat
  BY ConfigAssumption DEF IndInv, TypeOK
<1>6. PICK used, cap : used = consumedResources[h][k] /\ cap = Capacity[h][k]
  OBVIOUS
<1>7. used \in Int /\ cap \in Int /\ u <= used /\ used <= cap
  BY <1>3, <1>5, <1>6 DEF LimitInv
<1>8. CASE ~(i \in start /\ h = target[i])
  <2>1. consumedResources'[h][k] = used
    BY <1>5, <1>6, <1>8
  <2> QED BY <1>3, <1>4, <1>6, <1>7, <2>1
<1>9. CASE i \in start /\ h = target[i]
  <2>1. PICK r : r = TaskOf(i).resources[k]
    OBVIOUS
  <2>2. consumedResources'[h][k] = used - r
    BY <1>5, <1>6, <1>9, <2>1
  <2>3. PICK n : n = Needs(info[i].task)[k]
    OBVIOUS
  <2>4. n \in Nat /\ r \in {0, n}
    BY <2>1, <2>3, NeedsFacts
  <2>5. CASE info[i].force
    <3>1. r = 0
      BY <2>1, <2>5, StepFacts DEF LimitInv, TaskOf, Task, TypeOK
    <3> QED BY <1>3, <1>4, <1>6, <1>7, <2>2, <3>1
  <2>6. CASE ~info[i].force
    <3>1. i \in Runs(h)
      BY <1>9, <2>6 DEF Runs
    <3>2. PICK mine : mine = {i} \X (1..n)
      OBVIOUS
    <3>3. IsFiniteSet(mine) /\ Cardinality(mine) = n
      BY <2>4, <3>2, OneUnit
    <3>4. Units(h, k) = Units(h, k)' \cup mine /\ Units(h, k)' \cap mine = {}
      <4>1. Units(h, k) = UNION {{j} \X (1..Needs(info[j].task)[k]) : j \in Runs(h)}
        BY DEF Units
      <4>2. Units(h, k)' =
              UNION {{j} \X (1..Needs(info[j].task)[k]) : j \in Runs(h) \ {i}}
        BY <1>1 DEF Units
      <4> QED BY <2>3, <3>1, <3>2, <4>1, <4>2
    <3>5. u = m + n
      <4>1. IsFiniteSet(Units(h, k)')
        BY <1>2, UnitsFinite, FS_Subset
      <4>2. Cardinality(Units(h, k)' \cup mine)
              = Cardinality(Units(h, k)') + Cardinality(mine)
                - Cardinality(Units(h, k)' \cap mine)
        BY <3>3, <4>1, FS_Union
      <4>3. Cardinality(Units(h, k)' \cap mine) = 0
        BY <3>4, FS_EmptySet
      <4> QED BY <1>3, <1>4, <2>4, <3>3, <3>4, <4>2, <4>3
    <3> QED BY <1>3, <1>4, <1>6, <1>7, <2>2, <2>4, <3>5
  <2> QED BY <2>5, <2>6
<1> QED BY <1>8, <1>9

\* taskInstanceFinishedOrCanceled() of a herder.
LEMMA LimitFinish ==
  ASSUME IndInv, CallsInv, LoneInv, NoHerds, CountInv, LimitInv, SteadyLimits,
         TaskInstanceFinishedOrCanceled
  PROVE  LimitInv'
<1>1. PICK i : i = Top.id
  OBVIOUS
<1>2. /\ stack # <<>> /\ Top.op = "finish" /\ i \in Created /\ i \in Nat
      /\ IsHerder(i)
      /\ i \in start => i \notin finish
  <2>1. stack # <<>> /\ Top.op = "finish"
    BY DEF TaskInstanceFinishedOrCanceled, On, Top
  <2>2. i \in Created /\ i \in Nat
    BY <1>1, <2>1, TopFacts DEF Loops
  <2> QED BY <1>1, <2>1, <2>2, LoneFinished DEF LoneInv
<1>3. /\ finish' = finish \cup {i} /\ start' \in {start, start \cup {i}}
      /\ UNCHANGED <<info, queue, target>> /\ stop \subseteq stop'
      /\ success' \subseteq start'
  BY <1>1 DEF TaskInstanceFinishedOrCanceled, LimitInv
<1>4. consumedResources' =
        IF i \in start
        THEN [consumedResources EXCEPT ![target[i]] =
                [k \in Kinds |-> @[k] - TaskOf(i).resources[k]]]
        ELSE consumedResources
  BY <1>1 DEF TaskInstanceFinishedOrCanceled, countVars
<1>5. \A h \in Hosts, k \in Kinds :
        /\ Cardinality(Units(h, k)') <= consumedResources'[h][k]
        /\ consumedResources'[h][k] <= Capacity[h][k]
  BY <1>2, <1>3, <1>4, UnitsGivenBack
<1>6. PICK f, frames : f = Call("forget", i) /\ frames = << f >>
  OBVIOUS
<1>7. /\ f \in TameFrame /\ f.op = "forget" /\ Doomed(f) = {i}
  <2>1. f \in TameFrame
    BY <1>2, <1>6, TameCalls DEF Call, FrameOp
  <2> QED BY <1>6, <2>1 DEF Call, CallMark, Doomed
<1>8. Pushes(frames)
  <2>1. \/ Return(<< Call("forget", i) >>)
        \/ Return(<<>> \o << Call("forget", i) >>)
    BY <1>1, <1>2 DEF TaskInstanceFinishedOrCanceled
  <2>2. <<>> \o << f >> = << f >>
    BY Concats
  <2> QED BY <1>2, <1>6, <2>1, <2>2, ReturnPushes
<1>9. frames \in Seq(TameFrame) /\ DOMAIN frames = {1} /\ frames[1] = f
  BY <1>6, <1>7, SeqClosed, Concats
<1>10. Doomed(stack[1]) = {i}
  BY <1>1, <1>2, FrameFacts DEF Doomed
<1>11. Created' = Created
  BY <1>3 DEF Created
<1>12. /\ \A n \in DOMAIN frames :
            /\ frames[n].op \in Cancelers
            /\ frames[n].op # "stopped"
            /\ Doomed(frames[n]) \subseteq Doomed(stack[1])
       /\ \A j \in Doomed(stack[1]) : \E n \in DOMAIN frames : j \in Doomed(frames[n])
  BY <1>7, <1>9, <1>10 DEF Cancelers
<1> QED BY <1>3, <1>5, <1>8, <1>9, <1>11, <1>12, LimitKept

\* An instance is started on a host that has what it needs.
LEMMA UnitsTaken ==
  ASSUME IndInv, CountInv, LimitInv, SteadyLimits, NEW i \in Created, NEW g,
         i \notin start, i \notin finish, info[i].task \in enabled,
         info[i].force \/ Enough(i, g),
         start' = start \cup {i}, target' = [target EXCEPT ![i] = g],
         UNCHANGED <<info, finish>>,
         consumedResources' =
           IF info[i].force THEN consumedResources
           ELSE [consumedResources EXCEPT ![g] =
                   [k \in Kinds |-> @[k] + TaskOf(i).resources[k]]],
         NEW h \in Hosts, NEW k \in Kinds
  PROVE  /\ Cardinality(Units(h, k)') <= consumedResources'[h][k]
         /\ consumedResources'[h][k] <= Capacity[h][k]
<1>1. target'[i] = g /\ \A j \in Created : j # i => target'[j] = target[j]
  BY StepFacts DEF TypeOK, InstanceTypeOK
<1>2. start \subseteq Created
  BY DEF IndInv, TypeOK, InstanceTypeOK
<1>3. Runs(h)' = IF h = g /\ ~info[i].force THEN Runs(h) \cup {i} ELSE Runs(h)
  BY <1>1, <1>2 DEF Runs
<1>4. /\ consumedResources \in [Hosts -> [Kinds -> Int]]
      /\ Capacity[h][k] \in Nat
  BY ConfigAssumption DEF IndInv, TypeOK
<1>5. PICK used, cap, u :
        /\ used = consumedResources[h][k] /\ cap = Capacity[h][k]
        /\ u = Cardinality(Units(h, k))
  OBVIOUS
<1>6. used \in Int /\ cap \in Int /\ u \in Nat /\ u <= used /\ used <= cap
  BY <1>4, <1>5, UnitsFinite DEF LimitInv
<1>7. CASE ~(h = g /\ ~info[i].force)
  <2>1. Units(h, k)' = Units(h, k)
    BY <1>3, <1>7 DEF Units
  <2>2. consumedResources'[h][k] = used
    BY <1>4, <1>5, <1>7
  <2> QED BY <1>5, <1>6, <2>1, <2>2
<1>8. CASE h = g /\ ~info[i].force
  <2>1. PICK n : n = Needs(info[i].task)[k]
    OBVIOUS
  <2>2. n \in Nat /\ TaskOf(i).resources[k] = n
    BY <2>1, NeedsFacts DEF CountInv
  <2>3. consumedResources'[h][k] = used + n
    BY <1>4, <1>5, <1>8, <2>2
  <2>4. used + n <= cap
    <3>1. n > 0 => cap - used >= n
      BY <1>5, <1>8, <2>2 DEF Enough
    <3> QED BY <1>6, <2>2, <3>1
  <2>5. PICK mine : mine = {i} \X (1..n)
    OBVIOUS
  <2>6. IsFiniteSet(mine) /\ Cardinality(mine) = n
    BY <2>2, <2>5, OneUnit
  <2>7. Units(h, k)' = Units(h, k) \cup mine
    <3>1. Units(h, k) = UNION {{j} \X (1..Needs(info[j].task)[k]) : j \in Runs(h)}
      BY DEF Units
    <3>2. Units(h, k)' =
            UNION {{j} \X (1..Needs(info[j].task)[k]) : j \in Runs(h) \cup {i}}
      BY <1>3, <1>8 DEF Units
    <3> QED BY <2>1, <2>5, <3>1, <3>2
  <2>8. Cardinality(Units(h, k)') <= u + n
    <3>1. Cardinality(Units(h, k) \cup mine)
            = u + n - Cardinality(Units(h, k) \cap mine)
      BY <1>5, <2>6, UnitsFinite, FS_Union
    <3>2. Cardinality(Units(h, k) \cap mine) \in Nat
      BY <2>6, FS_Intersection, FS_CardinalityType
    <3> QED BY <1>6, <2>2, <2>7, <3>1, <3>2
  <2>9. Cardinality(Units(h, k)') \in Nat
    BY <2>6, <2>7, UnitsFinite, FS_Union, FS_CardinalityType
  <2> QED BY <1>5, <1>6, <2>2, <2>3, <2>4, <2>8, <2>9
<1> QED BY <1>7, <1>8

\* A host that is chosen has what the instance needs.
LEMMA ChosenEnough ==
  ASSUME NEW i, NEW h \in ChosenHosts(i)
  PROVE  info[i].force \/ Enough(i, h)
BY DEF ChosenHosts, Eligible

\* startTaskInstance() starts an instance, stops it, or leaves it queued.
LEMMA LimitStart ==
  ASSUME IndInv, CallsInv, CountInv, LimitInv, ForcedFree, SteadyLimits,
         NEW i \in Created, StartTaskInstance(i)
  PROVE  LimitInv'
<1> DEFINE rest == Above(i, {j \in Top.ids : Status(j) = "Queued"})
           next == Loop("start", 0, rest)
<1>1. /\ stack # <<>> /\ Top.op = "start" /\ Status(i) = "Queued" /\ i \in Nat
      /\ Top.ids \in SUBSET Nat /\ Top = stack[1] /\ Top.op \notin Cancelers
  BY StartLoop, TopFacts, FrameFacts DEF Cancelers
<1>2. next \in Seq(TameFrame)
  <2>1. rest \in SUBSET Nat
    BY <1>1 DEF Above
  <2> QED BY <2>1, TameCalls DEF FrameOp
<1>3. i \notin start /\ i \notin finish
  BY <1>1 DEF Status
<1>4. UNCHANGED <<info, queue, stop, finish, success>>
  BY DEF StartTaskInstance
<1>5. \/ Return(next) /\ UNCHANGED <<start, target, countVars>>
      \/ Return(<< CallMark("stopped", i, TRUE) >> \o next)
         /\ UNCHANGED <<start, target, countVars>>
      \/ ~Prevented(i) /\ \E h \in ChosenHosts(i) : Launch(i, h, next)
  BY DEF StartTaskInstance
<1> HIDE DEF next
<1>6. CASE Return(next) /\ UNCHANGED <<start, target, countVars>>
  BY <1>1, <1>2, <1>4, <1>6, TameReturn DEF countVars
<1>7. CASE Return(<< CallMark("stopped", i, TRUE) >> \o next)
           /\ UNCHANGED <<start, target, countVars>>
  <2>1. CallMark("stopped", i, TRUE) \in TameFrame
    BY <1>1, TameCalls DEF FrameOp
  <2>2. \E frames \in Seq(TameFrame) : Return(frames)
    BY <1>2, <1>7, <2>1, SeqClosed
  <2> QED BY <1>1, <1>4, <1>7, <2>2, TameReturn DEF countVars
<1>8. ASSUME ~Prevented(i), NEW h \in ChosenHosts(i), Launch(i, h, next)
      PROVE  LimitInv'
  <2>1. /\ start' = start \cup {i} /\ target' = [target EXCEPT ![i] = h]
        /\ consumedResources' =
             IF info[i].force THEN consumedResources
             ELSE [consumedResources EXCEPT ![h] =
                     [k \in Kinds |-> @[k] + TaskOf(i).resources[k]]]
        /\ Return(Trigger(i, TaskOf(i).onstart) \o next)
    BY <1>8 DEF Launch
  <2>2. info[i].task \in enabled
    BY <1>8 DEF Prevented
  <2>3. info[i].force \/ Enough(i, h)
    BY <1>8, ChosenEnough
  <2>4. \A g \in Hosts, k \in Kinds :
          /\ Cardinality(Units(g, k)') <= consumedResources'[g][k]
          /\ consumedResources'[g][k] <= Capacity[g][k]
    BY <1>3, <1>4, <2>1, <2>2, <2>3, UnitsTaken
  <2>5. Trigger(i, TaskOf(i).onstart) \in Seq(TameFrame)
    <3>1. TaskOf(i) \in TaskConfig /\ info[i].task \in Tasks
      BY StepFacts
    <3>2. FreeActions(TaskOf(i).onstart)
      BY <3>1, FreeTasks DEF TaskOf
    <3> QED BY <1>1, <3>1, <3>2, TameCalls DEF TaskConfig
  <2>6. PICK frames \in Seq(TameFrame) : Pushes(frames)
    BY <1>1, <1>2, <2>1, <2>5, SeqClosed, ReturnPushes
  <2>7. Created' = Created /\ success' \subseteq start'
    BY <1>4, <2>1 DEF Created, LimitInv
  <2> QED BY <1>1, <1>4, <2>1, <2>4, <2>6, <2>7, LimitKept
<1> QED BY <1>5, <1>6, <1>7, <1>8

\* No call waits for a cancelation if the one on top is not part of one.
LEMMA NoneWaits ==
  ASSUME IndInv, LimitInv, stack # <<>>, Top.op \notin Cancelers
  PROVE  \A n \in DOMAIN stack : stack[n] \in QueueFrame => n = 1
<1>1. Top = stack[1] /\ DOMAIN stack = 1..Len(stack) /\ Len(stack) \in Nat
  BY FrameFacts
<1>2. ASSUME NEW n \in DOMAIN stack, stack[n] \in QueueFrame, n # 1 PROVE FALSE
  <2>1. 1 \in 1..(n - 1)
    BY <1>1, <1>2
  <2> QED BY <1>1, <1>2, <2>1 DEF LimitInv, RoomLeft
<1> QED BY <1>2

\* The least of a set of instances.
LEMMA LeastId ==
  ASSUME NEW S \in SUBSET Nat, S # {}
  PROVE  \E m \in S : \A j \in S : m <= j
<1>1. \E m \in S : \A j \in S : ~(<<j, m>> \in OpToRel(<, Nat))
  BY NatLessThanWellFounded, WFMin
<1>2. PICK m \in S : \A j \in S : ~(<<j, m>> \in OpToRel(<, Nat))
  BY <1>1
<1>3. ASSUME NEW j \in S, j < m PROVE FALSE
  <2>1. j \in Nat /\ m \in Nat
    OBVIOUS
  <2>2. <<j, m>> \in OpToRel(<, Nat)
    BY <1>3, <2>1 DEF OpToRel
  <2> QED BY <1>2, <2>2
<1>4. \A j \in S : j \in Nat /\ m \in Nat
  OBVIOUS
<1> QED BY <1>3, <1>4

\* Once the duplicates that are too many are canceled there is room for one more.
LEMMA Deduplicates ==
  ASSUME IndInv, NEW i \in Created, TaskOf(i).maxQueuedInstances > 0,
         i \notin Deduplicated(i)
  PROVE  Cardinality(Duplicates(i) \ Deduplicated(i)) < TaskOf(i).maxQueuedInstances
<1>1. PICK D, R, M : /\ D = Duplicates(i) /\ R = Duplicates(i) \ Deduplicated(i)
                     /\ M = TaskOf(i).maxQueuedInstances
  OBVIOUS
<1>2. /\ IsFiniteSet(D) /\ Cardinality(D) \in Nat /\ D \in SUBSET Nat
      /\ IsFiniteSet(R) /\ Cardinality(R) \in Nat /\ R \subseteq D
      /\ Cardinality(R) <= Cardinality(D)
  <2>1. IsFiniteSet(Created) /\ Created \subseteq Nat
    <3>1. Len(info) \in Nat /\ Created \subseteq Nat
      BY StepFacts, NumberFacts
    <3>2. \A j \in Created : j <= Len(info)
      BY <3>1 DEF Created
    <3> QED BY <3>1, <3>2, FS_BoundedSetOfNaturals
  <2>2. D \subseteq Created
    BY <1>1, StepFacts DEF Duplicates
  <2>3. IsFiniteSet(D) /\ Cardinality(D) \in Nat
    BY <2>1, <2>2, FS_Subset, FS_CardinalityType
  <2>4. R \subseteq D
    BY <1>1
  <2> QED BY <2>1, <2>2, <2>3, <2>4, FS_Subset, FS_CardinalityType
<1>3. M \in Nat /\ M > 0
  <2>1. TaskOf(i) \in TaskConfig
    BY StepFacts
  <2> QED BY <1>1, <2>1 DEF TaskConfig
<1>4. PICK excess : excess = Excess(i) /\ excess = Cardinality(D) + 1 - M
  BY <1>1 DEF Excess
<1>5. CASE excess <= 0
  BY <1>1, <1>2, <1>3, <1>4, <1>5
<1>6. CASE excess > 0
  <2>1. TaskOf(i).keepLast
    BY <1>1, <1>2, <1>3, <1>4, <1>6 DEF Deduplicated
  <2>2. \A j \in R : Cardinality({k \in D : k < j}) >= excess
    <3>1. Deduplicated(i) = {j \in D : Cardinality({k \in D : k < j}) < excess}
      BY <1>1, <1>2, <1>3, <1>4, <1>6, <2>1 DEF Deduplicated
    <3> SUFFICES ASSUME NEW j \in R
                 PROVE  Cardinality({k \in D : k < j}) >= excess
      OBVIOUS
    <3>2. ~(Cardinality({k \in D : k < j}) < excess)
      BY <1>1, <1>2, <3>1
    <3>3. Cardinality({k \in D : k < j}) \in Nat
      BY <1>2, FS_Subset, FS_CardinalityType
    <3> QED BY <1>2, <1>3, <1>4, <3>2, <3>3
  <2>3. CASE R = {}
    <3>1. Cardinality(R) = 0
      BY <2>3, FS_EmptySet
    <3> QED BY <1>1, <1>3, <3>1
  <2>4. CASE R # {}
    <3>1. PICK m \in R : \A j \in R : m <= j
      BY <1>2, <2>4, LeastId
    <3>2. PICK B : B = {k \in D : k < m}
      OBVIOUS
    <3>3. /\ IsFiniteSet(D \ B)
          /\ Cardinality(D \ B) = Cardinality(D) - Cardinality(B)
          /\ Cardinality(B) \in Nat /\ Cardinality(B) >= excess
      <4>1. D \cap B = B /\ B \subseteq D
        BY <3>2
      <4>2. Cardinality(D \ B) = Cardinality(D) - Cardinality(D \cap B)
        BY <1>2, FS_Difference
      <4> QED BY <1>2, <2>2, <3>1, <3>2, <4>1, <4>2, FS_Difference, FS_Subset,
                 FS_CardinalityType
    <3>4. R \subseteq D \ B
      <4>1. \A j \in R : j \in Nat /\ m \in Nat
        BY <1>2, <3>1
      <4> QED BY <1>2, <3>1, <3>2, <4>1
    <3>5. Cardinality(R) <= Cardinality(D \ B)
      BY <3>3, <3>4, FS_Subset
    <3> QED BY <1>1, <1>2, <1>3, <1>4, <3>3, <3>5
  <2> QED BY <2>3, <2>4
<1> QED BY <1>2, <1>3, <1>4, <1>5, <1>6

\* The instances of a task that wait are duplicates of any other one.
LEMMA WaitsDuplicates ==
  ASSUME IndInv, CallsInv, NEW i
  PROVE  Waits(info[i].task) \subseteq Duplicates(i)
<1> SUFFICES ASSUME NEW j \in Waits(info[i].task) PROVE j \in Duplicates(i)
  OBVIOUS
<1>1. /\ j \in queue /\ j \notin start \cup stop \cup finish /\ j \in Created
      /\ info[j].task = info[i].task
  BY WaitsFinite DEF Waits
<1>2. j \in unfinishedTasks
  BY <1>1 DEF CallsInv, Remembered
<1> QED BY <1>1, <1>2 DEF Duplicates, Queued, Status

\* Queuing an instance cancels its duplicates first.
LEMMA LimitEnqueue ==
  ASSUME IndInv, CallsInv, LoneInv, CountInv, LimitInv, SteadyLimits,
         EnqueueTaskInstance
  PROVE  LimitInv'
<1> DEFINE i == Top.id
           victims == IF info[i].force THEN {} ELSE Deduplicated(i)
           last == Call(IF i \in victims THEN "dropped" ELSE "queue", i)
           loop == [op |-> "deduplicate", id |-> i, ids |-> victims,
                    acts |-> <<>>, mark |-> FALSE]
<1>1. /\ stack # <<>> /\ Top.op = "enqueue" /\ i \in Created /\ i \in Nat
      /\ Top = stack[1] /\ Top.op \notin Cancelers
      /\ UNCHANGED <<instanceVars, countVars>>
  BY TopFacts, FrameFacts DEF EnqueueTaskInstance, On, Top, Loops, Cancelers
<1>2. Created' = Created /\ \A t : Waits(t)' = Waits(t)
  BY <1>1 DEF instanceVars, Created, Waits
<1>3. \A n \in DOMAIN stack : stack[n] \in QueueFrame => n = 1
  BY <1>1, NoneWaits
<1>4. victims \in SUBSET Created /\ \A j \in victims : j = i \/ j \in Duplicates(i)
  <2>1. Duplicates(i) \subseteq Created
    BY StepFacts DEF Duplicates
  <2>2. \A j \in Deduplicated(i) : j = i \/ j \in Duplicates(i)
    BY DEF Deduplicated
  <2> QED BY <1>1, <2>1, <2>2
<1>5. /\ last \in FreeFrame /\ last.id = i
      /\ last.op = IF i \in victims THEN "dropped" ELSE "queue"
      /\ loop \in FreeFrame /\ loop.op = "deduplicate" /\ Doomed(loop) = victims
      /\ Loop("deduplicate", i, victims) = IF victims = {} THEN <<>> ELSE << loop >>
  <2>1. <<>> \in Seq(Action) /\ {} \in SUBSET Nat /\ Created \subseteq Nat
    BY EmptySeq, NumberFacts
  <2>2. last \in FreeFrame
    BY <1>1, <2>1 DEF Call, CallMark, FreeFrame, CallFrame, FrameOp
  <2>3. loop \in FreeFrame
    BY <1>1, <1>4, <2>1 DEF FreeFrame, CallFrame, FrameOp
  <2> QED BY <2>2, <2>3 DEF Call, CallMark, Doomed, Loop
<1>6. \/ Return(<<>>) \/ Return(<< Call("cancel", i) >>)
      \/ /\ info[i].force \/ info[i].task \in enabled
         /\ Return(Loop("deduplicate", i, victims) \o << last >>)
  BY DEF EnqueueTaskInstance
<1> HIDE DEF last, loop, victims, i
<1>7. CASE Return(<<>>) \/ Return(<< Call("cancel", i) >>)
  <2>1. Call("cancel", i) \in TameFrame
    BY <1>1, TameCalls DEF Call, FrameOp
  <2>2. \E frames \in Seq(TameFrame) : Return(frames)
    BY <1>7, <2>1, SeqClosed
  <2> QED BY <1>1, <2>2, TameReturn DEF instanceVars, countVars
<1>8. CASE /\ info[i].force \/ info[i].task \in enabled
           /\ Return(Loop("deduplicate", i, victims) \o << last >>)
  <2>1. PICK frames : /\ frames \in {<< last >>, << loop, last >>}
                      /\ frames = << last >> <=> victims = {}
                      /\ Pushes(frames)
    <3>1. /\ << loop >> \o << last >> = << loop, last >>
          /\ <<>> \o << last >> = << last >>
      BY Concats
    <3>2. CASE victims = {}
      <4>1. Pushes(<< last >>)
        BY <1>1, <1>5, <1>8, <3>1, <3>2, ReturnPushes
      <4> QED BY <3>2, <4>1
    <3>3. CASE victims # {}
      <4>1. Pushes(<< loop, last >>)
        BY <1>1, <1>5, <1>8, <3>1, <3>3, ReturnPushes
      <4>2. << loop, last >> # << last >>
        BY Concats
      <4> QED BY <3>3, <4>1, <4>2
    <3> QED BY <3>2, <3>3
  <2>2. /\ frames \in Seq(FreeFrame) /\ Len(frames) \in {1, 2}
        /\ DOMAIN frames = 1..Len(frames)
        /\ frames[Len(frames)] = last
        /\ Len(frames) = 2 => frames[1] = loop
        /\ Len(frames) = 1 => victims = {}
    <3>1. CASE frames = << last >>
      BY <1>5, <2>1, <3>1, SeqClosed, Concats
    <3>2. CASE frames = << loop, last >>
      BY <1>5, <2>1, <3>2, SeqClosed, Concats
    <3> QED BY <2>1, <3>1, <3>2
  <2>3. /\ stack' \in Seq(FreeFrame)
        /\ \A k \in DOMAIN stack' :
             \/ k \in DOMAIN frames /\ stack'[k] = frames[k]
             \/ /\ k - Len(frames) + 1 \in DOMAIN stack
                /\ k - Len(frames) + 1 > 1
                /\ stack'[k] = stack[k - Len(frames) + 1]
        /\ \A k \in DOMAIN frames : k \in DOMAIN stack' /\ stack'[k] = frames[k]
    BY <2>1, <2>2, Shift DEF LimitInv
  <2>4. QueueFrame' = QueueFrame
    BY <1>1 DEF QueueFrame, instanceVars
  <2>5. ASSUME NEW n \in DOMAIN stack', stack'[n] \in QueueFrame
        PROVE  /\ n = Len(frames) /\ stack'[n] = last /\ i \notin victims
               /\ ~info[i].force
    <3>1. n \in DOMAIN frames /\ stack'[n] = frames[n]
      BY <1>3, <2>3, <2>5
    <3>2. stack'[n].op = "queue"
      BY <2>5 DEF QueueFrame
    <3>3. frames[n] = last
      <4>1. CASE Len(frames) = 1
        BY <2>2, <3>1, <4>1
      <4>2. CASE Len(frames) = 2
        <5>1. n = 1 \/ n = 2
          BY <2>2, <3>1, <4>2
        <5> QED BY <1>5, <2>2, <3>1, <3>2, <4>2, <5>1
      <4> QED BY <2>2, <4>1, <4>2
    <3>4. n = Len(frames)
      <4>1. CASE Len(frames) = 1
        BY <2>2, <3>1, <4>1
      <4>2. CASE Len(frames) = 2
        <5>1. n = 1 \/ n = 2
          BY <2>2, <3>1, <4>2
        <5> QED BY <1>5, <2>2, <3>1, <3>2, <4>2, <5>1
      <4> QED BY <2>2, <4>1, <4>2
    <3>5. i \notin victims
      BY <1>5, <3>1, <3>2, <3>3
    <3>6. ~info[i].force
      BY <1>5, <2>5, <3>1, <3>3 DEF QueueFrame
    <3> QED BY <3>1, <3>3, <3>4, <3>5, <3>6
  <2>6. RoomLeft'
    <3> SUFFICES ASSUME NEW n \in DOMAIN stack', stack'[n] \in QueueFrame'
                 PROVE  LET t == info'[stack'[n].id].task
                        IN  /\ n > 1 => \E c \in Configs :
                                           TasksOf[c][t].maxQueuedInstances > 0
                            /\ \A m \in 1..(n - 1) :
                                 /\ stack'[m].op \in Cancelers
                                 /\ stack'[m].op = "stopped" =>
                                      m = 1 /\ stack'[m].id \notin start'
                                 /\ \A j \in Doomed(stack'[m]) :
                                      j \in Created' /\ info'[j].task = t
                            /\ \A c \in Configs :
                                 TasksOf[c][t].maxQueuedInstances > 0 =>
                                   Cardinality(Left(n)') < TasksOf[c][t].maxQueuedInstances
      BY DEF RoomLeft, Doomed
    <3>1. /\ n = Len(frames) /\ stack'[n] = last /\ i \notin victims
          /\ ~info[i].force
      BY <2>4, <2>5
    <3>2. PICK t : t = info[i].task /\ t = info'[stack'[n].id].task
      BY <1>1, <1>5, <3>1 DEF instanceVars
    <3>3. victims = Deduplicated(i)
      BY <3>1 DEF victims
    <3>4. t \in Configured /\ t \in Tasks /\ config \in Configs
      BY <1>1, <1>8, <3>1, <3>2, StepFacts DEF CountInv, TypeOK
    <3>5. PICK max : /\ max = TaskOf(i).maxQueuedInstances
                     /\ max = TasksOf[config][t].maxQueuedInstances
      BY <3>2 DEF TaskOf, Task
    <3>6. \A j \in victims : j \in Created /\ info[j].task = t
      BY <1>4, <3>1, <3>2 DEF Duplicates
    <3>7. n > 1 => /\ n = 2 /\ stack'[1] = loop /\ Len(frames) = 2
      BY <2>2, <2>3, <3>1
    <3>8. ASSUME n > 1
          PROVE  /\ \E c \in Configs : TasksOf[c][t].maxQueuedInstances > 0
                 /\ \A m \in 1..(n - 1) : m = 1
                 /\ stack'[1].op = "deduplicate" /\ Doomed(stack'[1]) = victims
      <4>1. frames # << last >>
        BY <3>7, <3>8, Concats
      <4>2. victims # {}
        BY <2>1, <4>1
      <4>3. max # 0
        BY <3>3, <3>5, <4>2 DEF Deduplicated
      <4>4. max \in Nat
        BY <3>4, <3>5, ConfigAssumption DEF TaskConfig
      <4>5. max > 0
        BY <4>3, <4>4
      <4> QED BY <1>5, <3>4, <3>5, <3>7, <3>8, <4>5
    <3>9. ASSUME NEW c \in Configs, TasksOf[c][t].maxQueuedInstances > 0
          PROVE  Cardinality(Left(n)') < TasksOf[c][t].maxQueuedInstances
      <4>1. t \in TasksIn(c)
        BY <3>4, <3>9 DEF TasksIn, NullTask
      <4>2. max = TasksOf[c][t].maxQueuedInstances
        BY <3>4, <3>5, <4>1 DEF SteadyLimits, Configured
      <4>3. Cardinality(Duplicates(i) \ Deduplicated(i)) < max
        BY <1>1, <3>1, <3>3, <3>5, <3>9, <4>2, Deduplicates
      <4>4. Left(n)' \subseteq Duplicates(i) \ Deduplicated(i)
        <5>1. Left(n)' \subseteq Waits(t)
          BY <1>2, <3>2 DEF Left
        <5>2. Waits(t) \subseteq Duplicates(i)
          BY <3>2, WaitsDuplicates
        <5>3. \A j \in Left(n)' : j \notin victims
          <6>1. CASE n > 1
            <7>1. 1 \in 1..(n - 1)
              BY <3>7, <6>1
            <7> QED BY <3>8, <6>1, <7>1 DEF Left, Doomed
          <6>2. CASE ~(n > 1)
            BY <2>2, <3>1, <6>2
          <6> QED BY <6>1, <6>2
        <5> QED BY <3>3, <5>1, <5>2, <5>3
      <4>5. IsFiniteSet(Duplicates(i) \ Deduplicated(i))
        <5>1. Duplicates(i) \subseteq Created
          BY StepFacts DEF Duplicates
        <5>2. IsFiniteSet(Created)
          <6>1. Len(info) \in Nat /\ Created \subseteq Nat
            BY StepFacts, NumberFacts
          <6>2. \A j \in Created : j <= Len(info)
            BY <6>1 DEF Created
          <6> QED BY <6>1, <6>2, FS_BoundedSetOfNaturals
        <5> QED BY <5>1, <5>2, FS_Subset
      <4>6. /\ Cardinality(Left(n)') <= Cardinality(Duplicates(i) \ Deduplicated(i))
            /\ Cardinality(Left(n)') \in Nat
            /\ Cardinality(Duplicates(i) \ Deduplicated(i)) \in Nat
        BY <4>4, <4>5, FS_Subset, FS_CardinalityType
      <4>7. max \in Nat
        BY <3>4, <3>5, ConfigAssumption DEF TaskConfig
      <4> QED BY <4>2, <4>3, <4>6, <4>7
    <3>10. ASSUME NEW m \in 1..(n - 1)
           PROVE  /\ stack'[m].op \in Cancelers /\ stack'[m].op # "stopped"
                  /\ \A j \in Doomed(stack'[m]) : j \in Created' /\ info'[j].task = t
      <4>1. n > 1
        BY <2>2, <3>1
      <4>2. m = 1
        BY <3>8, <4>1
      <4>3. info' = info
        BY <1>1 DEF instanceVars
      <4> QED BY <1>2, <3>6, <3>8, <4>1, <4>2, <4>3 DEF Cancelers
    <3> QED BY <3>2, <3>8, <3>9, <3>10
  <2>7. \A h \in Hosts, k \in Kinds :
          /\ Cardinality(Units(h, k)') <= consumedResources'[h][k]
          /\ consumedResources'[h][k] <= Capacity[h][k]
    BY <1>1, UnitsKept DEF instanceVars, countVars
  <2>8. /\ success' \subseteq start' /\ info' = info
    BY <1>1 DEF LimitInv, instanceVars
  <2>9. /\ \A j \in Created' : info'[j].force =>
             \A c \in Configs, k \in Kinds : TasksOf[c][info'[j].task].resources[k] = 0
        /\ \A c \in Configs, t \in Tasks : TasksOf[c][t].maxQueuedInstances > 0 =>
             Cardinality(Waits(t)') <= TasksOf[c][t].maxQueuedInstances
    BY <1>2, <2>8 DEF LimitInv
  <2> QED BY <2>3, <2>6, <2>7, <2>8, <2>9 DEF LimitInv
<1> QED BY <1>6, <1>7, <1>8

\* How many instances of a task may be queued.
LEMMA MaxQueuedType ==
  ASSUME NEW c \in Configs, NEW t \in Tasks
  PROVE  TasksOf[c][t].maxQueuedInstances \in Nat
<1>1. TasksOf[c][t] \in TaskConfig
  BY ConfigAssumption
<1> QED BY <1>1 DEF TaskConfig

\* The end of enqueueTaskInstance() queues the instance, for which there is room.
LEMMA LimitQueue ==
  ASSUME IndInv, CallsInv, LimitInv, Queue
  PROVE  LimitInv'
<1>1. PICK i : i = Top.id
  OBVIOUS
<1>2. /\ stack # <<>> /\ Top.op = "queue" /\ Top.op \notin Cancelers
      /\ Top = stack[1] /\ 1 \in DOMAIN stack /\ i \in Created
      /\ Return(<<>>)
      /\ UNCHANGED <<info, start, stop, finish, success, target, consumedResources>>
      /\ queue' = queue \/ queue' = queue \cup {i}
  BY <1>1, TopFacts, FrameFacts
     DEF Queue, On, Top, Loops, Cancelers, countVars
<1>3. CASE queue' = queue
  BY <1>2, <1>3, SeqClosed, TameReturn
<1>4. CASE queue' = queue \cup {i}
  <2>1. PICK frames : frames = <<>>
    OBVIOUS
  <2>2. /\ frames \in Seq(FreeFrame) /\ Pushes(frames) /\ Len(frames) = 0
        /\ DOMAIN frames = {}
    BY <1>2, <2>1, SeqClosed, Concats, EmptySeq, ReturnPushes
  <2>3. /\ stack' \in Seq(FreeFrame)
        /\ \A k \in DOMAIN stack' :
             /\ k - Len(frames) + 1 \in DOMAIN stack
             /\ k - Len(frames) + 1 > 1
             /\ stack'[k] = stack[k - Len(frames) + 1]
    BY <2>2, Shift DEF LimitInv
  <2>4. \A n \in DOMAIN stack : stack[n] \in QueueFrame => n = 1
    BY <1>2, NoneWaits
  <2>5. QueueFrame' = QueueFrame
    BY <1>2 DEF QueueFrame
  <2>6. \A k \in DOMAIN stack' : stack'[k] \notin QueueFrame'
    BY <2>3, <2>4, <2>5
  <2>7. RoomLeft'
    BY <2>6 DEF RoomLeft
  <2>8. Created' = Created /\ success' \subseteq start'
    BY <1>2 DEF Created, LimitInv
  <2>9. ASSUME NEW c \in Configs, NEW t \in Tasks, TasksOf[c][t].maxQueuedInstances > 0
        PROVE  Cardinality(Waits(t)') <= TasksOf[c][t].maxQueuedInstances
    <3>1. PICK max : /\ max = TasksOf[c][t].maxQueuedInstances /\ max \in Nat
                     /\ Cardinality(Waits(t)) <= max
      BY <2>9, MaxQueuedType DEF LimitInv
    <3>2. IsFiniteSet(Waits(t)) /\ Cardinality(Waits(t)) \in Nat
      BY WaitsFinite
    <3>3. CASE info[i].task = t /\ ~info[i].force
      <4>1. stack[1] \in QueueFrame
        <5>1. stack[1] \in CallFrame
          BY <1>2, StackFrames
        <5> QED BY <1>1, <1>2, <3>3, <5>1 DEF QueueFrame
      <4>2. Left(1) = Waits(t)
        <5>1. 1..(1 - 1) = {}
          OBVIOUS
        <5>2. info[stack[1].id].task = t
          BY <1>1, <1>2, <3>3
        <5> QED BY <5>1, <5>2 DEF Left
      <4>3. Cardinality(Waits(t)) < max
        BY <1>1, <1>2, <2>9, <3>1, <3>3, <4>1, <4>2 DEF LimitInv, RoomLeft
      <4>4. Waits(t)' \subseteq Waits(t) \cup {i}
        BY <1>2, <1>4 DEF Waits
      <4>5. /\ IsFiniteSet(Waits(t) \cup {i})
            /\ Cardinality(Waits(t) \cup {i}) <= Cardinality(Waits(t)) + 1
            /\ Cardinality(Waits(t) \cup {i}) \in Nat
        <5>1. /\ IsFiniteSet(Waits(t) \cup {i})
              /\ Cardinality(Waits(t) \cup {i}) =
                   IF i \in Waits(t) THEN Cardinality(Waits(t))
                   ELSE Cardinality(Waits(t)) + 1
          BY <3>2, FS_AddElement
        <5> QED BY <3>2, <5>1
      <4>6. Cardinality(Waits(t)') <= Cardinality(Waits(t) \cup {i})
            /\ Cardinality(Waits(t)') \in Nat
        BY <4>4, <4>5, FS_Subset, FS_CardinalityType
      <4> QED BY <3>1, <3>2, <4>3, <4>5, <4>6
    <3>4. CASE ~(info[i].task = t /\ ~info[i].force)
      <4>1. Waits(t)' = Waits(t)
        BY <1>2, <1>4, <3>4 DEF Waits
      <4> QED BY <3>1, <4>1
    <3> QED BY <3>3, <3>4
  <2>10. \A h \in Hosts, k \in Kinds :
           /\ Cardinality(Units(h, k)') <= consumedResources'[h][k]
           /\ consumedResources'[h][k] <= Capacity[h][k]
    BY <1>2, UnitsKept
  <2>11. \A j \in Created' : info'[j].force =>
           \A c \in Configs, k \in Kinds : TasksOf[c][info'[j].task].resources[k] = 0
    BY <1>2, <2>8 DEF LimitInv
  <2> QED BY <2>3, <2>7, <2>8, <2>9, <2>10, <2>11 DEF LimitInv
<1> QED BY <1>2, <1>3, <1>4

\* An event makes the first calls.
LEMMA TameEvent ==
  ASSUME IndInv, CallsInv, LimitInv, stack = <<>>,
         \E frames \in Seq(TameFrame) : stack' = frames,
         UNCHANGED <<instanceVars, consumedResources>>
  PROVE  LimitInv'
<1>1. PICK frames \in Seq(TameFrame) : stack' = frames
  OBVIOUS
<1>2. Rest = <<>>
  BY DEF Rest
<1>3. Pushes(frames)
  BY <1>1, <1>2, ConcatEmptySeq DEF Pushes
<1> QED BY <1>3, TameStep DEF instanceVars

LEMMA LimitEvent ==
  ASSUME IndInv, CallsInv, LimitInv, HandleEvent
  PROVE  LimitInv'
<1>1. stack = <<>> /\ UNCHANGED <<instanceVars, consumedResources>>
  BY DEF HandleEvent, HandleQueuedEvent, HandlePlannedEvent,
         HandleTaskInstanceStopped, Idle, countVars
<1>2. CASE HandleQueuedEvent
  <2>1. Loop("start", 0, unfinishedTasks) \in Seq(TameFrame)
    BY NumberFacts, TameCalls DEF FrameOp
  <2>2. \E frames \in Seq(TameFrame) : stack' = frames
    BY <1>2, <2>1, SeqClosed DEF HandleQueuedEvent
  <2> QED BY <1>1, <2>2, TameEvent
<1>3. CASE HandlePlannedEvent
  <2>1. Loop("enqueueEach", 0,
             {i \in unfinishedTasks : info[i].herdid \in dirtyHerds})
          \in Seq(TameFrame)
    BY NumberFacts, TameCalls DEF FrameOp
  <2>2. \E frames \in Seq(TameFrame) : stack' = frames
    BY <1>3, <2>1, SeqClosed DEF HandlePlannedEvent, Idle
  <2> QED BY <1>1, <2>2, TameEvent
<1>4. ASSUME NEW i \in Ids, HandleTaskInstanceStopped(i) PROVE LimitInv'
  <2>1. Call("stopped", i) \in TameFrame
    <3>1. i \in Nat
      BY DEF Ids
    <3> QED BY <3>1, TameCalls DEF Call, FrameOp
  <2>2. \E frames \in Seq(TameFrame) : stack' = frames
    BY <1>4, <2>1, SeqClosed DEF HandleTaskInstanceStopped
  <2> QED BY <1>1, <2>2, TameEvent
<1> QED BY <1>2, <1>3, <1>4 DEF HandleEvent

\* The end of an execution.
LEMMA LimitStop ==
  ASSUME IndInv, CallsInv, LimitInv, NEW i \in Ids, ExecutorStop(i)
  PROVE  LimitInv'
<1>1. /\ i \in start /\ success' \subseteq success \cup {i}
      /\ stop' = stop \cup {i}
      /\ UNCHANGED <<info, queue, start, finish, target, consumedResources, stack>>
  BY DEF ExecutorStop, IndInv, ExecutorKnown, countVars
<1>2. success' \subseteq start'
  BY <1>1 DEF LimitInv
<1>3. Created' = Created
  BY <1>1 DEF Created
<1>4. \A t : Waits(t)' \subseteq Waits(t)
  BY <1>1, <1>3, WaitsShrink
<1>5. ASSUME NEW t
      PROVE  /\ IsFiniteSet(Waits(t)) /\ Cardinality(Waits(t)) \in Nat
             /\ Cardinality(Waits(t)') <= Cardinality(Waits(t))
             /\ Cardinality(Waits(t)') \in Nat
  BY <1>4, WaitsFinite, FS_Subset
<1>6. QueueFrame' = QueueFrame
  BY <1>1 DEF QueueFrame
<1>7. \A n \in DOMAIN stack : Left(n)' \subseteq Left(n)
  BY <1>1, <1>4 DEF Left, Doomed
<1>8. RoomLeft'
  <2> SUFFICES ASSUME NEW n \in DOMAIN stack, stack[n] \in QueueFrame,
                      NEW t, t = info[stack[n].id].task,
                      NEW c \in Configs, TasksOf[c][t].maxQueuedInstances > 0
               PROVE  Cardinality(Left(n)') < TasksOf[c][t].maxQueuedInstances
    BY <1>1, <1>3, <1>6 DEF LimitInv, RoomLeft, Doomed
  <2>1. Cardinality(Left(n)) < TasksOf[c][t].maxQueuedInstances
    BY DEF LimitInv, RoomLeft
  <2>2. Left(n) \subseteq Waits(t)
    BY DEF Left
  <2>3. IsFiniteSet(Left(n)) /\ Cardinality(Left(n)) \in Nat
    BY <2>2, WaitsFinite
  <2>4. Cardinality(Left(n)') <= Cardinality(Left(n)) /\ Cardinality(Left(n)') \in Nat
    BY <1>7, <2>3, FS_Subset, FS_CardinalityType
  <2>5. TasksOf[c][t].maxQueuedInstances \in Nat
    <3>1. stack[n].op = "queue"
      BY DEF QueueFrame
    <3>2. stack[n].id \in Created
      BY <3>1, StackFrames DEF Loops
    <3>3. t \in Tasks
      BY <3>2, StepFacts
    <3> QED BY <3>3, MaxQueuedType
  <2> QED BY <2>1, <2>3, <2>4, <2>5
<1>9. ASSUME NEW c \in Configs, NEW t \in Tasks, TasksOf[c][t].maxQueuedInstances > 0
      PROVE  Cardinality(Waits(t)') <= TasksOf[c][t].maxQueuedInstances
  <2>1. Cardinality(Waits(t)) <= TasksOf[c][t].maxQueuedInstances
    BY <1>9 DEF LimitInv
  <2>2. TasksOf[c][t].maxQueuedInstances \in Nat
    BY MaxQueuedType
  <2> QED BY <1>5, <2>1, <2>2
<1>10. \A h \in Hosts, k \in Kinds :
         /\ Cardinality(Units(h, k)') <= consumedResources'[h][k]
         /\ consumedResources'[h][k] <= Capacity[h][k]
  BY <1>1, UnitsKept
<1>11. \A j \in Created' : info'[j].force =>
         \A c \in Configs, k \in Kinds : TasksOf[c][info'[j].task].resources[k] = 0
  BY <1>1, <1>3 DEF LimitInv
<1>12. stack' \in Seq(FreeFrame)
  BY <1>1 DEF LimitInv
<1> QED BY <1>2, <1>8, <1>9, <1>10, <1>11, <1>12 DEF LimitInv

\* Steps that leave the instances and the calls alone.
LEMMA LimitSame ==
  ASSUME LimitInv, UNCHANGED <<info, queue, start, stop, finish, success, target,
                               consumedResources, stack>>
  PROVE  LimitInv'
<1>1. Created' = Created /\ QueueFrame' = QueueFrame
  BY DEF Created, QueueFrame
<1>2. /\ \A t : Waits(t)' = Waits(t)
      /\ \A h, k : Units(h, k)' = Units(h, k)
  BY DEF Waits, Units, Runs
<1>3. \A n : Left(n)' = Left(n)
  BY <1>2 DEF Left, Doomed
<1>4. RoomLeft'
  BY <1>1, <1>3 DEF LimitInv, RoomLeft, Doomed
<1> QED BY <1>1, <1>2, <1>4 DEF LimitInv

LEMMA LimitEnvironment ==
  ASSUME IndInv, CallsInv, LimitInv, ForcedFree, Environment
  PROVE  LimitInv'
<1>1. CASE \/ \E tasks \in Switches, b \in BOOLEAN : EnableTasks(tasks, b)
           \/ \E h \in Hosts : HostChanged(h)
           \/ Shutdown
  <2>1. UNCHANGED <<info, queue, start, stop, finish, success, target,
                    consumedResources, stack>>
    BY <1>1 DEF EnableTasks, HostChanged, Shutdown, instanceVars, countVars
  <2> QED BY <2>1, LimitSame
<1>2. ASSUME NEW a \in Requests, RequestTask(a) PROVE LimitInv'
  <2>1. Trigger(0, << a >>) \in Seq(TameFrame)
    <3>1. << a >> \in Seq(Action) /\ FreeActions(<< a >>)
      BY ConfigAssumption DEF ForcedFree
    <3> QED BY <3>1, TameCalls
  <2> QED BY <1>2, <2>1, TameEvent DEF RequestTask, Idle, countVars
<1>3. ASSUME NEW i \in unfinishedTasks,
             CancelTaskInstance(i) \/ AbortTaskInstance(i)
      PROVE  LimitInv'
  <2>1. << Call("cancel", i) >> \in Seq(TameFrame)
        /\ << Call("abort", i) >> \in Seq(TameFrame)
    <3>1. i \in Nat
      BY NumberFacts
    <3> QED BY <3>1, TameCalls, SeqClosed DEF Call, FrameOp
  <2> QED BY <1>3, <2>1, TameEvent
          DEF CancelTaskInstance, AbortTaskInstance, Command, Idle, countVars
<1>4. ASSUME NEW t \in Tasks, \/ CancelTaskInstancesByTaskId(t)
                              \/ AbortTaskInstanceByTaskId(t)
      PROVE  LimitInv'
  <2>1. ASSUME NEW S \in SUBSET unfinishedTasks
        PROVE  /\ Loop("cancelEach", 0, S) \in Seq(TameFrame)
               /\ Loop("abortEach", 0, S) \in Seq(TameFrame)
    <3>1. S \in SUBSET Nat
      BY NumberFacts
    <3> QED BY <3>1, TameCalls DEF FrameOp
  <2>2. \E frames \in Seq(TameFrame) : stack' = frames
    BY <1>4, <2>1
       DEF CancelTaskInstancesByTaskId, AbortTaskInstanceByTaskId, Command
  <2> QED BY <1>4, <2>2, TameEvent
          DEF CancelTaskInstancesByTaskId, AbortTaskInstanceByTaskId, Command,
              Idle, countVars
<1>5. ASSUME NEW c \in Configs, ActivateConfig(c) PROVE LimitInv'
  <2>1. Loop("reload", 0, unfinishedTasks) \in Seq(TameFrame)
    BY NumberFacts, TameCalls DEF FrameOp
  <2>2. Trigger(0, OnConfigLoad[c]) \in Seq(TameFrame)
    <3>1. OnConfigLoad[c] \in Seq(Action) /\ FreeActions(OnConfigLoad[c])
      BY ConfigAssumption DEF ForcedFree
    <3> QED BY <3>1, TameCalls
  <2>3. \E frames \in Seq(TameFrame) : stack' = frames
    BY <1>5, <2>1, <2>2, SeqClosed DEF ActivateConfig
  <2> QED BY <1>5, <2>3, TameEvent DEF ActivateConfig, Idle
<1> QED BY <1>1, <1>2, <1>3, <1>4, <1>5 DEF Environment

LEMMA LimitInit == Init => LimitInv
<1> SUFFICES ASSUME Init PROVE LimitInv
  OBVIOUS
<1>1. /\ stack = <<>> /\ Created = {} /\ success = {} /\ start = {} /\ queue = {}
      /\ consumedResources = [h \in Hosts |-> [k \in Kinds |-> 0]]
  BY DEF Init, InstanceInit, Created
<1>2. stack \in Seq(FreeFrame) /\ DOMAIN stack = {}
  BY <1>1, SeqClosed, Concats
<1>3. RoomLeft
  BY <1>2 DEF RoomLeft
<1>4. /\ \A t : Waits(t) = {}
      /\ \A h, k : Units(h, k) = {}
  BY <1>1 DEF Waits, Units, Runs
<1>5. \A c \in Configs, t \in Tasks : TasksOf[c][t].maxQueuedInstances \in Nat
  BY MaxQueuedType
<1>6. \A h \in Hosts, k \in Kinds : Capacity[h][k] \in Nat
  BY ConfigAssumption
<1>7. Cardinality({}) = 0
  BY FS_EmptySet
<1>8. ASSUME NEW c \in Configs, NEW t \in Tasks
      PROVE  TasksOf[c][t].maxQueuedInstances > 0 =>
               Cardinality(Waits(t)) <= TasksOf[c][t].maxQueuedInstances
  BY <1>4, <1>5, <1>7
<1>9. ASSUME NEW h \in Hosts, NEW k \in Kinds
      PROVE  /\ Cardinality(Units(h, k)) <= consumedResources[h][k]
             /\ consumedResources[h][k] <= Capacity[h][k]
  <2>1. consumedResources[h][k] = 0
    BY <1>1
  <2>2. Cardinality(Units(h, k)) = 0
    BY <1>4, <1>7
  <2>3. Capacity[h][k] \in Nat
    BY <1>6
  <2> QED BY <2>1, <2>2, <2>3
<1>10. success \subseteq start /\ \A i \in Created : FALSE
  BY <1>1
<1> QED BY <1>2, <1>3, <1>8, <1>9, <1>10 DEF LimitInv

LEMMA LimitNext ==
  ASSUME NoHerds, SteadyLimits, ForcedFree, QuietDuplicates,
         IndInv, CallsInv, LoneInv, CountInv, LimitInv, [Next]_vars
  PROVE  LimitInv'
<1>1. CASE UNCHANGED vars
  BY <1>1, LimitSame DEF vars, instanceVars, countVars
<1>2. CASE Step
  <2>1. ~Herded
    BY TopLone DEF Herded, On, Top
  <2> QED BY <1>2, <2>1, LimitPlan, LimitSimple, LimitEnqueue, LimitDeduplicate,
             LimitQueue, LimitCancel, LimitStopped, LimitFinish, LimitForget,
             LimitStart DEF Step
<1> QED BY <1>1, <1>2, LimitEvent, LimitStop, LimitEnvironment DEF Next

\* What the invariant says of the limits themselves.
LEMMA LimitsFollow ==
  ASSUME SteadyLimits, IndInv, CountInv, LimitInv
  PROVE  LimitsRespected
<1>1. MaxInstancesRespected /\ RunningCountExact
  BY DEF CountInv, MaxInstancesRespected, RunningCountExact, Unforced
<1>2. ASSUME NEW h \in Hosts, NEW k \in Kinds PROVE Used(h, k) <= Capacity[h][k]
  <2>1. PICK used : used = UNION {{i} \X (1..TaskOf(i).resources[k]) : i \in Runs(h)}
    OBVIOUS
  <2>2. Used(h, k) = Cardinality(used)
    BY <2>1 DEF Used, Runs
  <2>3. used \subseteq Units(h, k)
    <3>1. \A i \in Runs(h) : \A n \in 1..TaskOf(i).resources[k] :
            n \in 1..Needs(info[i].task)[k]
      BY UnitsFinite, NeedsFacts
    <3> QED BY <2>1, <3>1 DEF Units
  <2>4. /\ IsFiniteSet(Units(h, k)) /\ Cardinality(Units(h, k)) \in Nat
        /\ Cardinality(used) <= Cardinality(Units(h, k))
        /\ Cardinality(used) \in Nat
    BY <2>3, UnitsFinite, FS_Subset, FS_CardinalityType
  <2>5. PICK c, m : c = consumedResources[h][k] /\ m = Capacity[h][k]
    OBVIOUS
  <2>6. c \in Int /\ m \in Int /\ Cardinality(Units(h, k)) <= c /\ c <= m
    BY <2>5, ConfigAssumption DEF LimitInv, IndInv, TypeOK
  <2> QED BY <2>2, <2>4, <2>5, <2>6
<1>3. ASSUME NEW t \in Tasks, Task[t].maxQueuedInstances > 0
      PROVE  Cardinality({i \in Queued : info[i].task = t /\ ~info[i].force})
               <= Task[t].maxQueuedInstances
  <2>1. config \in Configs
    BY StepFacts DEF TypeOK
  <2>2. PICK max : /\ max = Task[t].maxQueuedInstances /\ max \in Nat
                   /\ Cardinality(Waits(t)) <= max
    BY <1>3, <2>1, MaxQueuedType DEF LimitInv, Task
  <2>3. {i \in Queued : info[i].task = t /\ ~info[i].force} \subseteq Waits(t)
    BY DEF Queued, Status, Waits
  <2>4. IsFiniteSet(Waits(t)) /\ Cardinality(Waits(t)) \in Nat
    BY WaitsFinite
  <2> QED BY <2>2, <2>3, <2>4, FS_Subset, FS_CardinalityType
<1> QED BY <1>1, <1>2, <1>3
        DEF LimitsRespected, ResourcesRespected, QueuedInstancesRespected

\* No limit of the configuration is exceeded: neither maxinstances and
\* maxqueuedinstances of a task, nor the resources of a host, if no task plans in
\* a herd, no configuration changes the limits of a task, no task that uses
\* resources is forced and canceling a duplicate triggers nothing.
THEOREM LimitsKept ==
  ASSUME NoHerds, SteadyLimits, ForcedFree, QuietDuplicates
  PROVE  Spec => []LimitsRespected
<1>1. Init => CountInv /\ LimitInv
  BY CountInit, LimitInit
<1>2. IndInv /\ CallsInv /\ LoneInv /\ CountInv /\ LimitInv /\ [Next]_vars
      => CountInv' /\ LimitInv'
  <2> SUFFICES ASSUME IndInv, CallsInv, LoneInv, CountInv, LimitInv, [Next]_vars
               PROVE  CountInv' /\ LimitInv'
    OBVIOUS
  <2>1. CountInv'
    BY CountStep, CountOthers DEF Next
  <2> QED BY <2>1, LimitNext
<1>3. IndInv /\ CountInv /\ LimitInv => LimitsRespected
  BY LimitsFollow
<1> QED BY <1>1, <1>2, <1>3, Invariant, CallsAreKnown, LoneInvariant, PTL
        DEF Spec

-----------------------------------------------------------------------------
(* Statuses and cancelations, herds included.                              *)

Unstarted(i) == i \notin start \cup stop \cup finish

\* A call that is to mark its instance as a failure.
MarkedFrame ==
  {f \in CallFrame : /\ f.op \in Ends /\ Status(f.id) = "Queued"
                     /\ f.id \notin cancelReplies
                     /\ f.op = "stopped" => FinishActions(f.id) = <<>>}

\* Only the call on top of the stack may be to mark its instance.
Marks == \A k \in DOMAIN stack : stack[k].mark => k = 1 /\ stack[k] \in MarkedFrame

\* A call that queues no instance whose herder has not started.
QueuableFrame ==
  {f \in CallFrame : f.op \in {"enqueue", "queue"} =>
     IsHerder(f.id) \/ ~Unstarted(info[f.id].herdid)}

\* No instance is queued or started before its herder is.
HerdUnqueued ==
  /\ \A j \in Created : ~IsHerder(j) /\ Unstarted(info[j].herdid) =>
       j \notin queue \cup start
  /\ \A k \in DOMAIN stack : stack[k] \in QueuableFrame

\* An instance whose cancelation was reported has ended or is about to.
CanceledEnd ==
  \A i \in cancelReplies :
    /\ i \notin start
    /\ i \in finish \/ \E k \in DOMAIN stack : stack[k].op \in Ends
                                               /\ stack[k].id = i

\* The calls that finish an instance of a herd.
HerdedEnd == {f \in CallFrame : f.op = "finish" /\ ~IsHerder(f.id)}

\* Its herder is told next.
Follows ==
  \A k \in DOMAIN stack : stack[k] \in HerdedEnd =>
    /\ k + 1 \in DOMAIN stack
    /\ stack[k + 1].op = "herded" /\ stack[k + 1].id = stack[k].id

\* The herder of a finished instance is told now, or once that is forgotten.
ToldNext(j) ==
  /\ 1 \in DOMAIN stack /\ stack[1].id = j
  /\ \/ stack[1].op = "herded"
     \/ /\ stack[1].op = "forget"
        /\ 2 \in DOMAIN stack /\ stack[2].op = "herded" /\ stack[2].id = j

HerdedFinish ==
  \A h \in Created, j \in finish :
    Unstarted(h) /\ j \in unfinishedHerdedTasks[h] => ToldNext(j)

\* The calls that cancel herder i.
CancelingFrame(i) ==
  {f \in CallFrame : /\ f.op \in {"stopped", "settle"} /\ f.id = i /\ ~f.mark
                     /\ IsHerder(i) /\ Unstarted(i)}

\* The calls that cancel instance j of its herd.
AttendingFrame(i, j) ==
  {f \in CallFrame : \/ f.op = "cancelEach" /\ f.id = i /\ j \in f.ids
                     \/ f.op \in {"cancel", "stopped", "herded"} /\ f.id = j}

\* The calls that plan in its herd.
PlanningFrame(i) ==
  {f \in CallFrame : /\ f.op = "trigger" /\ f.id # 0 /\ info[f.id].herdid = i
                     /\ ~LoneActions(f.acts)}

\* When a herder is canceled each instance of its herd is canceled first, and
\* none is planned in it.
CancelingHerd ==
  \A k \in DOMAIN stack, i \in Created : stack[k] \in CancelingFrame(i) =>
    /\ \A m \in 1..(k - 1) : stack[m] \notin PlanningFrame(i)
    /\ \A j \in unfinishedHerdedTasks[i] :
         \E m \in 1..(k - 1) : stack[m] \in AttendingFrame(i, j)

StatusInv ==
  /\ success \subseteq start
  /\ Marks /\ HerdUnqueued /\ CanceledEnd /\ Follows /\ HerdedFinish
  /\ CancelingHerd

\* Frames stay what they are about, as instances only advance.
Advances ==
  /\ Created \subseteq Created' /\ \A j \in Created : info'[j] = info[j]
  /\ start \subseteq start' /\ stop \subseteq stop' /\ finish \subseteq finish'

\* What is still to be done for the herd of i before the calls it is canceled by.
Cancels(i) == \E n \in DOMAIN stack : n > 1 /\ stack[n] \in CancelingFrame(i)

\* What a step keeps, of the calls on the stack.
LEMMA CancelingKept ==
  ASSUME IndInv, CallsInv, CancelingHerd, Advances,
         NEW frames \in Seq(CallFrame), Pushes(frames),
         \A i \in Created : Cancels(i) =>
           /\ unfinishedHerdedTasks'[i] \subseteq unfinishedHerdedTasks[i]
           /\ \A k \in DOMAIN frames : frames[k] \notin PlanningFrame(i)'
           /\ \A j \in unfinishedHerdedTasks'[i] :
                stack[1] \in AttendingFrame(i, j) =>
                  \E k \in DOMAIN frames : frames[k] \in AttendingFrame(i, j),
         \A k \in DOMAIN frames, i \in Created' :
           frames[k] \in CancelingFrame(i)' =>
             /\ \A m \in 1..(k - 1) : frames[m] \notin PlanningFrame(i)'
             /\ \A j \in unfinishedHerdedTasks'[i] :
                  \E m \in 1..(k - 1) : frames[m] \in AttendingFrame(i, j)
  PROVE  CancelingHerd'
<1>1. /\ Len(frames) \in Nat /\ DOMAIN frames = 1..Len(frames)
      /\ Len(stack) \in Nat /\ DOMAIN stack = 1..Len(stack)
  BY StackFrames
<1>2. /\ stack' \in Seq(CallFrame) /\ DOMAIN stack' = 1..Len(stack')
      /\ Len(stack') \in Nat
      /\ \A k \in DOMAIN stack' :
           \/ k \in DOMAIN frames /\ stack'[k] = frames[k]
           \/ /\ k - Len(frames) + 1 \in DOMAIN stack
              /\ k - Len(frames) + 1 > 1
              /\ stack'[k] = stack[k - Len(frames) + 1]
      /\ \A k \in DOMAIN frames : k \in DOMAIN stack' /\ stack'[k] = frames[k]
      /\ \A n \in DOMAIN stack : n > 1 =>
           /\ n - 1 + Len(frames) \in DOMAIN stack'
           /\ stack'[n - 1 + Len(frames)] = stack[n]
  <2>1. stack \in Seq(CallFrame)
    BY StackFrames
  <2>2. stack' \in Seq(CallFrame)
    BY <2>1, Shift
  <2> QED BY <2>1, <2>2, Shift
<1>3. \A i, j : AttendingFrame(i, j)' = AttendingFrame(i, j)
  BY DEF AttendingFrame, CallFrame
<1>4. SUFFICES ASSUME NEW k \in DOMAIN stack', NEW i \in Created',
                      stack'[k] \in CancelingFrame(i)'
               PROVE  /\ \A m \in 1..(k - 1) : stack'[m] \notin PlanningFrame(i)'
                      /\ \A j \in unfinishedHerdedTasks'[i] :
                           \E m \in 1..(k - 1) : stack'[m] \in AttendingFrame(i, j)
  BY <1>3 DEF CancelingHerd
<1>5. CASE k \in DOMAIN frames /\ stack'[k] = frames[k]
  <2>1. \A m \in 1..(k - 1) : m \in DOMAIN frames /\ stack'[m] = frames[m]
    BY <1>1, <1>2, <1>5
  <2>2. frames[k] \in CancelingFrame(i)'
    BY <1>4, <1>5
  <2> QED BY <1>5, <2>1, <2>2
<1>6. CASE /\ k - Len(frames) + 1 \in DOMAIN stack
           /\ k - Len(frames) + 1 > 1
           /\ stack'[k] = stack[k - Len(frames) + 1]
  <2>1. PICK n : n = k - Len(frames) + 1
    OBVIOUS
  <2>2. n \in DOMAIN stack /\ n > 1 /\ stack'[k] = stack[n] /\ n \in Nat
        /\ k = n - 1 + Len(frames)
    BY <1>1, <1>2, <1>6, <2>1
  <2>3. i \in Created /\ stack[n] \in CancelingFrame(i)
    <3>1. stack[n].id = i /\ stack[n].op \in {"stopped", "settle"}
          /\ ~stack[n].mark /\ stack[n] \in CallFrame
          /\ IsHerder(i)' /\ Unstarted(i)'
      BY <1>4, <2>2 DEF CancelingFrame, CallFrame
    <3>2. i \in Created
      BY <2>2, <3>1, StackFrames DEF Loops
    <3>3. IsHerder(i) /\ Unstarted(i)
      BY <3>1, <3>2 DEF IsHerder, Unstarted, Advances
    <3> QED BY <3>1, <3>2, <3>3 DEF CancelingFrame
  <2>4. Cancels(i)
    BY <2>2, <2>3 DEF Cancels
  <2>5. /\ \A m \in 1..(n - 1) : stack[m] \notin PlanningFrame(i)
        /\ \A j \in unfinishedHerdedTasks[i] :
             \E m \in 1..(n - 1) : stack[m] \in AttendingFrame(i, j)
    BY <2>2, <2>3 DEF CancelingHerd
  <2>6. \A m \in 1..(k - 1) : stack'[m] \notin PlanningFrame(i)'
    <3> TAKE m \in 1..(k - 1)
    <3>1. m \in DOMAIN stack' /\ m \in Nat
      BY <1>1, <1>2
    <3>2. CASE m \in DOMAIN frames /\ stack'[m] = frames[m]
      BY <2>3, <2>4, <3>2
    <3>3. CASE /\ m - Len(frames) + 1 \in DOMAIN stack
               /\ m - Len(frames) + 1 > 1
               /\ stack'[m] = stack[m - Len(frames) + 1]
      <4>1. PICK l : l = m - Len(frames) + 1
        OBVIOUS
      <4>2. l \in DOMAIN stack /\ l \in 1..(n - 1) /\ stack'[m] = stack[l]
        BY <1>1, <2>2, <3>1, <3>3, <4>1
      <4>3. stack[l] \notin PlanningFrame(i)
        BY <2>5, <4>2
      <4>4. stack[l].id # 0 => info'[stack[l].id] = info[stack[l].id]
        BY <4>2, StackFrames DEF Advances
      <4>5. PICK f : f = stack[l]
        OBVIOUS
      <4>6. f \in PlanningFrame(i)' => f \in PlanningFrame(i)
        BY <4>4, <4>5 DEF PlanningFrame, CallFrame
      <4> QED BY <4>2, <4>3, <4>5, <4>6
    <3> QED BY <1>2, <3>1, <3>2, <3>3
  <2>7. ASSUME NEW j \in unfinishedHerdedTasks'[i]
        PROVE  \E m \in 1..(k - 1) : stack'[m] \in AttendingFrame(i, j)
    <3>1. j \in unfinishedHerdedTasks[i]
      BY <2>3, <2>4, <2>7
    <3>2. PICK m \in 1..(n - 1) : stack[m] \in AttendingFrame(i, j)
      BY <2>5, <3>1
    <3>3. CASE m = 1
      <4>1. PICK p \in DOMAIN frames : frames[p] \in AttendingFrame(i, j)
        BY <2>3, <2>4, <2>7, <3>2, <3>3
      <4>2. p \in 1..(k - 1) /\ stack'[p] = frames[p]
        BY <1>1, <1>2, <2>2, <4>1
      <4> QED BY <4>1, <4>2
    <3>4. CASE m # 1
      <4>1. m \in DOMAIN stack /\ m > 1 /\ m \in Nat
        BY <1>1, <2>2, <3>2, <3>4
      <4>2. stack'[m - 1 + Len(frames)] = stack[m]
        BY <1>2, <4>1
      <4>3. m - 1 + Len(frames) \in 1..(k - 1)
        BY <1>1, <2>2, <3>2, <4>1
      <4> QED BY <3>2, <4>2, <4>3
    <3> QED BY <3>3, <3>4
  <2> QED BY <2>6, <2>7
<1> QED BY <1>2, <1>4, <1>5, <1>6

\* Nor do new calls disturb what the calls below them say of the stack.
LEMMA FramesKept ==
  ASSUME IndInv, CallsInv, Marks, HerdUnqueued, Follows, Advances,
         NEW frames \in Seq(CallFrame), Pushes(frames),
         \A k \in DOMAIN frames :
           /\ frames[k].mark => k = 1 /\ frames[k] \in MarkedFrame'
           /\ frames[k] \in QueuableFrame'
           /\ frames[k] \in HerdedEnd' =>
                /\ k + 1 \in DOMAIN frames /\ frames[k + 1].op = "herded"
                /\ frames[k + 1].id = frames[k].id
  PROVE  /\ Marks' /\ Follows'
         /\ \A k \in DOMAIN stack' : stack'[k] \in QueuableFrame'
<1>1. /\ Len(frames) \in Nat /\ DOMAIN frames = 1..Len(frames)
      /\ Len(stack) \in Nat /\ DOMAIN stack = 1..Len(stack)
      /\ stack \in Seq(CallFrame)
  BY StackFrames
<1>2. /\ stack' \in Seq(CallFrame) /\ DOMAIN stack' = 1..Len(stack')
      /\ Len(stack') \in Nat
      /\ \A k \in DOMAIN stack' :
           \/ k \in DOMAIN frames /\ stack'[k] = frames[k]
           \/ /\ k - Len(frames) + 1 \in DOMAIN stack
              /\ k - Len(frames) + 1 > 1
              /\ stack'[k] = stack[k - Len(frames) + 1]
      /\ \A k \in DOMAIN frames : k \in DOMAIN stack' /\ stack'[k] = frames[k]
      /\ \A n \in DOMAIN stack : n > 1 =>
           /\ n - 1 + Len(frames) \in DOMAIN stack'
           /\ stack'[n - 1 + Len(frames)] = stack[n]
  <2>1. stack' \in Seq(CallFrame)
    BY <1>1, Shift
  <2> QED BY <1>1, <2>1, Shift
<1>3. ASSUME NEW k \in DOMAIN stack'
      PROVE  /\ stack'[k].mark => k = 1 /\ stack'[k] \in MarkedFrame'
             /\ stack'[k] \in QueuableFrame'
             /\ stack'[k] \in HerdedEnd' =>
                  /\ k + 1 \in DOMAIN stack' /\ stack'[k + 1].op = "herded"
                  /\ stack'[k + 1].id = stack'[k].id
  <2>1. CASE k \in DOMAIN frames /\ stack'[k] = frames[k]
    BY <1>2, <2>1
  <2>2. CASE /\ k - Len(frames) + 1 \in DOMAIN stack
             /\ k - Len(frames) + 1 > 1
             /\ stack'[k] = stack[k - Len(frames) + 1]
    <3>1. PICK n, f : n = k - Len(frames) + 1 /\ f = stack[n]
      OBVIOUS
    <3>2. n \in DOMAIN stack /\ n > 1 /\ stack'[k] = f /\ n \in Nat
          /\ k = n - 1 + Len(frames) /\ k \in Nat
      BY <1>1, <1>2, <2>2, <3>1
    <3>3. ~f.mark
      BY <3>1, <3>2 DEF Marks
    <3>4. /\ f.op \notin Loops \cup {"trigger"} =>
               /\ f.id \in Created /\ info[f.id].herdid \in Created
               /\ info'[f.id] = info[f.id]
          /\ f \in CallFrame
      BY <3>1, <3>2, StackFrames DEF Advances
    <3>5. f \in QueuableFrame'
      <4>1. f \in QueuableFrame
        BY <3>1, <3>2 DEF HerdUnqueued
      <4> QED BY <3>4, <4>1
              DEF QueuableFrame, IsHerder, Unstarted, Advances, Loops
    <3>6. f \in HerdedEnd' => f \in HerdedEnd
      BY <3>4 DEF HerdedEnd, IsHerder, Loops
    <3>7. ASSUME f \in HerdedEnd
          PROVE  /\ k + 1 \in DOMAIN stack' /\ stack'[k + 1].op = "herded"
                 /\ stack'[k + 1].id = f.id
      <4>1. n + 1 \in DOMAIN stack /\ stack[n + 1].op = "herded"
            /\ stack[n + 1].id = f.id
        BY <3>1, <3>2, <3>7 DEF Follows
      <4>2. n + 1 > 1 /\ (n + 1) - 1 + Len(frames) = k + 1
        BY <1>1, <3>2
      <4> QED BY <1>2, <4>1, <4>2
    <3> QED BY <3>2, <3>3, <3>5, <3>6, <3>7
  <2> QED BY <1>2, <2>1, <2>2
<1> QED BY <1>3 DEF Marks, Follows

\* What is left to be proved of a step that makes new calls.
LEMMA StatusKept ==
  ASSUME IndInv, CallsInv, StatusInv, Advances,
         NEW frames \in Seq(CallFrame), Pushes(frames),
         success' \subseteq start', HerdedFinish',
         \A j \in Created : j \in queue' \cup start' =>
           j \in queue \cup start \/ IsHerder(j) \/ ~Unstarted(info[j].herdid),
         \A j \in Created' \ Created : j \notin queue' \cup start',
         \A i \in cancelReplies' :
           /\ i \notin start'
           /\ \/ i \in cancelReplies
              \/ \E k \in DOMAIN frames : frames[k].op \in Ends /\ frames[k].id = i,
         stack # <<>> /\ stack[1].op \in Ends /\ stack[1].id \in cancelReplies =>
           \/ stack[1].id \in finish'
           \/ \E k \in DOMAIN frames : /\ frames[k].op \in Ends
                                       /\ frames[k].id = stack[1].id,
         \A k \in DOMAIN frames :
           /\ frames[k].mark => k = 1 /\ frames[k] \in MarkedFrame'
           /\ frames[k] \in QueuableFrame'
           /\ frames[k] \in HerdedEnd' =>
                /\ k + 1 \in DOMAIN frames /\ frames[k + 1].op = "herded"
                /\ frames[k + 1].id = frames[k].id,
         \A i \in Created : Cancels(i) =>
           /\ unfinishedHerdedTasks'[i] \subseteq unfinishedHerdedTasks[i]
           /\ \A k \in DOMAIN frames : frames[k] \notin PlanningFrame(i)'
           /\ \A j \in unfinishedHerdedTasks'[i] :
                stack[1] \in AttendingFrame(i, j) =>
                  \E k \in DOMAIN frames : frames[k] \in AttendingFrame(i, j),
         \A k \in DOMAIN frames, i \in Created' :
           frames[k] \in CancelingFrame(i)' =>
             /\ \A m \in 1..(k - 1) : frames[m] \notin PlanningFrame(i)'
             /\ \A j \in unfinishedHerdedTasks'[i] :
                  \E m \in 1..(k - 1) : frames[m] \in AttendingFrame(i, j)
  PROVE  StatusInv'
<1>1. Marks' /\ Follows' /\ \A k \in DOMAIN stack' : stack'[k] \in QueuableFrame'
  BY FramesKept DEF StatusInv
<1>2. CancelingHerd'
  BY CancelingKept DEF StatusInv
<1>3. CanceledEnd'
  <2> SUFFICES ASSUME NEW i \in cancelReplies'
               PROVE  /\ i \notin start'
                      /\ i \in finish' \/ \E k \in DOMAIN stack' :
                           stack'[k].op \in Ends /\ stack'[k].id = i
    BY DEF CanceledEnd
  <2>1. i \notin start'
    OBVIOUS
  <2>2. ASSUME NEW k \in DOMAIN frames, frames[k].op \in Ends, frames[k].id = i
        PROVE  \E m \in DOMAIN stack' : stack'[m].op \in Ends /\ stack'[m].id = i
    <3>1. k \in DOMAIN stack' /\ stack'[k] = frames[k]
      BY StackFrames, Shift
    <3> QED BY <2>2, <3>1
  <2>3. CASE i \in cancelReplies
    <3>1. i \in finish \/ \E k \in DOMAIN stack : stack[k].op \in Ends
                                                 /\ stack[k].id = i
      BY <2>3 DEF StatusInv, CanceledEnd
    <3>2. ASSUME NEW k \in DOMAIN stack, stack[k].op \in Ends, stack[k].id = i
          PROVE  i \in finish' \/ \E m \in DOMAIN stack' :
                   stack'[m].op \in Ends /\ stack'[m].id = i
      <4>1. k \in Nat /\ k >= 1 /\ stack # <<>>
        BY StackFrames, Concats
      <4>2. CASE k = 1
        BY <2>2, <2>3, <3>2, <4>1, <4>2
      <4>3. CASE k > 1
        <5>1. \E m \in DOMAIN stack' : stack'[m] = stack[k]
          BY <4>3, StackFrames, Shift
        <5> QED BY <3>2, <5>1
      <4> QED BY <4>1, <4>2, <4>3
    <3> QED BY <3>1, <3>2 DEF Advances
  <2> QED BY <2>1, <2>2, <2>3
<1>4. HerdUnqueued'
  <2>1. ASSUME NEW j \in Created', ~IsHerder(j)', Unstarted(info[j].herdid)'
        PROVE  j \notin queue' \cup start'
    <3>1. CASE j \in Created
      <4>1. ~IsHerder(j) /\ info'[j].herdid = info[j].herdid
        BY <2>1, <3>1 DEF IsHerder, Advances
      <4>2. Unstarted(info[j].herdid)
        BY <2>1, <4>1 DEF Unstarted, Advances
      <4> QED BY <3>1, <4>1, <4>2 DEF StatusInv, HerdUnqueued
    <3> QED BY <3>1
  <2> QED BY <1>1, <2>1 DEF HerdUnqueued
<1> QED BY <1>1, <1>2, <1>3, <1>4 DEF StatusInv

\* Unless its herder is just being told so, no finished instance is awaited by
\* a herder that was not started.
LEMMA NoneAwaited ==
  ASSUME IndInv, StatusInv,
         stack = <<>> \/ stack[1].op \notin {"herded", "forget"}
  PROVE  \A h \in Created, j \in finish :
           Unstarted(h) => j \notin unfinishedHerdedTasks[h]
<1>1. \A j : ~ToldNext(j)
  BY Concats DEF ToldNext
<1> QED BY <1>1 DEF StatusInv, HerdedFinish

\* New calls that end nothing and plan in no herd, but for the actions that are
\* left of those on top of the stack.
MildFrame ==
  {f \in QueuableFrame :
     /\ ~f.mark
     /\ f.op \in Ends => f.op = "stopped" /\ f.id \in start
     /\ f.op = "trigger" =>
          \/ f.id = 0
          \/ /\ stack # <<>> /\ stack[1].op = "trigger" /\ stack[1].id = f.id
             /\ LoneActions(stack[1].acts) => LoneActions(f.acts)}

\* A step that only makes mild calls, when nothing ends on top of the stack.
LEMMA MildStep ==
  ASSUME IndInv, CallsInv, StatusInv,
         \/ stack = <<>>
         \/ stack[1].op \notin Ends \cup {"cancel", "cancelEach", "herded", "forget"},
         \E frames \in Seq(MildFrame) : Pushes(frames),
         UNCHANGED <<info, start, stop, finish, success, unfinishedHerdedTasks,
                     cancelReplies>>,
         \A j \in Created : j \in queue' =>
           j \in queue \/ IsHerder(j) \/ ~Unstarted(info[j].herdid)
  PROVE  StatusInv'
<1>1. PICK frames \in Seq(MildFrame) : Pushes(frames)
  OBVIOUS
<1>2. frames \in Seq(CallFrame) /\ \A k \in DOMAIN frames : frames[k] \in MildFrame
  <2>1. MildFrame \subseteq CallFrame
    BY DEF MildFrame, QueuableFrame
  <2>2. frames \in Seq(CallFrame)
    BY <1>1, <2>1, SeqMonotonic
  <2> QED BY <1>1, <2>2
<1>3. Created' = Created /\ Advances
  BY DEF Created, Advances
<1>4. \A i \in Created : /\ IsHerder(i)' <=> IsHerder(i)
                         /\ Unstarted(i)' <=> Unstarted(i)
  BY DEF IsHerder, Unstarted
<1>5. \A f \in MildFrame : /\ ~f.mark /\ f \in QueuableFrame'
                           /\ f \notin HerdedEnd'
  BY DEF MildFrame, QueuableFrame, HerdedEnd, IsHerder, Unstarted, Ends
<1>6. \A f \in MildFrame, i \in Created : f \notin CancelingFrame(i)'
  BY DEF MildFrame, QueuableFrame, CancelingFrame, Unstarted, Ends
<1>7. ASSUME NEW i \in Created, Cancels(i)
      PROVE  /\ \A k \in DOMAIN frames : frames[k] \notin PlanningFrame(i)'
             /\ \A j : stack[1] \notin AttendingFrame(i, j)
  <2>1. PICK n \in DOMAIN stack : n > 1 /\ stack[n] \in CancelingFrame(i)
    BY <1>7 DEF Cancels
  <2>2. stack # <<>> /\ 1 \in 1..(n - 1)
    <3>1. n \in Nat
      BY StackFrames
    <3> QED BY <2>1, <3>1, Concats
  <2>3. stack[1] \notin PlanningFrame(i)
    BY <2>1, <2>2 DEF StatusInv, CancelingHerd
  <2>4. stack[1] \in CallFrame
    BY <2>2, FrameFacts, StackFrames
  <2>5. \A f \in MildFrame : f \notin PlanningFrame(i)'
    BY <2>3, <2>4 DEF MildFrame, QueuableFrame, PlanningFrame
  <2>6. \A j : stack[1] \notin AttendingFrame(i, j)
    BY <2>2 DEF AttendingFrame, Ends
  <2> QED BY <1>2, <2>5, <2>6
<1>8. HerdedFinish'
  <2>1. stack = <<>> \/ stack[1].op \notin {"herded", "forget"}
    OBVIOUS
  <2> QED BY <1>3, <1>4, <2>1, NoneAwaited DEF HerdedFinish
<1>9. /\ success' \subseteq start'
      /\ \A i \in cancelReplies' : i \notin start' /\ i \in cancelReplies
      /\ \A j \in Created : j \in queue' \cup start' =>
           j \in queue \cup start \/ IsHerder(j) \/ ~Unstarted(info[j].herdid)
      /\ stack # <<>> => stack[1].op \notin Ends
  BY DEF StatusInv, CanceledEnd
<1> QED BY <1>1, <1>2, <1>3, <1>5, <1>6, <1>7, <1>8, <1>9, StatusKept

\* The mild calls.
LEMMA MildCalls ==
  /\ <<>> \in Seq(MildFrame)
  /\ \A op \in FrameOp \ (Ends \cup {"trigger", "enqueue", "queue"}), i \in Nat :
       Call(op, i) \in MildFrame
  /\ \A op \in {"enqueue", "queue"}, i \in Nat :
       IsHerder(i) \/ ~Unstarted(info[i].herdid) => Call(op, i) \in MildFrame
  /\ \A op \in FrameOp \ (Ends \cup {"trigger", "enqueue", "queue"}), i \in Nat,
        S \in SUBSET Nat : Loop(op, i, S) \in Seq(MildFrame)
<1>1. \A op \in FrameOp, i \in Nat, S \in SUBSET Nat :
        [op |-> op, id |-> i, ids |-> S, acts |-> <<>>, mark |-> FALSE]
          \in CallFrame
  BY DEF CallFrame
<1>2. \A op \in FrameOp, i \in Nat : Call(op, i) \in CallFrame
  BY <1>1 DEF Call, CallMark
<1>3. \A op \in FrameOp \ (Ends \cup {"trigger", "enqueue", "queue"}), i \in Nat :
        Call(op, i) \in MildFrame
  BY <1>2 DEF MildFrame, QueuableFrame, Call, CallMark
<1>4. \A op \in {"enqueue", "queue"}, i \in Nat :
        IsHerder(i) \/ ~Unstarted(info[i].herdid) => Call(op, i) \in MildFrame
  <2>1. \A op \in {"enqueue", "queue"} : op \in FrameOp /\ op \notin Ends
    BY DEF FrameOp, Ends
  <2> QED BY <1>2, <2>1 DEF MildFrame, QueuableFrame, Call, CallMark
<1>5. \A op \in FrameOp \ (Ends \cup {"trigger", "enqueue", "queue"}), i \in Nat,
         S \in SUBSET Nat : Loop(op, i, S) \in Seq(MildFrame)
  <2> TAKE op \in FrameOp \ (Ends \cup {"trigger", "enqueue", "queue"}), i \in Nat,
           S \in SUBSET Nat
  <2>1. [op |-> op, id |-> i, ids |-> S, acts |-> <<>>, mark |-> FALSE]
          \in MildFrame
    BY <1>1 DEF MildFrame, QueuableFrame
  <2> QED BY <2>1, LoopIn
<1> QED BY <1>3, <1>4, <1>5, SeqClosed

\* The steps that end, cancel and plan nothing.
LEMMA MildSimple ==
  ASSUME IndInv, CallsInv, StatusInv,
         \/ Planned \/ Dropped \/ Aborted \/ LoopEnds \/ Deduplicate
         \/ DoAbortTaskInstance \/ EnqueueTaskInstance \/ Queue
         \/ PlanTask /\ Head(Top.acts).task \notin enabled
         \/ CancelOrAbortEach /\ Top.op # "cancelEach"
  PROVE  StatusInv'
<1> DEFINE ordinary ==
      \E frames \in Seq(MildFrame) : Return(frames)
<1>1. /\ stack # <<>> /\ Top = stack[1]
      /\ Top.op \notin Ends \cup {"cancel", "cancelEach", "herded", "forget"}
      /\ Top.id \in Nat /\ Top.ids \in SUBSET Nat
      /\ Top.op \notin Loops \cup {"trigger"} => Top.id \in Created
  <2>1. /\ stack # <<>>
        /\ Top.op \notin Ends \cup {"cancel", "cancelEach", "herded", "forget"}
    BY DEF Planned, Dropped, Aborted, LoopEnds, Deduplicate, DoAbortTaskInstance,
           EnqueueTaskInstance, Queue, PlanTask, CancelOrAbortEach, On, Top, Ends
  <2> QED BY <2>1, FrameFacts, TopFacts
<1>2. ASSUME ordinary,
             UNCHANGED <<info, start, stop, finish, success,
                         unfinishedHerdedTasks, cancelReplies>>,
             \A j \in Created : j \in queue' =>
               j \in queue \/ IsHerder(j) \/ ~Unstarted(info[j].herdid)
      PROVE  StatusInv'
  BY <1>1, <1>2, ReturnPushes, MildStep
<1>3. CASE \/ Planned \/ Dropped \/ Aborted \/ LoopEnds \/ Deduplicate
           \/ DoAbortTaskInstance \/ EnqueueTaskInstance
           \/ PlanTask /\ Head(Top.acts).task \notin enabled
           \/ CancelOrAbortEach /\ Top.op # "cancelEach"
  <2>1. UNCHANGED <<info, queue, start, stop, finish, success,
                    unfinishedHerdedTasks, cancelReplies>>
    BY <1>3 DEF Planned, Dropped, Aborted, LoopEnds, Deduplicate,
                DoAbortTaskInstance, EnqueueTaskInstance, PlanTask,
                CancelOrAbortEach, instanceVars, indexVars
  <2>2. ASSUME Planned \/ Dropped \/ Aborted \/ LoopEnds
        PROVE  ordinary
    BY <2>2, MildCalls DEF Planned, Dropped, Aborted, LoopEnds
  <2>3. ASSUME Deduplicate
        PROVE  ordinary
    <3>1. PICK j \in Top.ids :
            Return(<< Call("cancel", j) >>
                   \o Loop("deduplicate", Top.id, Top.ids \ {j}))
      BY <2>3 DEF Deduplicate
    <3>2. /\ << Call("cancel", j) >> \in Seq(MildFrame)
          /\ Loop("deduplicate", Top.id, Top.ids \ {j}) \in Seq(MildFrame)
      BY <1>1, <3>1, MildCalls, SeqClosed DEF FrameOp, Ends
    <3> QED BY <3>1, <3>2, SeqClosed
  <2>4. ASSUME DoAbortTaskInstance
        PROVE  ordinary
    <3>1. Top.id \in Ids /\ Top.id \in Created
      BY <1>1, <2>4, StepFacts DEF DoAbortTaskInstance, On, Top, Loops
    <3>2. /\ << Call("aborted", Top.id) >> \in Seq(MildFrame)
          /\ Loop("abortHerd", Top.id, HerdedTasks(Top.id)) \in Seq(MildFrame)
      BY <1>1, <3>1, HerdFacts, MildCalls, SeqClosed DEF FrameOp, Ends
    <3> QED BY <2>4, <3>2, MildCalls, SeqClosed DEF DoAbortTaskInstance
  <2>5. ASSUME EnqueueTaskInstance
        PROVE  ordinary
    <3> DEFINE victims == IF info[Top.id].force THEN {} ELSE Deduplicated(Top.id)
    <3>1. /\ << Call("cancel", Top.id) >> \in Seq(MildFrame)
          /\ << Call("dropped", Top.id) >> \in Seq(MildFrame)
      BY <1>1, MildCalls, SeqClosed DEF FrameOp, Ends
    <3>2. << Call("queue", Top.id) >> \in Seq(MildFrame)
      <4>1. Top \in QueuableFrame /\ Top.op = "enqueue"
        BY <1>1, <2>5, FrameFacts
           DEF StatusInv, HerdUnqueued, EnqueueTaskInstance, On, Top
      <4> QED BY <1>1, <4>1, MildCalls, SeqClosed DEF QueuableFrame
    <3>3. Loop("deduplicate", Top.id, victims) \in Seq(MildFrame)
      <4>1. Top.id \in Created
        BY <1>1, <2>5 DEF EnqueueTaskInstance, On, Top, Loops
      <4>2. victims \in SUBSET Nat
        BY <4>1, NumberFacts, StepFacts DEF Deduplicated, Duplicates
      <4> HIDE DEF victims
      <4> QED BY <1>1, <4>2, MildCalls DEF FrameOp, Ends
    <3>4. \/ Return(<<>>) \/ Return(<< Call("cancel", Top.id) >>)
          \/ Return(Loop("deduplicate", Top.id, victims)
                    \o << Call("dropped", Top.id) >>)
          \/ Return(Loop("deduplicate", Top.id, victims)
                    \o << Call("queue", Top.id) >>)
      BY <2>5 DEF EnqueueTaskInstance
    <3> HIDE DEF victims
    <3> QED BY <3>1, <3>2, <3>3, <3>4, MildCalls, SeqClosed
  <2>6. ASSUME PlanTask /\ Head(Top.acts).task \notin enabled
        PROVE  ordinary
    <3>1. Return(Trigger(Top.id, Tail(Top.acts)))
      BY <2>6 DEF PlanTask
    <3>2. PICK acts : acts = Top.acts
      OBVIOUS
    <3>3. /\ Top.op = "trigger" /\ acts \in Seq(Action) /\ acts # <<>>
          /\ Tail(acts) \in Seq(Action)
          /\ LoneActions(acts) => LoneActions(Tail(acts))
      <4>1. Top.op = "trigger" /\ acts \in Seq(Action) /\ acts # <<>>
        BY <1>1, <2>6, <3>2, NumberFacts DEF PlanTask, On, Top
      <4>2. /\ Tail(acts) \in Seq(Action) /\ Len(Tail(acts)) = Len(acts) - 1
            /\ \A k \in 1..Len(Tail(acts)) : Tail(acts)[k] = acts[k + 1]
        BY <4>1, HeadTailProperties
      <4> QED BY <4>1, <4>2 DEF LoneActions
    <3>4. [op |-> "trigger", id |-> Top.id, ids |-> {}, acts |-> Tail(acts),
           mark |-> FALSE] \in MildFrame
      BY <1>1, <3>2, <3>3
         DEF MildFrame, QueuableFrame, CallFrame, FrameOp, Ends
    <3>5. Trigger(Top.id, Tail(acts)) \in Seq(MildFrame)
      BY <3>4, TriggerIn
    <3> QED BY <3>1, <3>2, <3>5
  <2>7. ASSUME CancelOrAbortEach /\ Top.op # "cancelEach"
        PROVE  ordinary
    <3>1. PICK j \in Top.ids :
            LET next == Loop(Top.op, Top.id, Top.ids \ {j})
            IN  \/ Return(<< Call("cancel", j) >> \o next)
                \/ Return(<< Call("abort", j) >> \o next)
                \/ Return(next)
      BY <2>7 DEF CancelOrAbortEach
    <3>2. Top.op \in {"abortEach", "abortHerd"}
      BY <2>7 DEF CancelOrAbortEach
    <3>3. /\ << Call("cancel", j) >> \in Seq(MildFrame)
          /\ << Call("abort", j) >> \in Seq(MildFrame)
      BY <1>1, <3>1, MildCalls, SeqClosed DEF FrameOp, Ends
    <3>4. Loop(Top.op, Top.id, Top.ids \ {j}) \in Seq(MildFrame)
      BY <1>1, <3>2, MildCalls DEF FrameOp, Ends
    <3> QED BY <3>1, <3>3, <3>4, SeqClosed
  <2> HIDE DEF ordinary
  <2>8. ordinary
    BY <1>3, <2>2, <2>3, <2>4, <2>5, <2>6, <2>7
  <2> QED BY <1>2, <2>1, <2>8
<1>4. CASE Queue
  <2>1. ordinary
    BY <1>4, MildCalls DEF Queue
  <2>2. Top \in QueuableFrame /\ Top.op = "queue" /\ queue' \subseteq queue \cup {Top.id}
    BY <1>1, <1>4, FrameFacts DEF StatusInv, HerdUnqueued, Queue, On, Top
  <2>3. \A j \in Created : j \in queue' =>
          j \in queue \/ IsHerder(j) \/ ~Unstarted(info[j].herdid)
    BY <2>2 DEF QueuableFrame
  <2>4. UNCHANGED <<info, start, stop, finish, success,
                    unfinishedHerdedTasks, cancelReplies>>
    BY <1>4 DEF Queue
  <2> HIDE DEF ordinary
  <2> QED BY <1>2, <2>1, <2>3, <2>4
<1> QED BY <1>3, <1>4

\* The loops on planned and on unstarted instances.
LEMMA MildEach ==
  ASSUME IndInv, CallsInv, StatusInv, NEW i \in Created,
         EnqueueOrCancelPlanned(i) \/ ReplaceTaskOrCancel(i)
  PROVE  StatusInv'
<1>1. /\ stack # <<>> /\ Top = stack[1]
      /\ Top.op \notin Ends \cup {"cancel", "cancelEach", "herded", "forget"}
      /\ Top.ids \in SUBSET Nat /\ i \in Nat
  <2>1. /\ stack # <<>>
        /\ Top.op \notin Ends \cup {"cancel", "cancelEach", "herded", "forget"}
    BY DEF EnqueueOrCancelPlanned, ReplaceTaskOrCancel, On, Top, Ends
  <2> QED BY <2>1, FrameFacts, TopFacts, NumberFacts
<1>2. UNCHANGED <<info, queue, start, stop, finish, success,
                  unfinishedHerdedTasks, cancelReplies>>
  BY DEF EnqueueOrCancelPlanned, ReplaceTaskOrCancel, instanceVars, indexVars
<1>3. << Call("cancel", i) >> \in Seq(MildFrame)
  BY <1>1, MildCalls, SeqClosed DEF FrameOp, Ends
<1>4. \E frames \in Seq(MildFrame) : Return(frames)
  <2>1. CASE EnqueueOrCancelPlanned(i)
    <3> DEFINE next == Loop("enqueueEach", 0,
                            Above(i, {j \in Top.ids : Status(j) = "Planned"}))
    <3>1. next \in Seq(MildFrame)
      BY <1>1, MildCalls DEF FrameOp, Ends, Above
    <3>2. \/ /\ ~(info[i].herdid \in unfinishedTasks
                  /\ Status(info[i].herdid) \in UnstartedStatus)
             /\ Return(<< Call("enqueue", i) >> \o next)
          \/ Return(<< Call("cancel", i) >> \o next) \/ Return(next)
      BY <2>1 DEF EnqueueOrCancelPlanned
    <3>3. ASSUME ~(info[i].herdid \in unfinishedTasks
                   /\ Status(info[i].herdid) \in UnstartedStatus)
          PROVE  << Call("enqueue", i) >> \in Seq(MildFrame)
      <4>1. PICK h : h = info[i].herdid
        OBVIOUS
      <4>2. h \in Created
        BY <4>1, StepFacts
      <4>3. Unstarted(h) => /\ h \in unfinishedTasks
                            /\ Status(h) \in UnstartedStatus
        BY <4>2 DEF Unstarted, CallsInv, Remembered, Status, UnstartedStatus
      <4> QED BY <1>1, <3>3, <4>1, <4>3, MildCalls, SeqClosed
    <3> HIDE DEF next
    <3> QED BY <1>3, <3>1, <3>2, <3>3, SeqClosed
  <2>2. CASE ReplaceTaskOrCancel(i)
    <3> DEFINE next == Loop("reload", 0,
                 Above(i, {j \in Top.ids : Status(j) \in UnstartedStatus}))
    <3>1. next \in Seq(MildFrame)
      BY <1>1, MildCalls DEF FrameOp, Ends, Above
    <3>2. Return(<< Call("cancel", i) >> \o next) \/ Return(next)
      BY <2>2 DEF ReplaceTaskOrCancel
    <3> HIDE DEF next
    <3> QED BY <1>3, <3>1, <3>2, SeqClosed
  <2> QED BY <2>1, <2>2
<1> QED BY <1>1, <1>2, <1>4, ReturnPushes, MildStep

\* What is known of a call, and of a herder that calls below it cancel.
LEMMA TopCall ==
  ASSUME IndInv, CallsInv, stack # <<>>
  PROVE  /\ Top = stack[1] /\ 1 \in DOMAIN stack
         /\ Top \in CallFrame /\ Top.id \in Nat /\ Top.mark \in BOOLEAN
         /\ Top.op \notin Loops \cup {"trigger"} =>
              /\ Top.id \in Created /\ Top.id \in Ids
              /\ info[Top.id].herdid \in Created
         /\ Rest = Tail(stack)
BY TopFacts, FrameFacts, StepFacts DEF KnownFrame

\* A herder that calls below the top cancel has an instance of its herd to cancel
\* first; the call on top plans nothing in that herd.
LEMMA Canceled ==
  ASSUME IndInv, CallsInv, StatusInv, NEW i \in Created, Cancels(i)
  PROVE  /\ stack # <<>> /\ stack[1] \notin PlanningFrame(i)
         /\ IsHerder(i) /\ Unstarted(i) /\ i \in unfinishedTasks
         /\ \A j \in unfinishedHerdedTasks[i] :
              /\ j \in Created /\ j # i /\ info[j].herdid = i /\ ~IsHerder(j)
              /\ j \notin queue \cup start /\ j \in unfinishedHerds[i]
<1>1. PICK n \in DOMAIN stack : n > 1 /\ stack[n] \in CancelingFrame(i)
  BY DEF Cancels
<1>2. stack # <<>> /\ 1 \in 1..(n - 1)
  <2>1. n \in Nat
    BY StackFrames
  <2> QED BY <1>1, <2>1, Concats
<1>3. stack[1] \notin PlanningFrame(i)
  BY <1>1, <1>2 DEF StatusInv, CancelingHerd
<1>4. IsHerder(i) /\ Unstarted(i)
  BY <1>1 DEF CancelingFrame
<1>5. i \in unfinishedTasks
  BY <1>4 DEF CallsInv, Remembered, Unstarted
<1>6. \A j \in unfinishedHerdedTasks[i] :
        /\ j \in Created /\ j # i /\ info[j].herdid = i /\ ~IsHerder(j)
        /\ j \in unfinishedHerds[i]
  BY StepFacts DEF CallsInv, Herds, IsHerder
<1>7. \A j \in unfinishedHerdedTasks[i] : j \notin queue \cup start
  BY <1>4, <1>6 DEF StatusInv, HerdUnqueued
<1> QED BY <1>2, <1>3, <1>4, <1>5, <1>6, <1>7

\* Canceling an instance, after its herd if it has one.
LEMMA StatusCancel ==
  ASSUME IndInv, CallsInv, StatusInv, DoCancelTaskInstance
  PROVE  StatusInv'
<1>1. PICK i, f, g :
        /\ i = Top.id /\ g = Call("stopped", i)
        /\ f = [op |-> "cancelEach", id |-> i, ids |-> HerdedTasks(i),
                acts |-> <<>>, mark |-> FALSE]
  OBVIOUS
<1>2. /\ stack # <<>> /\ stack[1] = Top /\ stack[1].op = "cancel" /\ Top.id = i
      /\ i \in Created /\ i \in Nat /\ i \in Ids
      /\ stack = <<>> \/ stack[1].op \notin {"herded", "forget"}
  BY <1>1, TopCall DEF DoCancelTaskInstance, On, Top, Loops
<1>3. /\ UNCHANGED <<info, queue, start, stop, finish, success,
                     unfinishedHerds, unfinishedHerdedTasks>>
      /\ \/ /\ Status(i) \in UnstartedStatus
            /\ cancelReplies' = cancelReplies \cup {i}
            /\ HerdedTasks(i) = {} => Return(<<>> \o << g >>)
            /\ HerdedTasks(i) # {} => Return(<< f >> \o << g >>)
         \/ /\ Status(i) \notin UnstartedStatus
            /\ Return(<<>>) /\ UNCHANGED cancelReplies
  BY <1>1 DEF DoCancelTaskInstance, Loop, instanceVars, indexVars
<1>4. Created' = Created /\ Advances
  BY <1>3 DEF Created, Advances
<1>5. \A h \in Created, j \in finish :
        Unstarted(h) => j \notin unfinishedHerdedTasks[h]
  BY <1>2, NoneAwaited
<1>6. HerdedFinish'
  BY <1>3, <1>4, <1>5 DEF HerdedFinish, Unstarted
<1>7. /\ f \in CallFrame /\ g \in CallFrame
      /\ ~f.mark /\ f.op = "cancelEach" /\ f.id = i /\ f.ids = HerdedTasks(i)
      /\ ~g.mark /\ g.op = "stopped" /\ g.id = i
  BY <1>1, <1>2, HerdFacts, SeqClosed DEF Call, CallMark, CallFrame, FrameOp
<1>8. \A h : /\ f \notin CancelingFrame(h)' /\ f \notin PlanningFrame(h)'
             /\ g \notin PlanningFrame(h)'
             /\ g \in CancelingFrame(h)' => h = i /\ Unstarted(i) /\ IsHerder(i)
  BY <1>2, <1>3, <1>7
     DEF CancelingFrame, PlanningFrame, Unstarted, IsHerder
<1>9. /\ f \in QueuableFrame' /\ f \notin HerdedEnd'
      /\ g \in QueuableFrame' /\ g \notin HerdedEnd'
  BY <1>7 DEF QueuableFrame, HerdedEnd
<1>10. \A h, j : /\ stack[1] \in AttendingFrame(h, j) => j = i
                 /\ j \in HerdedTasks(i) => f \in AttendingFrame(i, j)
                 /\ g \in AttendingFrame(h, i)
  BY <1>2, <1>7 DEF AttendingFrame
<1>11. success' \subseteq start' /\ stack[1].op \notin Ends
  BY <1>2, <1>3 DEF StatusInv, Ends
<1>12. CASE Status(i) \notin UnstartedStatus
  <2>1. i \in start \cup finish
    BY <1>12 DEF Status, UnstartedStatus, CallsInv, Timestamps
  <2>2. \A h \in Created : Cancels(h) => i \notin unfinishedHerdedTasks[h]
    BY <1>5, <2>1, Canceled
  <2>3. <<>> \in Seq(CallFrame) /\ Pushes(<<>>) /\ DOMAIN <<>> = {}
    BY <1>2, <1>3, <1>12, ReturnPushes, SeqClosed, Concats
  <2>4. \A j \in cancelReplies' : j \notin start' /\ j \in cancelReplies
    BY <1>3, <1>12 DEF StatusInv, CanceledEnd
  <2> QED BY <1>3, <1>4, <1>6, <1>10, <1>11, <2>2, <2>3, <2>4, StatusKept
<1>13. CASE Status(i) \in UnstartedStatus
  <2>1. /\ cancelReplies' = cancelReplies \cup {i} /\ i \notin start
        /\ \A j \in cancelReplies : j \notin start
    BY <1>3, <1>13 DEF Status, UnstartedStatus, StatusInv, CanceledEnd
  <2>2. Unstarted(i) => unfinishedHerdedTasks[i] \subseteq HerdedTasks(i)
    BY <1>2, <1>5, StepFacts
       DEF HerdedTasks, CallsInv, Herds, Remembered
  <2>3. CASE HerdedTasks(i) = {}
    <3>1. Return(<<>> \o << g >>)
      BY <1>3, <1>13, <2>3
    <3>2. PICK frames : frames = << g >>
      OBVIOUS
    <3>3. /\ frames \in Seq(CallFrame) /\ Pushes(frames)
          /\ DOMAIN frames = {1} /\ frames[1] = g
      BY <1>2, <1>7, <3>1, <3>2, ReturnPushes, SeqClosed, Concats
    <3>4. \A k \in DOMAIN frames, h \in Created' :
            frames[k] \in CancelingFrame(h)' =>
              /\ \A m \in 1..(k - 1) : frames[m] \notin PlanningFrame(h)'
              /\ \A j \in unfinishedHerdedTasks'[h] :
                   \E m \in 1..(k - 1) : frames[m] \in AttendingFrame(h, j)
      BY <1>3, <1>8, <2>2, <2>3, <3>3
    <3> HIDE <1>1, <3>2
    <3> QED BY <1>3, <1>4, <1>6, <1>7, <1>8, <1>9, <1>10, <1>11, <2>1, <2>3,
               <3>3, <3>4, StatusKept DEF Ends
  <2>4. CASE HerdedTasks(i) # {}
    <3>1. Return(<< f, g >>)
      <4>1. << f >> \o << g >> = << f, g >>
        BY Concats
      <4> QED BY <1>3, <1>13, <2>4, <4>1
    <3>2. PICK frames : frames = << f, g >>
      OBVIOUS
    <3>3. /\ frames \in Seq(CallFrame) /\ Pushes(frames)
          /\ \A k \in DOMAIN frames : \/ k = 1 /\ frames[k] = f
                                      \/ k = 2 /\ frames[k] = g
          /\ 1 \in DOMAIN frames /\ 2 \in DOMAIN frames
          /\ frames[1] = f /\ frames[2] = g
      BY <1>2, <1>7, <3>1, <3>2, ReturnPushes, SeqClosed, Concats
    <3>4. \A k \in DOMAIN frames, h \in Created' :
            frames[k] \in CancelingFrame(h)' =>
              /\ \A m \in 1..(k - 1) : frames[m] \notin PlanningFrame(h)'
              /\ \A j \in unfinishedHerdedTasks'[h] :
                   \E m \in 1..(k - 1) : frames[m] \in AttendingFrame(h, j)
      <4> SUFFICES ASSUME NEW k \in DOMAIN frames, NEW h \in Created',
                          frames[k] \in CancelingFrame(h)'
                   PROVE  /\ \A m \in 1..(k - 1) :
                               frames[m] \notin PlanningFrame(h)'
                          /\ \A j \in unfinishedHerdedTasks'[h] :
                               \E m \in 1..(k - 1) :
                                 frames[m] \in AttendingFrame(h, j)
        OBVIOUS
      <4>1. k = 2 /\ h = i /\ Unstarted(i)
        BY <1>8, <3>3
      <4>2. 1..(k - 1) = {1}
        BY <4>1
      <4> QED BY <1>3, <1>8, <1>10, <2>2, <3>3, <4>1, <4>2
    <3> HIDE <1>1, <3>2
    <3> QED BY <1>3, <1>4, <1>6, <1>7, <1>8, <1>9, <1>10, <1>11, <2>1, <3>3,
               <3>4, StatusKept DEF Ends
  <2> QED BY <2>3, <2>4
<1> QED BY <1>12, <1>13

\* Going to the next instance of a herd to cancel.
LEMMA StatusCancelEach ==
  ASSUME IndInv, CallsInv, StatusInv, CancelOrAbortEach, Top.op = "cancelEach"
  PROVE  StatusInv'
<1>1. PICK j \in Top.ids :
        Return(<< Call("cancel", j) >> \o Loop("cancelEach", Top.id, Top.ids \ {j}))
  BY DEF CancelOrAbortEach
<1>2. PICK c, f, S : /\ c = Call("cancel", j) /\ S = Top.ids \ {j}
                     /\ f = [op |-> "cancelEach", id |-> Top.id, ids |-> S,
                             acts |-> <<>>, mark |-> FALSE]
  OBVIOUS
<1>3. /\ stack # <<>> /\ stack[1] = Top /\ stack[1].op = "cancelEach"
      /\ Top.ids \in SUBSET Nat /\ Top.id \in Nat /\ j \in Nat
  BY TopCall, NumberFacts DEF CancelOrAbortEach, CallFrame
<1>4. UNCHANGED <<info, queue, start, stop, finish, success,
                  unfinishedHerdedTasks, cancelReplies>>
  BY DEF CancelOrAbortEach, instanceVars, indexVars
<1>5. Created' = Created /\ Advances
  BY <1>4 DEF Created, Advances
<1>6. HerdedFinish'
  BY <1>3, <1>4, <1>5, NoneAwaited DEF HerdedFinish, Unstarted
<1>7. /\ c \in CallFrame /\ f \in CallFrame
      /\ c.op = "cancel" /\ c.id = j /\ ~c.mark
      /\ f.op = "cancelEach" /\ f.id = Top.id /\ f.ids = S /\ ~f.mark
  BY <1>2, <1>3, SeqClosed DEF Call, CallMark, CallFrame, FrameOp
<1>8. \A g \in {c, f} : /\ ~g.mark /\ g \in QueuableFrame' /\ g \notin HerdedEnd'
                        /\ g \in CallFrame
                        /\ \A h : /\ g \notin CancelingFrame(h)'
                                  /\ g \notin PlanningFrame(h)'
  BY <1>7 DEF QueuableFrame, HerdedEnd, CancelingFrame, PlanningFrame
<1>9. \A h, l : stack[1] \in AttendingFrame(h, l) =>
        \/ l = j /\ c \in AttendingFrame(h, l)
        \/ S # {} /\ f \in AttendingFrame(h, l)
  BY <1>2, <1>3, <1>7 DEF AttendingFrame
<1>10. /\ success' \subseteq start' /\ stack[1].op \notin Ends
       /\ \A i \in cancelReplies' : i \notin start' /\ i \in cancelReplies
  BY <1>3, <1>4 DEF StatusInv, CanceledEnd, Ends
<1>11. PICK frames \in Seq({c, f}) :
         /\ Pushes(frames)
         /\ 1 \in DOMAIN frames /\ frames[1] = c
         /\ S # {} => 2 \in DOMAIN frames /\ frames[2] = f
  <2>1. CASE S = {}
    <3>1. << c >> \o <<>> = << c >> /\ Loop("cancelEach", Top.id, S) = <<>>
      BY <2>1, Concats DEF Loop
    <3>2. Pushes(<< c >>)
      BY <1>1, <1>2, <1>3, <3>1, ReturnPushes
    <3> QED BY <2>1, <3>2, Concats, SeqClosed
  <2>2. CASE S # {}
    <3>1. << c >> \o << f >> = << c, f >>
      BY Concats
    <3>2. Loop("cancelEach", Top.id, S) = << f >>
      BY <1>2, <2>2 DEF Loop
    <3>3. Pushes(<< c, f >>)
      BY <1>1, <1>2, <1>3, <3>1, <3>2, ReturnPushes
    <3>4. << c, f >> \in Seq({c, f}) /\ DOMAIN << c, f >> = {1, 2}
          /\ << c, f >>[1] = c /\ << c, f >>[2] = f
      BY Concats, SeqClosed
    <3>5. PICK frames : frames = << c, f >>
      OBVIOUS
    <3>6. frames \in Seq({c, f}) /\ Pushes(frames) /\ 1 \in DOMAIN frames
          /\ 2 \in DOMAIN frames /\ frames[1] = c /\ frames[2] = f
      BY <3>3, <3>4, <3>5
    <3> QED BY <3>6
  <2> QED BY <2>1, <2>2
<1>12. frames \in Seq(CallFrame) /\ \A k \in DOMAIN frames : frames[k] \in {c, f}
  <2>1. {c, f} \subseteq CallFrame
    BY <1>7
  <2> QED BY <2>1, SeqMonotonic
<1> HIDE <1>1, <1>2
<1> QED BY <1>4, <1>5, <1>6, <1>8, <1>9, <1>10, <1>11, <1>12, StatusKept

\* The actions of an instance that was not started plan in no herd.
LEMMA LoneFailure ==
  ASSUME IndInv, FailureLone, success \subseteq start, NEW i \in Created,
         i \notin start
  PROVE  LoneActions(FinishActions(i))
<1>1. PICK t : t = TaskOf(i)
  OBVIOUS
<1>2. /\ LoneActions(t.onfailure) /\ LoneActions(t.onnostderr)
      /\ t.onfailure \in Seq(Action) /\ t.onnostderr \in Seq(Action)
  <2>1. t \in TaskConfig /\ info[i].task \in Tasks /\ config \in Configs
    BY <1>1, StepFacts DEF TypeOK
  <2> QED BY <1>1, <2>1 DEF FailureLone, TaskOf, Task, TaskConfig
<1>3. FinishActions(i) = t.onfailure \o (IF i \in stderr THEN <<>> ELSE t.onnostderr)
  BY <1>1 DEF FinishActions
<1>4. PICK s : s = IF i \in stderr THEN <<>> ELSE t.onnostderr
  OBVIOUS
<1>5. s \in Seq(Action) /\ LoneActions(s)
  BY <1>2, <1>4, EmptySeq DEF LoneActions
<1>6. LoneActions(t.onfailure \o s)
  BY <1>2, <1>5, LoneConcat
<1> QED BY <1>3, <1>4, <1>6

\* An instance that stops or is canceled: a herder triggers its actions first.
LEMMA StatusStopped ==
  ASSUME IndInv, CallsInv, StatusInv, FailureLone, TaskInstanceStoppedOrCanceled
  PROVE  StatusInv'
<1>1. PICK i, t, g, c, e :
        /\ i = Top.id
        /\ t = [op |-> "trigger", id |-> i, ids |-> {}, acts |-> FinishActions(i),
                mark |-> FALSE]
        /\ g = CallMark("settle", i, Top.mark)
        /\ c = CallMark("finish", i, Top.mark) /\ e = Call("herded", i)
  OBVIOUS
<1>2. /\ stack # <<>> /\ stack[1] = Top /\ Top.op = "stopped" /\ Top.id = i
      /\ i \in Created /\ i \in Nat /\ Top.mark \in BOOLEAN /\ Top \in CallFrame
      /\ 1 \in DOMAIN stack
  BY <1>1, TopCall DEF TaskInstanceStoppedOrCanceled, On, Top, Loops
<1>3. /\ UNCHANGED <<info, queue, start, stop, finish, success, stderr, config,
                     unfinishedHerdedTasks, cancelReplies>>
      /\ IF IsHerder(i)
         THEN \/ Return(<<>> \o << g >>)
              \/ Status(i) # "Canceled" /\ FinishActions(i) # <<>>
                 /\ Return(<< t >> \o << g >>)
         ELSE Return(<< c, e >>)
  BY <1>1 DEF TaskInstanceStoppedOrCanceled, Trigger, instanceVars, indexVars,
              settingVars
<1>4. Created' = Created /\ Advances
  BY <1>3 DEF Created, Advances
<1>5. HerdedFinish'
  BY <1>2, <1>3, <1>4, NoneAwaited DEF HerdedFinish, Unstarted
<1>6. /\ t \in CallFrame /\ g \in CallFrame /\ c \in CallFrame /\ e \in CallFrame
      /\ ~t.mark /\ t.op = "trigger" /\ t.id = i /\ t.acts = FinishActions(i)
      /\ g.mark = Top.mark /\ g.op = "settle" /\ g.id = i
      /\ c.mark = Top.mark /\ c.op = "finish" /\ c.id = i
      /\ ~e.mark /\ e.op = "herded" /\ e.id = i
  BY <1>1, <1>2, FinishPlain, SeqClosed DEF Call, CallMark, CallFrame, FrameOp
<1>7. Top.mark => Top \in MarkedFrame
  BY <1>2 DEF StatusInv, Marks
<1>8. Top.mark => g \in MarkedFrame' /\ c \in MarkedFrame'
  BY <1>2, <1>3, <1>6, <1>7 DEF MarkedFrame, Ends, Status
<1>9. IsHerder(i) /\ Top.mark => FinishActions(i) = <<>>
  BY <1>2, <1>7 DEF MarkedFrame
<1>10. ASSUME IsHerder(i), NEW h \in Created, Unstarted(h)
       PROVE  t \notin PlanningFrame(h)'
  <2>1. t \in PlanningFrame(h)' => info[i].herdid = h
                                   /\ ~LoneActions(FinishActions(i))
    BY <1>3, <1>6 DEF PlanningFrame
  <2>2. info[i].herdid = h => LoneActions(FinishActions(i))
    BY <1>2, <1>10, LoneFailure DEF StatusInv, Unstarted, IsHerder
  <2> QED BY <2>1, <2>2
<1>11. ASSUME NEW h \in Created, g \in CancelingFrame(h)'
       PROVE  h = i /\ Unstarted(i) /\ unfinishedHerdedTasks'[i] = {}
  <2>1. h = i /\ Unstarted(i) /\ IsHerder(i) /\ ~Top.mark
    BY <1>3, <1>6, <1>11 DEF CancelingFrame, Unstarted, IsHerder
  <2>2. stack[1] \in CancelingFrame(i)
    BY <1>2, <2>1 DEF CancelingFrame
  <2>3. \A j \in unfinishedHerdedTasks[i] : \E m \in 1..(1 - 1) : TRUE
    BY <1>2, <2>2 DEF StatusInv, CancelingHerd
  <2>4. 1..(1 - 1) = {}
    OBVIOUS
  <2> QED BY <1>3, <2>1, <2>3, <2>4
<1>12. /\ t \in QueuableFrame' /\ g \in QueuableFrame'
       /\ c \in QueuableFrame' /\ e \in QueuableFrame'
       /\ t \notin HerdedEnd' /\ g \notin HerdedEnd' /\ e \notin HerdedEnd'
       /\ \A h : /\ t \notin CancelingFrame(h)' /\ c \notin CancelingFrame(h)'
                 /\ e \notin CancelingFrame(h)'
                 /\ g \notin PlanningFrame(h)' /\ c \notin PlanningFrame(h)'
                 /\ e \notin PlanningFrame(h)'
  BY <1>6 DEF QueuableFrame, HerdedEnd, CancelingFrame, PlanningFrame
<1>13. \A h, j : stack[1] \in AttendingFrame(h, j) =>
         j = i /\ e \in AttendingFrame(h, i)
  BY <1>2, <1>6 DEF AttendingFrame
<1>14. \A h \in Created : Cancels(h) =>
         Unstarted(h) /\ (i \in unfinishedHerdedTasks[h] => ~IsHerder(i))
  BY Canceled
<1>15. /\ success' \subseteq start'
       /\ \A j \in cancelReplies' : j \notin start' /\ j \in cancelReplies
  BY <1>3 DEF StatusInv, CanceledEnd
<1> HIDE <1>1
<1>16. CASE ~IsHerder(i)
  <2>1. PICK frames : frames = << c, e >>
    OBVIOUS
  <2>2. /\ frames \in Seq(CallFrame) /\ Pushes(frames) /\ DOMAIN frames = {1, 2}
        /\ frames[1] = c /\ frames[2] = e
    BY <1>2, <1>3, <1>6, <1>16, <2>1, ReturnPushes, SeqClosed, Concats
  <2>3. \A k \in DOMAIN frames :
          /\ frames[k].mark => k = 1 /\ frames[k] \in MarkedFrame'
          /\ frames[k] \in QueuableFrame'
          /\ frames[k] \in HerdedEnd' =>
               /\ k + 1 \in DOMAIN frames /\ frames[k + 1].op = "herded"
               /\ frames[k + 1].id = frames[k].id
    BY <1>6, <1>8, <1>12, <2>2
  <2>4. \E k \in DOMAIN frames : frames[k].op \in Ends /\ frames[k].id = i
    BY <1>6, <2>2 DEF Ends
  <2> HIDE <2>1
  <2> QED BY <1>2, <1>3, <1>4, <1>5, <1>12, <1>13, <1>15, <2>2, <2>3, <2>4,
             StatusKept
<1>17. CASE IsHerder(i) /\ Return(<<>> \o << g >>)
  <2>1. PICK frames : frames = << g >>
    OBVIOUS
  <2>2. /\ frames \in Seq(CallFrame) /\ Pushes(frames) /\ DOMAIN frames = {1}
        /\ frames[1] = g
    BY <1>2, <1>6, <1>17, <2>1, ReturnPushes, SeqClosed, Concats
  <2>3. \A k \in DOMAIN frames :
          /\ frames[k].mark => k = 1 /\ frames[k] \in MarkedFrame'
          /\ frames[k] \in QueuableFrame' /\ frames[k] \notin HerdedEnd'
    BY <1>6, <1>8, <1>12, <2>2
  <2>4. \E k \in DOMAIN frames : frames[k].op \in Ends /\ frames[k].id = i
    BY <1>6, <2>2 DEF Ends
  <2>5. \A k \in DOMAIN frames, h \in Created' :
          frames[k] \in CancelingFrame(h)' =>
            /\ \A m \in 1..(k - 1) : frames[m] \notin PlanningFrame(h)'
            /\ \A j \in unfinishedHerdedTasks'[h] :
                 \E m \in 1..(k - 1) : frames[m] \in AttendingFrame(h, j)
    BY <1>4, <1>11, <2>2
  <2> HIDE <2>1
  <2> QED BY <1>2, <1>3, <1>4, <1>5, <1>12, <1>13, <1>14, <1>15, <1>17, <2>2,
             <2>3, <2>4, <2>5, StatusKept
<1>18. CASE IsHerder(i) /\ FinishActions(i) # <<>> /\ Return(<< t >> \o << g >>)
  <2>1. PICK frames : frames = << t, g >>
    OBVIOUS
  <2>2. Pushes(frames)
    <3>1. << t >> \o << g >> = << t, g >>
      BY Concats
    <3> QED BY <1>2, <1>18, <2>1, <3>1, ReturnPushes
  <2>3. /\ frames \in Seq(CallFrame) /\ DOMAIN frames = {1, 2}
        /\ frames[1] = t /\ frames[2] = g /\ ~Top.mark
    BY <1>6, <1>9, <1>18, <2>1, SeqClosed, Concats
  <2>4. \A k \in DOMAIN frames :
          /\ ~frames[k].mark
          /\ frames[k] \in QueuableFrame' /\ frames[k] \notin HerdedEnd'
    BY <1>6, <1>12, <2>3
  <2>5. \E k \in DOMAIN frames : frames[k].op \in Ends /\ frames[k].id = i
    BY <1>6, <2>3 DEF Ends
  <2>6. \A k \in DOMAIN frames, h \in Created' :
          frames[k] \in CancelingFrame(h)' =>
            /\ \A m \in 1..(k - 1) : frames[m] \notin PlanningFrame(h)'
            /\ \A j \in unfinishedHerdedTasks'[h] :
                 \E m \in 1..(k - 1) : frames[m] \in AttendingFrame(h, j)
    <3> SUFFICES ASSUME NEW k \in DOMAIN frames, NEW h \in Created',
                        frames[k] \in CancelingFrame(h)'
                 PROVE  /\ \A m \in 1..(k - 1) : frames[m] \notin PlanningFrame(h)'
                        /\ unfinishedHerdedTasks'[h] = {}
      OBVIOUS
    <3>1. k = 2 /\ frames[k] = g /\ h \in Created
      BY <1>4, <1>12, <2>3
    <3>2. h = i /\ Unstarted(i) /\ unfinishedHerdedTasks'[i] = {}
      BY <1>11, <3>1
    <3>3. t \notin PlanningFrame(h)' /\ 1..(k - 1) = {1}
      BY <1>10, <1>18, <3>1, <3>2
    <3> QED BY <2>3, <3>2, <3>3
  <2>7. \A h \in Created : Cancels(h) =>
          \A k \in DOMAIN frames : frames[k] \notin PlanningFrame(h)'
    BY <1>10, <1>12, <1>14, <1>18, <2>3
  <2> HIDE <2>1
  <2> QED BY <1>2, <1>3, <1>4, <1>5, <1>13, <1>14, <1>15, <1>18, <2>2, <2>3,
             <2>4, <2>5, <2>6, <2>7, StatusKept
<1> QED BY <1>3, <1>16, <1>17, <1>18

\* A herder that stops or is canceled finishes, or waits for its herd.
LEMMA StatusSettle ==
  ASSUME IndInv, CallsInv, StatusInv, Settle
  PROVE  StatusInv'
<1>1. PICK i, c : i = Top.id /\ c = CallMark("finish", i, Top.mark)
  OBVIOUS
<1>2. /\ stack # <<>> /\ stack[1] = Top /\ Top.op = "settle" /\ Top.id = i
      /\ i \in Created /\ i \in Nat /\ Top.mark \in BOOLEAN /\ Top \in CallFrame
      /\ 1 \in DOMAIN stack /\ IsHerder(i)
  BY <1>1, TopCall, TopFacts DEF Settle, On, Top, Loops
<1>3. /\ UNCHANGED <<info, queue, start, stop, finish, success, stderr, config,
                     unfinishedHerdedTasks, cancelReplies>>
      /\ \/ Return(<< c >>)
         \/ /\ Status(i) # "Canceled" /\ unfinishedHerdedTasks[i] # {}
            /\ Return(<<>>)
  BY <1>1 DEF Settle, instanceVars, settingVars
<1>4. Created' = Created /\ Advances
  BY <1>3 DEF Created, Advances
<1>5. HerdedFinish'
  BY <1>2, <1>3, <1>4, NoneAwaited DEF HerdedFinish, Unstarted
<1>6. c \in CallFrame /\ c.mark = Top.mark /\ c.op = "finish" /\ c.id = i
  BY <1>1, <1>2, SeqClosed DEF CallMark, CallFrame, FrameOp
<1>7. Top.mark => Top \in MarkedFrame
  BY <1>2 DEF StatusInv, Marks
<1>8. Top.mark => c \in MarkedFrame'
  BY <1>2, <1>3, <1>6, <1>7 DEF MarkedFrame, Ends, Status
<1>9. /\ c \in QueuableFrame' /\ c \notin HerdedEnd'
      /\ \A h : c \notin CancelingFrame(h)' /\ c \notin PlanningFrame(h)'
  BY <1>2, <1>3, <1>6
     DEF QueuableFrame, HerdedEnd, CancelingFrame, PlanningFrame, IsHerder
<1>10. \A h, j : stack[1] \notin AttendingFrame(h, j)
  BY <1>2 DEF AttendingFrame
<1>11. /\ success' \subseteq start'
       /\ \A j \in cancelReplies' : j \notin start' /\ j \in cancelReplies
  BY <1>3 DEF StatusInv, CanceledEnd
<1> HIDE <1>1
<1>12. CASE Return(<< c >>)
  <2>1. PICK frames : frames = << c >>
    OBVIOUS
  <2>2. /\ frames \in Seq(CallFrame) /\ Pushes(frames) /\ DOMAIN frames = {1}
        /\ frames[1] = c
    BY <1>2, <1>6, <1>12, <2>1, ReturnPushes, SeqClosed, Concats
  <2> HIDE <2>1
  <2> QED BY <1>2, <1>3, <1>4, <1>5, <1>6, <1>8, <1>9, <1>10, <1>11, <2>2,
             StatusKept DEF Ends
<1>13. CASE /\ Status(i) # "Canceled" /\ unfinishedHerdedTasks[i] # {}
            /\ Return(<<>>)
  <2>1. <<>> \in Seq(CallFrame) /\ Pushes(<<>>) /\ DOMAIN <<>> = {}
    BY <1>2, <1>13, ReturnPushes, SeqClosed, Concats
  <2>2. i \in cancelReplies => i \in finish
    <3> SUFFICES ASSUME i \in cancelReplies, i \notin finish PROVE FALSE
      OBVIOUS
    <3>1. Unstarted(i) /\ ~Top.mark
      BY <1>2, <1>7 DEF StatusInv, CanceledEnd, Unstarted, CallsInv, Timestamps,
                        MarkedFrame
    <3>2. stack[1] \in CancelingFrame(i)
      BY <1>2, <3>1 DEF CancelingFrame
    <3>3. \A j \in unfinishedHerdedTasks[i] : \E m \in 1..(1 - 1) : TRUE
      BY <1>2, <3>2 DEF StatusInv, CancelingHerd
    <3>4. 1..(1 - 1) = {}
      OBVIOUS
    <3> QED BY <1>13, <3>3, <3>4
  <2> QED BY <1>2, <1>3, <1>4, <1>5, <1>10, <1>11, <2>1, <2>2, StatusKept
<1> QED BY <1>3, <1>12, <1>13

\* Where the second call goes to.
LEMMA SecondCall ==
  ASSUME IndInv, CallsInv, NEW frames \in Seq(CallFrame), Pushes(frames),
         2 \in DOMAIN stack
  PROVE  /\ 1 + Len(frames) \in DOMAIN stack'
         /\ stack'[1 + Len(frames)] = stack[2]
<1>1. PICK n : n = 2
  OBVIOUS
<1>2. n \in DOMAIN stack /\ n > 1
  BY <1>1
<1>3. /\ n - 1 + Len(frames) \in DOMAIN stack'
      /\ stack'[n - 1 + Len(frames)] = stack[n] /\ Len(frames) \in Nat
  BY <1>2, StackFrames, Shift
<1>4. n - 1 + Len(frames) = 1 + Len(frames)
  BY <1>1, <1>3
<1> QED BY <1>1, <1>3, <1>4

\* An instance that finishes: its herder is told next.
LEMMA StatusFinish ==
  ASSUME IndInv, CallsInv, StatusInv, TaskInstanceFinishedOrCanceled
  PROVE  StatusInv'
<1>1. PICK i, t, f :
        /\ i = Top.id /\ f = Call("forget", i)
        /\ t = [op |-> "trigger", id |-> i, ids |-> {}, acts |-> FinishActions(i),
                mark |-> FALSE]
  OBVIOUS
<1>2. /\ stack # <<>> /\ stack[1] = Top /\ Top.op = "finish" /\ Top.id = i
      /\ i \in Created /\ i \in Nat /\ Top \in CallFrame /\ 1 \in DOMAIN stack
      /\ Top.mark \in BOOLEAN
  BY <1>1, TopCall DEF TaskInstanceFinishedOrCanceled, On, Top, Loops
<1>3. /\ UNCHANGED <<info, queue, unfinishedHerdedTasks, cancelReplies>>
      /\ finish' = finish \cup {i}
      /\ \/ /\ i \notin start /\ success' = success \ {i} /\ stop' = stop \cup {i}
            /\ start' = IF Top.mark THEN start \cup {i} ELSE start
            /\ Return(<<>> \o << f >>)
         \/ /\ i \in start /\ UNCHANGED <<start, stop>>
            /\ success' \subseteq success \cup {i}
            /\ \/ Return(<<>> \o << f >>)
               \/ ~IsHerder(i) /\ Return(<< t >> \o << f >>)
  <2>1. <<>> \o << f >> = << f >>
    BY Concats
  <2> QED BY <1>1, <2>1
          DEF TaskInstanceFinishedOrCanceled, Trigger, indexVars
<1>4. Created' = Created /\ Advances
  BY <1>3 DEF Created, Advances
<1>5. /\ t \in CallFrame /\ f \in CallFrame
      /\ ~t.mark /\ t.op = "trigger" /\ t.id = i
      /\ ~f.mark /\ f.op = "forget" /\ f.id = i
  BY <1>1, <1>2, FinishPlain, SeqClosed DEF Call, CallMark, CallFrame, FrameOp
<1>6. Top.mark => i \in queue /\ i \notin start /\ i \notin cancelReplies
  BY <1>2 DEF StatusInv, Marks, MarkedFrame, Status
<1>7. /\ t \in QueuableFrame' /\ f \in QueuableFrame'
      /\ t \notin HerdedEnd' /\ f \notin HerdedEnd'
      /\ \A h : /\ t \notin CancelingFrame(h)' /\ f \notin CancelingFrame(h)'
                /\ f \notin PlanningFrame(h)'
  BY <1>5 DEF QueuableFrame, HerdedEnd, CancelingFrame, PlanningFrame
<1>8. ASSUME i \in start, ~IsHerder(i), NEW h \in Created, Unstarted(h)
      PROVE  t \notin PlanningFrame(h)'
  <2>1. ~Unstarted(info[i].herdid)
    BY <1>2, <1>8 DEF StatusInv, HerdUnqueued
  <2> QED BY <1>3, <1>5, <1>8, <2>1 DEF PlanningFrame
<1>9. \A h, j : stack[1] \notin AttendingFrame(h, j)
  BY <1>2 DEF AttendingFrame
<1>10. /\ success' \subseteq start'
       /\ \A j \in cancelReplies' : j \notin start' /\ j \in cancelReplies
       /\ \A j \in Created : j \in queue' \cup start' => j \in queue \cup start
  BY <1>3, <1>6 DEF StatusInv, CanceledEnd
<1>11. \A h \in Created : Cancels(h) => Unstarted(h)
  BY Canceled
<1>12. ASSUME NEW h \in Created, Unstarted(h)', i \in unfinishedHerdedTasks[h]
       PROVE  /\ Return(<<>> \o << f >>)
              /\ 2 \in DOMAIN stack /\ stack[2].op = "herded" /\ stack[2].id = i
  <2>1. info[i].herdid = h /\ i # h /\ Unstarted(h)
    BY <1>3, <1>12, StepFacts DEF CallsInv, Herds, Unstarted
  <2>2. ~IsHerder(i) /\ i \notin start
    BY <1>2, <2>1 DEF StatusInv, HerdUnqueued, IsHerder
  <2>3. stack[1] \in HerdedEnd
    BY <1>2, <2>2 DEF HerdedEnd
  <2> QED BY <1>2, <1>3, <2>2, <2>3 DEF StatusInv, Follows
<1> HIDE <1>1
<1>13. \A h \in Created, j \in finish :
         Unstarted(h) => j \notin unfinishedHerdedTasks[h]
  BY <1>2, NoneAwaited
<1>14. CASE Return(<<>> \o << f >>)
  <2>1. PICK frames : frames = << f >>
    OBVIOUS
  <2>2. /\ frames \in Seq(CallFrame) /\ Pushes(frames) /\ DOMAIN frames = {1}
        /\ frames[1] = f /\ Len(frames) = 1
    BY <1>2, <1>5, <1>14, <2>1, ReturnPushes, SeqClosed, Concats
  <2>3. HerdedFinish'
    <3> SUFFICES ASSUME NEW h \in Created, NEW j \in finish', Unstarted(h)',
                        j \in unfinishedHerdedTasks[h]
                 PROVE  ToldNext(j)'
      BY <1>3, <1>4 DEF HerdedFinish
    <3>1. j = i
      BY <1>3, <1>13 DEF Unstarted
    <3>2. 2 \in DOMAIN stack /\ stack[2].op = "herded" /\ stack[2].id = i
      BY <1>12, <3>1
    <3>3. 1 \in DOMAIN stack' /\ stack'[1] = f
      BY <2>2, StackFrames, Shift
    <3>4. 1 + Len(frames) \in DOMAIN stack' /\ stack'[1 + Len(frames)] = stack[2]
      BY <2>2, <3>2, SecondCall
    <3>5. 1 + Len(frames) = 2
      BY <2>2
    <3> QED BY <1>5, <3>1, <3>2, <3>3, <3>4, <3>5 DEF ToldNext
  <2> HIDE <2>1
  <2> QED BY <1>2, <1>3, <1>4, <1>5, <1>7, <1>9, <1>10, <2>2, <2>3, StatusKept
<1>15. CASE i \in start /\ ~IsHerder(i) /\ Return(<< t >> \o << f >>)
  <2>1. PICK frames : frames = << t, f >>
    OBVIOUS
  <2>2. Pushes(frames)
    <3>1. << t >> \o << f >> = << t, f >>
      BY Concats
    <3> QED BY <1>2, <1>15, <2>1, <3>1, ReturnPushes
  <2>3. /\ frames \in Seq(CallFrame) /\ DOMAIN frames = {1, 2}
        /\ frames[1] = t /\ frames[2] = f
    BY <1>5, <2>1, SeqClosed, Concats
  <2>4. HerdedFinish'
    <3> SUFFICES ASSUME NEW h \in Created, NEW j \in finish', Unstarted(h)',
                        j \in unfinishedHerdedTasks[h]
                 PROVE  FALSE
      BY <1>3, <1>4 DEF HerdedFinish
    <3>1. Unstarted(h) /\ j = i
      BY <1>3, <1>13 DEF Unstarted
    <3>2. info[i].herdid = h
      BY <3>1, StepFacts DEF CallsInv, Herds
    <3> QED BY <1>2, <1>15, <3>1, <3>2 DEF StatusInv, HerdUnqueued
  <2>5. \A k \in DOMAIN frames :
          /\ ~frames[k].mark
          /\ frames[k] \in QueuableFrame' /\ frames[k] \notin HerdedEnd'
          /\ \A h : frames[k] \notin CancelingFrame(h)'
    BY <1>5, <1>7, <2>3
  <2>6. \A h \in Created : Cancels(h) =>
          \A k \in DOMAIN frames : frames[k] \notin PlanningFrame(h)'
    BY <1>7, <1>8, <1>11, <1>15, <2>3
  <2> HIDE <2>1
  <2> QED BY <1>2, <1>3, <1>4, <1>9, <1>10, <2>2, <2>3, <2>4, <2>5, <2>6,
             StatusKept
<1> QED BY <1>3, <1>14, <1>15

\* A finished instance is forgotten.
LEMMA StatusForget ==
  ASSUME IndInv, CallsInv, StatusInv, Forget
  PROVE  StatusInv'
<1>1. PICK i : i = Top.id
  OBVIOUS
<1>2. /\ stack # <<>> /\ stack[1] = Top /\ Top.op = "forget" /\ Top.id = i
      /\ i \in Created /\ i \in Ids /\ 1 \in DOMAIN stack
  BY <1>1, TopCall DEF Forget, On, Top, Loops
<1>3. /\ UNCHANGED <<info, queue, start, stop, finish, success, cancelReplies>>
      /\ Return(<<>>)
      /\ \A h \in Ids : unfinishedHerdedTasks'[h] \subseteq unfinishedHerdedTasks[h]
  BY <1>2, StepFacts DEF Forget, instanceVars
<1>4. Created' = Created /\ Advances
  BY <1>3 DEF Created, Advances
<1>5. <<>> \in Seq(CallFrame) /\ Pushes(<<>>) /\ DOMAIN <<>> = {} /\ Len(<<>>) = 0
  BY <1>2, <1>3, ReturnPushes, SeqClosed, Concats
<1>6. HerdedFinish'
  <2> SUFFICES ASSUME NEW h \in Created, NEW j \in finish, Unstarted(h),
                      j \in unfinishedHerdedTasks'[h]
               PROVE  ToldNext(j)'
    BY <1>3, <1>4 DEF HerdedFinish, Unstarted
  <2>1. ToldNext(j)
    BY <1>3, StepFacts DEF StatusInv, HerdedFinish
  <2>2. 2 \in DOMAIN stack /\ stack[2].op = "herded" /\ stack[2].id = j
    BY <1>2, <2>1 DEF ToldNext
  <2>3. 1 + Len(<<>>) \in DOMAIN stack' /\ stack'[1 + Len(<<>>)] = stack[2]
    BY <1>5, <2>2, SecondCall
  <2>4. 1 + Len(<<>>) = 1
    BY <1>5
  <2> QED BY <2>2, <2>3, <2>4 DEF ToldNext
<1>7. \A h, j : stack[1] \notin AttendingFrame(h, j)
  BY <1>2 DEF AttendingFrame
<1>8. /\ success' \subseteq start' /\ stack[1].op \notin Ends
      /\ \A j \in cancelReplies' : j \notin start' /\ j \in cancelReplies
  BY <1>2, <1>3 DEF StatusInv, CanceledEnd, Ends
<1>9. Created \subseteq Ids
  BY StepFacts
<1> QED BY <1>3, <1>4, <1>5, <1>6, <1>7, <1>8, <1>9, StatusKept

\* The herder of a finished instance stops waiting for it.
LEMMA StatusHerded ==
  ASSUME IndInv, CallsInv, StatusInv, Herded
  PROVE  StatusInv'
<1>1. PICK i, h, f : i = Top.id /\ h = info[i].herdid /\ f = Call("finish", h)
  OBVIOUS
<1>2. /\ stack # <<>> /\ stack[1] = Top /\ Top.op = "herded" /\ Top.id = i
      /\ i \in Created /\ i \in Ids /\ 1 \in DOMAIN stack
      /\ h \in Created /\ h \in Ids /\ h \in Nat /\ IsHerder(h)
  <2>1. /\ stack # <<>> /\ stack[1] = Top /\ Top.op = "herded" /\ Top.id = i
        /\ i \in Created /\ i \in Ids /\ 1 \in DOMAIN stack
    BY <1>1, TopCall DEF Herded, On, Top, Loops
  <2> QED BY <1>1, <2>1, StepFacts, NumberFacts DEF CallsInv, Herds
<1>3. /\ UNCHANGED <<info, queue, start, stop, finish, success, cancelReplies>>
      /\ Return(<<>>) \/ Return(<< f >>)
      /\ \A g \in Ids : unfinishedHerdedTasks'[g] \subseteq unfinishedHerdedTasks[g]
      /\ h \in unfinishedTasks /\ unfinishedHerds[h] # {} =>
           i \notin unfinishedHerdedTasks'[h]
  BY <1>1, <1>2, StepFacts DEF Herded, instanceVars
<1>4. Created' = Created /\ Advances /\ Created \subseteq Ids
  BY <1>3, StepFacts DEF Created, Advances
<1>5. \A g \in Created : Unstarted(g) => i \notin unfinishedHerdedTasks'[g]
  <2> SUFFICES ASSUME NEW g \in Created, Unstarted(g),
                      i \in unfinishedHerdedTasks'[g]
               PROVE  FALSE
    OBVIOUS
  <2>1. i \in unfinishedHerdedTasks[g] /\ g \in Ids
    BY <1>3, <1>4
  <2>2. i \in unfinishedHerds[g] /\ g = h
    BY <1>1, <2>1 DEF CallsInv, Herds
  <2>3. g \in unfinishedTasks
    BY DEF Unstarted, CallsInv, Remembered
  <2> QED BY <1>3, <2>2, <2>3
<1>6. HerdedFinish'
  <2> SUFFICES ASSUME NEW g \in Created, NEW j \in finish, Unstarted(g),
                      j \in unfinishedHerdedTasks'[g]
               PROVE  FALSE
    BY <1>3, <1>4 DEF HerdedFinish, Unstarted
  <2>1. ToldNext(j)
    BY <1>3, <1>4 DEF StatusInv, HerdedFinish
  <2>2. j = i
    BY <1>2, <2>1 DEF ToldNext
  <2> QED BY <1>5, <2>2
<1>7. \A g, j : stack[1] \in AttendingFrame(g, j) => j = i
  BY <1>2 DEF AttendingFrame
<1>8. /\ success' \subseteq start' /\ stack[1].op \notin Ends
      /\ \A j \in cancelReplies' : j \notin start' /\ j \in cancelReplies
  BY <1>2, <1>3 DEF StatusInv, CanceledEnd, Ends
<1>9. /\ f \in CallFrame /\ ~f.mark /\ f.op = "finish" /\ f.id = h
  BY <1>1, <1>2, SeqClosed DEF Call, CallMark, CallFrame, FrameOp
<1>10. /\ f \in QueuableFrame' /\ f \notin HerdedEnd'
       /\ \A g : f \notin CancelingFrame(g)' /\ f \notin PlanningFrame(g)'
  BY <1>2, <1>3, <1>9
     DEF QueuableFrame, HerdedEnd, CancelingFrame, PlanningFrame, IsHerder
<1>11. \A g \in Created : Cancels(g) => Unstarted(g)
  BY Canceled
<1> HIDE <1>1
<1>12. PICK frames \in Seq({f}) : Pushes(frames)
  BY <1>2, <1>3, ReturnPushes, SeqClosed
<1>13. frames \in Seq(CallFrame) /\ \A k \in DOMAIN frames : frames[k] = f
  <2>1. {f} \subseteq CallFrame
    BY <1>9
  <2> QED BY <2>1, SeqMonotonic
<1> QED BY <1>3, <1>4, <1>5, <1>6, <1>7, <1>8, <1>9, <1>10, <1>11, <1>12, <1>13,
           StatusKept

\* Planning an instance, but in no herd that is being canceled.
LEMMA StatusPlan ==
  ASSUME IndInv, CallsInv, StatusInv, PlanTask, Head(Top.acts).task \in enabled
  PROVE  StatusInv'
<1>1. PICK a, i, herdid, parent, old, acts, onplan, last :
        /\ a = Head(Top.acts) /\ i = Len(info) + 1 /\ herdid = HerdOf(Top.id, a)
        /\ parent = Top.id /\ old = Top.acts
        /\ acts = Tail(Top.acts) /\ onplan = Task[a.task].onplan
        /\ last = Call(IF herdid \in unfinishedTasks THEN "planned"
                       ELSE "enqueue", i)
  OBVIOUS
<1>2. PICK t1, t2 :
        /\ t1 = [op |-> "trigger", id |-> i, ids |-> {}, acts |-> onplan,
                 mark |-> FALSE]
        /\ t2 = [op |-> "trigger", id |-> parent, ids |-> {}, acts |-> acts,
                 mark |-> FALSE]
  OBVIOUS
<1> DEFINE frames == Trigger(i, onplan) \o << last >> \o Trigger(parent, acts)
<1>3. /\ stack # <<>> /\ Top.op = "trigger"
      /\ old \in Seq(Action) /\ old # <<>> /\ a = Head(old) /\ acts = Tail(old)
      /\ acts \in Seq(Action) /\ onplan \in Seq(Action)
      /\ i \in Ids /\ i \in Nat /\ i \notin Created
      /\ parent \in {0} \cup Created
      /\ herdid \in {0} \cup Created
      /\ Created' = Created \cup {i}
      /\ \A j \in Created : info'[j] = info[j]
      /\ info'[i].herdid = IF herdid = 0 THEN i ELSE herdid
      /\ IF herdid \in unfinishedTasks THEN AppendToHerd(herdid, i)
         ELSE UNCHANGED <<unfinishedHerds, unfinishedHerdedTasks>>
      /\ UNCHANGED <<queue, start, stop, finish, success>>
      /\ Pushes(frames)
  BY <1>1, NewlyPlanned
<1>4. /\ stack[1] = Top /\ Top \in CallFrame /\ Top.acts = old /\ Top.id = parent
      /\ UNCHANGED cancelReplies
      /\ herdid = HerdOf(parent, a)
      /\ last = Call(IF herdid \in unfinishedTasks THEN "planned" ELSE "enqueue", i)
  BY <1>1, <1>3, TopCall DEF PlanTask
<1> HIDE <1>1
<1>5. Advances
  BY <1>3 DEF Advances
<1>6. /\ queue \subseteq Created /\ start \subseteq Created /\ stop \subseteq Created
      /\ finish \subseteq Created /\ cancelReplies \subseteq Created
      /\ Created \subseteq Ids /\ 0 \notin Created /\ parent \in Nat
      /\ unfinishedTasks \subseteq Created
  BY <1>3, StepFacts, NumberFacts DEF TypeOK, InstanceTypeOK, Created
<1>7. /\ t1 \in CallFrame /\ t1.op = "trigger" /\ t1.id = i /\ ~t1.mark
      /\ t2 \in CallFrame /\ t2.op = "trigger" /\ t2.id = parent /\ ~t2.mark
      /\ t2.acts = acts
      /\ last \in CallFrame /\ ~last.mark /\ last.id = i
      /\ last.op = IF herdid \in unfinishedTasks THEN "planned" ELSE "enqueue"
  BY <1>2, <1>3, <1>4, <1>6, SeqClosed DEF Call, CallMark, CallFrame, FrameOp
\* The new instance plans in a herd if its parent does.
<1>8. ASSUME NEW h \in Created, stack[1] \notin PlanningFrame(h)
      PROVE  /\ herdid # h
             /\ t1 \notin PlanningFrame(h)' /\ t2 \notin PlanningFrame(h)'
  <2>1. h # 0
    BY <1>6
  <2>2. /\ 1 \in DOMAIN old /\ a = old[1]
        /\ Len(acts) = Len(old) - 1
        /\ \A k \in 1..Len(acts) : acts[k] = old[k + 1]
        /\ Len(old) \in Nat /\ Len(acts) \in Nat
        /\ DOMAIN old = 1..Len(old) /\ DOMAIN acts = 1..Len(acts)
    BY <1>3, HeadTailProperties
  <2>3. LoneActions(old) => a.lone /\ LoneActions(acts)
    BY <2>2 DEF LoneActions
  <2>4. parent = 0 \/ info[parent].herdid # h \/ LoneActions(old)
    BY <1>3, <1>4, <1>8 DEF PlanningFrame
  <2>5. herdid # h
    BY <1>4, <2>1, <2>3, <2>4 DEF HerdOf
  <2>6. t1 \notin PlanningFrame(h)'
    BY <1>3, <1>7, <2>5 DEF PlanningFrame
  <2>7. t2 \notin PlanningFrame(h)'
    BY <1>3, <1>7, <2>3, <2>4 DEF PlanningFrame
  <2> QED BY <2>5, <2>6, <2>7
<1>9. /\ t1 \in QueuableFrame' /\ t2 \in QueuableFrame' /\ last \in QueuableFrame'
  <2>1. herdid \notin unfinishedTasks =>
          IsHerder(i)' \/ ~Unstarted(info[i].herdid)'
    <3>1. CASE herdid = 0
      BY <1>3, <3>1 DEF IsHerder
    <3>2. CASE herdid \in Created
      <4>1. herdid \notin unfinishedTasks => herdid \in finish
        BY <3>2 DEF CallsInv, Remembered
      <4>2. info'[i].herdid = herdid
        BY <1>3, <1>6, <3>2
      <4> QED BY <1>3, <4>1, <4>2 DEF Unstarted
    <3> QED BY <1>3, <3>1, <3>2
  <2> QED BY <1>7, <2>1 DEF QueuableFrame
<1> DEFINE G == {t1, t2, last}
<1>10. \A f \in G : /\ f \in CallFrame /\ ~f.mark /\ f \in QueuableFrame'
                    /\ f \notin HerdedEnd'
                    /\ \A h : f \notin CancelingFrame(h)'
                    /\ \A h \in Created : stack[1] \notin PlanningFrame(h) =>
                         f \notin PlanningFrame(h)'
  BY <1>7, <1>8, <1>9 DEF HerdedEnd, CancelingFrame, PlanningFrame
<1>11. frames \in Seq(G)
  <2>1. /\ Trigger(i, onplan) \in Seq(G) /\ Trigger(parent, acts) \in Seq(G)
        /\ << last >> \in Seq(G)
    BY <1>2, TriggerIn, SeqClosed
  <2>2. PICK s1, s2, s3 : /\ s1 = Trigger(i, onplan) /\ s2 = << last >>
                          /\ s3 = Trigger(parent, acts)
    OBVIOUS
  <2>3. s1 \o s2 \o s3 \in Seq(G)
    BY <2>1, <2>2, SeqClosed
  <2> QED BY <2>2, <2>3
<1>12. \A h \in Created : Cancels(h) => stack[1] \notin PlanningFrame(h)
  BY Canceled
<1>13. unfinishedHerdedTasks \in [Ids -> SUBSET Created]
  BY StepFacts
<1>14. ASSUME NEW h \in Created, herdid # h
       PROVE  unfinishedHerdedTasks'[h] = unfinishedHerdedTasks[h]
  BY <1>3, <1>6, <1>13, <1>14 DEF AppendToHerd
<1>15. HerdedFinish'
  <2> SUFFICES ASSUME NEW h \in Created', NEW j \in finish, Unstarted(h)',
                      j \in unfinishedHerdedTasks'[h]
               PROVE  FALSE
    BY <1>3 DEF HerdedFinish
  <2>1. j # i /\ h \in Ids
    BY <1>3, <1>6
  <2>2. j \in unfinishedHerdedTasks[h]
    <3>1. CASE herdid \in unfinishedTasks
      <4>1. /\ herdid \in Ids
            /\ unfinishedHerdedTasks' = [unfinishedHerdedTasks EXCEPT
                 ![herdid] = unfinishedHerdedTasks[herdid] \cup {i}]
        BY <1>3, <1>6, <3>1 DEF AppendToHerd
      <4>2. unfinishedHerdedTasks'[h] \subseteq unfinishedHerdedTasks[h] \cup {i}
        BY <1>13, <2>1, <4>1
      <4> QED BY <2>1, <4>2
    <3>2. CASE herdid \notin unfinishedTasks
      BY <1>3, <3>2
    <3> QED BY <3>1, <3>2
  <2>3. h \in Created
    BY <2>1, <2>2 DEF CallsInv, Herds
  <2> QED BY <1>3, <1>4, <2>2, <2>3, NoneAwaited DEF Unstarted
<1>16. /\ success' \subseteq start' /\ stack[1].op \notin Ends
       /\ \A j \in cancelReplies' : j \notin start' /\ j \in cancelReplies
       /\ \A j \in Created : j \in queue' \cup start' => j \in queue \cup start
       /\ \A j \in Created' \ Created : j \notin queue' \cup start'
       /\ \A h, j : stack[1] \notin AttendingFrame(h, j)
  BY <1>3, <1>4, <1>6 DEF StatusInv, CanceledEnd, Ends, AttendingFrame
<1>17. PICK new : new = frames
  OBVIOUS
<1>18. Pushes(new) /\ new \in Seq(G)
  BY <1>3, <1>11, <1>17
<1> HIDE DEF frames
<1>19. new \in Seq(CallFrame) /\ \A k \in DOMAIN new : new[k] \in G
  <2>1. G \subseteq CallFrame
    BY <1>10
  <2> QED BY <1>18, <2>1, SeqMonotonic
<1>20. \A h \in Created : Cancels(h) =>
         /\ unfinishedHerdedTasks'[h] = unfinishedHerdedTasks[h]
         /\ \A k \in DOMAIN new : new[k] \notin PlanningFrame(h)'
  BY <1>8, <1>10, <1>12, <1>14, <1>19
<1>21. \A k \in DOMAIN new :
         /\ ~new[k].mark /\ new[k] \in QueuableFrame' /\ new[k] \notin HerdedEnd'
         /\ \A h : new[k] \notin CancelingFrame(h)'
  BY <1>10, <1>19
<1> HIDE DEF G
<1> QED BY <1>5, <1>15, <1>16, <1>18, <1>19, <1>20, <1>21, StatusKept

\* An instance that has no target triggers nothing when it fails.
LEMMA NoTarget ==
  ASSUME IndInv, FixedTarget, success \subseteq start, NEW i \in Created,
         i \notin start, TriedHosts(i) = <<>>
  PROVE  FinishActions(i) = <<>>
<1>1. PICK t : t = TaskOf(i)
  OBVIOUS
<1>2. \/ t.balancing = "Host" /\ t.hosts # <<>>
      \/ t.onfailure = <<>> /\ t.onnostderr = <<>>
  <2>1. info[i].task \in Tasks /\ config \in Configs
    BY StepFacts DEF TypeOK
  <2> QED BY <1>1, <2>1 DEF FixedTarget, TaskOf, Task
<1>3. t.balancing = "Host" => TriedHosts(i) = t.hosts
  BY <1>1 DEF TriedHosts
<1>4. t.onfailure = <<>> /\ t.onnostderr = <<>>
  BY <1>2, <1>3
<1>5. FinishActions(i) = <<>> \o <<>>
  BY <1>1, <1>4 DEF FinishActions
<1> QED BY <1>5, Concats

\* The loop that starts instances: it passes over one, has one fail that has no
\* target, or starts it.
LEMMA StatusStart ==
  ASSUME IndInv, CallsInv, StatusInv, FixedTarget, NEW i \in Created,
         StartTaskInstance(i)
  PROVE  StatusInv'
<1>1. PICK rest, g, f, t :
        /\ rest = Above(i, {j \in Top.ids : Status(j) = "Queued"})
        /\ g = [op |-> "start", id |-> 0, ids |-> rest, acts |-> <<>>,
                mark |-> FALSE]
        /\ f = CallMark("stopped", i, TRUE)
        /\ t = [op |-> "trigger", id |-> i, ids |-> {},
                acts |-> TaskOf(i).onstart, mark |-> FALSE]
  OBVIOUS
<1> DEFINE next == Loop("start", 0, rest)
<1>2. /\ stack # <<>> /\ stack[1] = Top /\ Top.op = "start" /\ Rest = <<>>
      /\ Status(i) = "Queued" /\ i \in Nat /\ rest \in SUBSET Nat
      /\ next = <<>> \/ next = << g >>
  <2>1. /\ stack # <<>> /\ Top.op = "start" /\ Rest = <<>> /\ Status(i) = "Queued"
        /\ i \in Nat
    BY StartLoop
  <2>2. rest \in SUBSET Nat
    BY <1>1, <2>1, NumberFacts DEF Above
  <2>3. next = <<>> \/ next = << g >>
    BY <1>1 DEF Loop
  <2> QED BY <2>1, <2>2, <2>3, TopCall
<1>3. /\ UNCHANGED <<info, queue, stop, finish, success, stderr, config,
                     unfinishedHerdedTasks, cancelReplies>>
      /\ \/ Return(next) /\ UNCHANGED start
         \/ /\ Return(<< f >> \o next) /\ UNCHANGED start
            /\ TriedHosts(i) = <<>>
         \/ /\ start' = start \cup {i}
            /\ Return(next) \/ Return(<< t >> \o next)
  <2>1. <<>> \o next = next
    BY <1>2, Concats
  <2> QED BY <1>1, <2>1
          DEF StartTaskInstance, Launch, Trigger, indexVars, settingVars
<1>4. i \in queue /\ i \notin start \cup stop \cup finish
  BY <1>2 DEF Status
<1>5. DOMAIN stack = {1} /\ \A h : ~Cancels(h)
  <2>1. Len(Rest) = Len(stack) - 1 /\ Len(Rest) = 0
    <3>1. stack \in Seq(CallFrame)
      BY StackFrames
    <3> QED BY <1>2, <3>1, RestIn, EmptySeq
  <2>2. Len(stack) = 1 /\ DOMAIN stack = 1..Len(stack)
    BY <2>1, StackFrames
  <2> QED BY <2>2 DEF Cancels
<1>6. cancelReplies \subseteq finish
  BY <1>2, <1>5 DEF StatusInv, CanceledEnd, Ends
<1>7. /\ g \in CallFrame /\ ~g.mark /\ g.op = "start"
      /\ f \in CallFrame /\ f.mark /\ f.op = "stopped" /\ f.id = i
      /\ t \in CallFrame /\ ~t.mark /\ t.op = "trigger"
  <2>1. TaskOf(i).onstart \in Seq(Action)
    BY StepFacts DEF TaskConfig
  <2> QED BY <1>1, <1>2, <2>1, SeqClosed DEF CallMark, CallFrame, FrameOp
<1> HIDE <1>1
<1>8. /\ g \in QueuableFrame' /\ f \in QueuableFrame' /\ t \in QueuableFrame'
      /\ g \notin HerdedEnd' /\ f \notin HerdedEnd' /\ t \notin HerdedEnd'
      /\ \A h : /\ g \notin CancelingFrame(h)' /\ f \notin CancelingFrame(h)'
                /\ t \notin CancelingFrame(h)'
  BY <1>7 DEF QueuableFrame, HerdedEnd, CancelingFrame
<1>9. Created' = Created /\ Advances
  BY <1>3 DEF Created, Advances
<1>10. HerdedFinish'
  BY <1>2, <1>3, <1>9, NoneAwaited DEF HerdedFinish, Unstarted
<1>11. /\ success' \subseteq start' /\ stack[1].op \notin Ends
       /\ \A j \in cancelReplies' : j \notin start' /\ j \in cancelReplies
       /\ \A j \in Created : j \in queue' \cup start' => j \in queue \cup start
  BY <1>2, <1>3, <1>4, <1>6 DEF StatusInv, CanceledEnd, Ends
<1>12. ASSUME UNCHANGED start, TriedHosts(i) = <<>>
       PROVE  f \in MarkedFrame'
  <2>1. FinishActions(i) = <<>>
    BY <1>4, <1>12, NoTarget DEF StatusInv
  <2>2. FinishActions(i)' = <<>>
    BY <1>3, <2>1 DEF FinishActions, TaskOf, Task
  <2>3. Status(i)' = "Queued"
    BY <1>2, <1>3, <1>12 DEF Status
  <2> QED BY <1>3, <1>4, <1>6, <1>7, <2>2, <2>3 DEF MarkedFrame, Ends
<1>13. \/ \E frames \in Seq({g, t}) : Pushes(frames)
       \/ f \in MarkedFrame' /\ (Pushes(<< f >>) \/ Pushes(<< f, g >>))
  <2>1. next \in Seq({g, t}) /\ << t >> \o next \in Seq({g, t})
    BY <1>2, SeqClosed
  <2>2. << f >> \o next = << f >> \/ << f >> \o next = << f, g >>
    <3>1. << f >> \o <<>> = << f >> /\ << f >> \o << g >> = << f, g >>
      BY Concats
    <3>2. PICK n : n = next
      OBVIOUS
    <3>3. n = <<>> \/ n = << g >>
      BY <1>2, <3>2
    <3>4. << f >> \o n = << f >> \/ << f >> \o n = << f, g >>
      BY <3>1, <3>3
    <3> QED BY <3>2, <3>4
  <2> HIDE DEF next
  <2> QED BY <1>2, <1>3, <1>12, <2>1, <2>2, ReturnPushes
<1>14. CASE \E frames \in Seq({g, t}) : Pushes(frames)
  <2>1. PICK frames \in Seq({g, t}) : Pushes(frames)
    BY <1>14
  <2>2. frames \in Seq(CallFrame) /\ \A k \in DOMAIN frames : frames[k] \in {g, t}
    <3>1. {g, t} \subseteq CallFrame
      BY <1>7
    <3> QED BY <2>1, <3>1, SeqMonotonic
  <2>3. \A k \in DOMAIN frames :
          /\ ~frames[k].mark
          /\ frames[k] \in QueuableFrame' /\ frames[k] \notin HerdedEnd'
          /\ \A h : frames[k] \notin CancelingFrame(h)'
    BY <1>7, <1>8, <2>2
  <2> QED BY <1>5, <1>9, <1>10, <1>11, <2>1, <2>2, <2>3, StatusKept
<1>15. CASE f \in MarkedFrame' /\ (Pushes(<< f >>) \/ Pushes(<< f, g >>))
  <2>1. PICK frames : (frames = << f >> \/ frames = << f, g >>) /\ Pushes(frames)
    BY <1>15
  <2>2. /\ frames \in Seq(CallFrame)
        /\ \A k \in DOMAIN frames : \/ k = 1 /\ frames[k] = f
                                    \/ frames[k] = g
    <3>1. CASE frames = << f >>
      BY <1>7, <3>1, SeqClosed, Concats
    <3>2. CASE frames = << f, g >>
      BY <1>7, <3>2, SeqClosed, Concats
    <3> QED BY <2>1, <3>1, <3>2
  <2>3. \A k \in DOMAIN frames :
          /\ frames[k].mark => k = 1 /\ frames[k] \in MarkedFrame'
          /\ frames[k] \in QueuableFrame' /\ frames[k] \notin HerdedEnd'
          /\ \A h : frames[k] \notin CancelingFrame(h)'
    BY <1>7, <1>8, <1>15, <2>2
  <2> QED BY <1>5, <1>9, <1>10, <1>11, <2>1, <2>2, <2>3, StatusKept
<1> QED BY <1>13, <1>14, <1>15

\* An event makes mild calls.
LEMMA MildEvent ==
  ASSUME IndInv, CallsInv, StatusInv, stack = <<>>, NEW frames \in Seq(MildFrame),
         stack' = frames,
         UNCHANGED <<info, queue, start, stop, finish, success,
                     unfinishedHerdedTasks, cancelReplies>>
  PROVE  StatusInv'
<1>1. Rest = <<>>
  BY DEF Rest
<1>2. Pushes(frames)
  BY <1>1, ConcatEmptySeq DEF Pushes
<1> QED BY <1>2, MildStep

\* Handling an event.
LEMMA StatusEvent ==
  ASSUME IndInv, CallsInv, StatusInv, HandleEvent PROVE StatusInv'
<1>1. CASE HandleQueuedEvent
  <2>1. Loop("start", 0, unfinishedTasks) \in Seq(MildFrame)
    BY NumberFacts, MildCalls DEF FrameOp, Ends
  <2>2. \E frames \in Seq(MildFrame) : stack' = frames
    BY <1>1, <2>1, SeqClosed DEF HandleQueuedEvent
  <2> QED BY <1>1, <2>2, MildEvent
          DEF HandleQueuedEvent, Idle, instanceVars, indexVars
<1>2. CASE HandlePlannedEvent
  <2>1. Loop("enqueueEach", 0,
             {i \in unfinishedTasks : info[i].herdid \in dirtyHerds})
          \in Seq(MildFrame)
    BY NumberFacts, MildCalls DEF FrameOp, Ends
  <2>2. \E frames \in Seq(MildFrame) : stack' = frames
    BY <1>2, <2>1, SeqClosed DEF HandlePlannedEvent, Idle
  <2> QED BY <1>2, <2>2, MildEvent
          DEF HandlePlannedEvent, Idle, instanceVars
<1>3. ASSUME NEW i \in Ids, HandleTaskInstanceStopped(i) PROVE StatusInv'
  <2>1. i \in start /\ i \in Nat
    BY <1>3 DEF HandleTaskInstanceStopped, IndInv, ExecutorKnown, Ids
  <2>2. Call("stopped", i) \in MildFrame
    BY <2>1, SeqClosed
       DEF Call, CallMark, MildFrame, QueuableFrame, CallFrame, FrameOp, Ends
  <2>3. \E frames \in Seq(MildFrame) : stack' = frames
    BY <1>3, <2>2, SeqClosed DEF HandleTaskInstanceStopped
  <2> QED BY <1>3, <2>3, MildEvent
          DEF HandleTaskInstanceStopped, Idle, instanceVars, indexVars
<1> QED BY <1>1, <1>2, <1>3 DEF HandleEvent

\* A step of another thread that changes no timestamp but that of the end of an
\* execution.
LEMMA StatusOther ==
  ASSUME IndInv, CallsInv, StatusInv,
         UNCHANGED <<info, queue, start, finish, config, indexVars, cancelReplies,
                     stack>>,
         stop \subseteq stop', stop' \subseteq stop \cup start,
         \A j : j \notin start => /\ j \in success' <=> j \in success
                                  /\ j \in stderr' <=> j \in stderr
  PROVE  StatusInv'
<1>1. /\ Created' = Created
      /\ \A i : (IsHerder(i)' <=> IsHerder(i)) /\ (Unstarted(i)' <=> Unstarted(i))
      /\ \A i, j : /\ AttendingFrame(i, j)' = AttendingFrame(i, j)
                   /\ PlanningFrame(i)' = PlanningFrame(i)
      /\ \A j : ToldNext(j)' <=> ToldNext(j)
      /\ UNCHANGED unfinishedHerdedTasks
  BY DEF Created, IsHerder, Unstarted, AttendingFrame, PlanningFrame, ToldNext,
         indexVars
<1>2. \A i : CancelingFrame(i)' = CancelingFrame(i)
  BY <1>1 DEF CancelingFrame
<1>3. success' \subseteq start'
  BY DEF StatusInv
<1>4. Marks'
  <2>1. ASSUME NEW f \in MarkedFrame PROVE f \in MarkedFrame'
    <3>1. f.id \notin start /\ Status(f.id) = "Queued"
      BY <2>1 DEF MarkedFrame, Status
    <3>2. Status(f.id)' = "Queued"
      BY <3>1 DEF Status
    <3>3. FinishActions(f.id)' = FinishActions(f.id)
      BY <3>1 DEF FinishActions, TaskOf, Task
    <3> QED BY <2>1, <3>2, <3>3 DEF MarkedFrame
  <2> QED BY <2>1 DEF StatusInv, Marks
<1>5. HerdUnqueued'
  <2>1. QueuableFrame' = QueuableFrame
    BY <1>1 DEF QueuableFrame
  <2> QED BY <1>1, <2>1 DEF StatusInv, HerdUnqueued
<1>6. CanceledEnd' /\ Follows'
  <2>1. HerdedEnd' = HerdedEnd
    BY <1>1 DEF HerdedEnd
  <2> QED BY <2>1 DEF StatusInv, CanceledEnd, Follows
<1>7. HerdedFinish'
  BY <1>1 DEF StatusInv, HerdedFinish
<1>8. CancelingHerd'
  BY <1>1, <1>2 DEF StatusInv, CancelingHerd
<1> QED BY <1>3, <1>4, <1>5, <1>6, <1>7, <1>8 DEF StatusInv

\* The end of an execution.
LEMMA StatusStop ==
  ASSUME IndInv, CallsInv, StatusInv, NEW i \in Ids, ExecutorStop(i)
  PROVE  StatusInv'
<1>1. i \in start
  BY DEF ExecutorStop, IndInv, ExecutorKnown
<1>2. /\ success' = success \cup {i} \/ success' = success \ {i}
      /\ stderr' = stderr \cup {i} \/ stderr' = stderr
  BY DEF ExecutorStop
<1> QED BY <1>1, <1>2, StatusOther DEF ExecutorStop, settingVars

\* What happens outside the event loop.
LEMMA StatusEnvironment ==
  ASSUME IndInv, CallsInv, StatusInv, Environment PROVE StatusInv'
<1>1. CASE \/ \E tasks \in Switches, b \in BOOLEAN : EnableTasks(tasks, b)
           \/ \E h \in Hosts : HostChanged(h)
           \/ Shutdown
  BY <1>1, StatusOther DEF EnableTasks, HostChanged, Shutdown, instanceVars
<1>2. ASSUME stack = <<>>,
             UNCHANGED <<instanceVars, indexVars, cancelReplies>>,
             \E frames \in Seq(MildFrame) : stack' = frames
      PROVE  StatusInv'
  BY <1>2, MildEvent DEF instanceVars, indexVars
<1>3. \A acts \in Seq(Action) : Trigger(0, acts) \in Seq(MildFrame)
  <2> TAKE acts \in Seq(Action)
  <2>1. [op |-> "trigger", id |-> 0, ids |-> {}, acts |-> acts, mark |-> FALSE]
          \in MildFrame
    BY DEF MildFrame, QueuableFrame, CallFrame, FrameOp, Ends
  <2> QED BY <2>1, TriggerIn
<1>4. \A op \in {"cancelEach", "abortEach", "reload"}, S \in SUBSET Nat :
        Loop(op, 0, S) \in Seq(MildFrame)
  BY MildCalls DEF FrameOp, Ends
<1>5. ASSUME NEW a \in Requests, RequestTask(a) PROVE StatusInv'
  <2>1. << a >> \in Seq(Action)
    BY ConfigAssumption
  <2> QED BY <1>2, <1>3, <1>5, <2>1 DEF RequestTask, Idle
<1>6. ASSUME NEW i \in unfinishedTasks,
             CancelTaskInstance(i) \/ AbortTaskInstance(i)
      PROVE  StatusInv'
  <2>1. i \in Nat
    BY NumberFacts
  <2>2. << Call("cancel", i) >> \in Seq(MildFrame)
        /\ << Call("abort", i) >> \in Seq(MildFrame)
    BY <2>1, MildCalls, SeqClosed DEF FrameOp, Ends
  <2> QED BY <1>2, <1>6, <2>2
          DEF CancelTaskInstance, AbortTaskInstance, Command, Idle
<1>7. ASSUME NEW t \in Tasks, \/ CancelTaskInstancesByTaskId(t)
                              \/ AbortTaskInstanceByTaskId(t)
      PROVE  StatusInv'
  <2>1. \A S \in SUBSET unfinishedTasks :
          /\ Loop("cancelEach", 0, S) \in Seq(MildFrame)
          /\ Loop("abortEach", 0, S) \in Seq(MildFrame)
    BY <1>4, NumberFacts
  <2>2. \E frames \in Seq(MildFrame) : stack' = frames
    BY <1>7, <2>1
       DEF CancelTaskInstancesByTaskId, AbortTaskInstanceByTaskId, Command
  <2> QED BY <1>2, <1>7, <2>2
          DEF CancelTaskInstancesByTaskId, AbortTaskInstanceByTaskId, Command, Idle
<1>8. ASSUME NEW c \in Configs, ActivateConfig(c) PROVE StatusInv'
  <2>1. Loop("reload", 0, unfinishedTasks) \in Seq(MildFrame)
    BY <1>4, NumberFacts
  <2>2. Trigger(0, OnConfigLoad[c]) \in Seq(MildFrame)
    BY <1>3, ConfigAssumption
  <2>3. \E frames \in Seq(MildFrame) : stack' = frames
    BY <1>8, <2>1, <2>2, SeqClosed DEF ActivateConfig
  <2> QED BY <1>2, <1>8, <2>3 DEF ActivateConfig, Idle
<1> QED BY <1>1, <1>5, <1>6, <1>7, <1>8 DEF Environment

\* No instance exists at first.
LEMMA StatusInit == Init => StatusInv
<1> SUFFICES ASSUME Init PROVE StatusInv
  OBVIOUS
<1>1. /\ stack = <<>> /\ Created = {} /\ finish = {} /\ success = {}
      /\ start = {} /\ cancelReplies = {}
  BY DEF Init, InstanceInit, Created
<1>2. DOMAIN stack = {}
  BY <1>1, Concats
<1> QED BY <1>1, <1>2
        DEF StatusInv, Marks, HerdUnqueued, CanceledEnd, Follows, HerdedFinish,
            CancelingHerd

\* Every step keeps the invariant.
LEMMA StatusNext ==
  ASSUME IndInv, CallsInv, StatusInv, FailureLone, FixedTarget, [Next]_vars
  PROVE  StatusInv'
<1>1. CASE UNCHANGED vars
  BY <1>1, StatusOther DEF vars, instanceVars, settingVars
<1>2. CASE Step
  <2>1. CASE PlanTask
    BY <2>1, MildSimple, StatusPlan
  <2>2. CASE CancelOrAbortEach
    BY <2>2, MildSimple, StatusCancelEach
  <2>3. CASE \E i \in Created : \/ StartTaskInstance(i)
                                \/ EnqueueOrCancelPlanned(i)
                                \/ ReplaceTaskOrCancel(i)
    BY <2>3, MildEach, StatusStart
  <2> QED BY <1>2, <2>1, <2>2, <2>3, MildSimple, StatusCancel, StatusStopped,
             StatusSettle, StatusFinish, StatusForget, StatusHerded DEF Step
<1> QED BY <1>1, <1>2, StatusEvent, StatusStop, StatusEnvironment DEF Next

\* A herder that finished has no herd any more.
LEMMA NoHerdLeft ==
  ASSUME IndInv, CallsInv, NEW i \in finish, ~On("forget")
  PROVE  HerderSuccess(i) <=> i \in success
<1>1. i \in Created /\ i \in Ids
  BY StepFacts DEF TypeOK, InstanceTypeOK
<1>2. ~Forgets(i)
  BY DEF Forgets, On
<1>3. CASE IsHerder(i)
  <2>1. unfinishedHerds[i] = {}
    BY <1>2, <1>3 DEF CallsInv, Remembered
  <2> QED BY <2>1 DEF HerderSuccess, HerdedTasks
<1>4. CASE ~IsHerder(i)
  <2>1. unfinishedHerds[i] = {}
    <3>1. \A j \in unfinishedHerds[i] : IsHerder(i)
      BY <1>1 DEF CallsInv, Herds
    <3> QED BY <1>4, <3>1
  <2> QED BY <2>1 DEF HerderSuccess, HerdedTasks
<1> QED BY <1>3, <1>4

\* Every step moves statuses along the edges of the graph.
LEMMA StatusEdges ==
  ASSUME IndInv, CallsInv, StatusInv, [Next]_vars, NEW i \in Created,
         Status(i)' # Status(i)
  PROVE  <<Status(i), Status(i)'>> \in StatusEdge
<1>1. finish \subseteq stop /\ stop \subseteq start \cup finish
  BY DEF CallsInv, Timestamps
<1>2. CASE UNCHANGED <<queue, start, stop, finish, success>>
  BY <1>2 DEF Status
<1>3. CASE Queue
  <2>1. UNCHANGED <<start, stop, finish, success>> /\ queue \subseteq queue'
    BY <1>3 DEF Queue
  <2> QED BY <2>1 DEF Status, StatusEdge
<1>4. CASE \E j \in Created : StartTaskInstance(j)
  <2>1. PICK j \in Created : StartTaskInstance(j)
    BY <1>4
  <2>2. /\ UNCHANGED <<queue, stop, finish, success>>
        /\ start' = start \/ start' = start \cup {j}
        /\ Status(j) = "Queued"
    BY <2>1 DEF StartTaskInstance, Launch, Lowest
  <2> QED BY <1>1, <2>2 DEF Status, StatusEdge
<1>5. CASE TaskInstanceFinishedOrCanceled
  <2>1. PICK j : j = Top.id
    OBVIOUS
  <2>2. /\ stack # <<>> /\ stack[1] = Top /\ Top.op = "finish" /\ Top.id = j
        /\ j \in Created /\ 1 \in DOMAIN stack /\ ~On("forget")
        /\ j \in start => j \in stop
    BY <1>5, <2>1, TopCall, TopFacts
       DEF TaskInstanceFinishedOrCanceled, On, Top, Loops, Ends
  <2>3. /\ UNCHANGED queue /\ finish' = finish \cup {j}
        /\ \/ /\ j \notin start /\ success' = success \ {j} /\ stop' = stop \cup {j}
              /\ start' = IF Top.mark THEN start \cup {j} ELSE start
           \/ /\ j \in start /\ UNCHANGED <<start, stop>>
              /\ success' = IF HerderSuccess(j) THEN success \cup {j}
                            ELSE success \ {j}
    BY <1>5, <2>1 DEF TaskInstanceFinishedOrCanceled
  <2>4. Top.mark => Status(j) = "Queued"
    BY <2>2 DEF StatusInv, Marks, MarkedFrame
  <2>5. j \in finish => (HerderSuccess(j) <=> j \in success)
    BY <2>2, NoHerdLeft
  <2>6. i # j => Status(i)' = Status(i)
    BY <2>3 DEF Status
  <2>7. i = j
    BY <2>6
  <2>8. CASE j \notin start
    <3>1. j \notin finish
      BY <1>1, <2>3, <2>4, <2>7, <2>8 DEF Status
    <3>2. Status(i) \in {"Planned", "Queued"}
      BY <1>1, <2>7, <2>8, <3>1 DEF Status
    <3>3. Status(i)' = IF Top.mark THEN "Failure" ELSE "Canceled"
      BY <2>3, <2>7, <2>8 DEF Status
    <3> QED BY <2>4, <2>7, <3>2, <3>3 DEF StatusEdge
  <2>9. CASE j \in start
    <3>1. j \notin finish
      BY <2>2, <2>3, <2>5, <2>7, <2>9 DEF Status
    <3>2. Status(i) = "Waiting"
      BY <2>2, <2>7, <2>9, <3>1 DEF Status
    <3>3. Status(i)' \in {"Success", "Failure"}
      BY <2>2, <2>3, <2>7, <2>9 DEF Status
    <3> QED BY <3>2, <3>3 DEF StatusEdge
  <2> QED BY <2>8, <2>9
<1>6. CASE \E j \in Ids : ExecutorStop(j)
  <2>1. PICK j \in Ids : ExecutorStop(j)
    BY <1>6
  <2>2. /\ UNCHANGED <<queue, start, finish>> /\ j \notin stop
        /\ stop' = stop \cup {j} /\ j \in start
        /\ success' = success \cup {j} \/ success' = success \ {j}
    BY <2>1 DEF ExecutorStop, IndInv, ExecutorKnown
  <2> QED BY <1>1, <2>2 DEF Status, StatusEdge
<1>7. CASE UNCHANGED vars \/ HandleEvent \/ Environment
  <2>1. UNCHANGED instanceVars
    BY <1>7 DEF vars, HandleEvent, HandleQueuedEvent, HandlePlannedEvent,
         HandleTaskInstanceStopped, Environment, RequestTask, CancelTaskInstance,
         AbortTaskInstance, CancelTaskInstancesByTaskId,
         AbortTaskInstanceByTaskId, Command, EnableTasks, HostChanged, Shutdown,
         ActivateConfig
  <2> QED BY <1>2, <2>1 DEF instanceVars
<1>8. CASE \/ PlanTask \/ Planned \/ EnqueueTaskInstance \/ Deduplicate \/ Dropped
           \/ DoCancelTaskInstance \/ DoAbortTaskInstance \/ Aborted
           \/ CancelOrAbortEach \/ TaskInstanceStoppedOrCanceled \/ Settle
           \/ Forget \/ Herded \/ LoopEnds
           \/ \E j \in Created : EnqueueOrCancelPlanned(j) \/ ReplaceTaskOrCancel(j)
  <2>1. UNCHANGED <<queue, start, stop, finish, success>>
    BY <1>8 DEF PlanTask, NewInstance, Planned, EnqueueTaskInstance, Deduplicate,
         Dropped, DoCancelTaskInstance, DoAbortTaskInstance, Aborted,
         CancelOrAbortEach, TaskInstanceStoppedOrCanceled, Settle, Forget, Herded,
         LoopEnds, EnqueueOrCancelPlanned, ReplaceTaskOrCancel, instanceVars
  <2> QED BY <1>2, <2>1
<1> QED BY <1>3, <1>4, <1>5, <1>6, <1>7, <1>8 DEF Next, Step

\* Whatever the herds, the status of an instance only moves along the edges
\* that are documented, and an instance whose cancelation was reported never
\* starts; provided that the failure of an instance plans nothing in its herd.
THEOREM StatusesFollowGraph ==
  ASSUME FailureLone, FixedTarget PROVE Spec => StatusFollowsGraph
<1>1. Init => StatusInv
  BY StatusInit
<1>2. IndInv /\ CallsInv /\ StatusInv /\ [Next]_vars => StatusInv'
  BY StatusNext
<1>3. IndInv /\ CallsInv /\ StatusInv /\ StatusInv' /\ [Next]_vars =>
        [/\ CanceledNeverStarts'
         /\ \A i \in Created : Status(i)' # Status(i) =>
              <<Status(i), Status(i)'>> \in StatusEdge]_<<instanceVars, cancelReplies>>
  <2>1. StatusInv' => CanceledNeverStarts'
    BY DEF StatusInv, CanceledEnd, CanceledNeverStarts
  <2> QED BY <2>1, StatusEdges
<1> QED BY <1>1, <1>2, <1>3, Invariant, CallsAreKnown, PTL
        DEF Spec, StatusFollowsGraph
=============================================================================
