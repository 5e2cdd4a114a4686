---------------------------- MODULE MCScheduler -----------------------------
(* Small configurations of the scheduler for TLC.                          *)
EXTENDS SchedulerProperties, TLC

CONSTANTS e1, e2, e3

TwoExecutors == {e1, e2}
ThreeExecutors == {e1, e2, e3}
TwoAtOnce == [c \in Configs |-> 2]
NoAction == [c \in Configs |-> <<>>]

NoSwitch == {}
OneSwitch == {{"a"}}

ExecutorSymmetry == Permutations(Executors)

OneHost == {"h1"}
TwoHosts == {"h1", "h2"}
MCKinds == {"memory"}
MCCapacity == [h \in Hosts |-> [k \in Kinds |-> 1]]

Succeed == [success |-> TRUE, stderr |-> TRUE]
Fail == [success |-> FALSE, stderr |-> TRUE]
MaySucceed(tasks) == [t \in Tasks |-> {Succeed} \cup IF t \in tasks THEN {} ELSE {Fail}]

Plain ==
  [maxInstances |-> 1, maxQueuedInstances |-> 0, keepLast |-> FALSE,
   herdingPolicy |-> "AllSuccess", resources |-> [k \in Kinds |-> 0],
   balancing |-> "Host", hosts |-> <<"h1">>, onplan |-> <<>>,
   onstart |-> <<>>, onsuccess |-> <<>>, onfailure |-> <<>>,
   onnostderr |-> <<>>]

\* plantask actions: in the herd of the parent, with the default conditions;
\* the same waiting for others of the herd; and out of any herd.
Plan(t) == [task |-> t, lone |-> FALSE, force |-> FALSE, queuewhen |-> "",
            cancelwhen |-> "", watch |-> {}]
PlanWhen(t, op, watch) ==
  [Plan(t) EXCEPT !.queuewhen = op, !.watch = watch]
PlanLone(t) == [Plan(t) EXCEPT !.lone = TRUE]
Force(a) == [a EXCEPT !.force = TRUE]

-----------------------------------------------------------------------------
(* Tasks without herds: a needs resources, b runs on a cluster and may be   *)
(* forced.                                                                  *)

LoneTasks == {"a", "b"}
LoneTask ==
  "a" :> [Plain EXCEPT !.maxInstances = 2, !.maxQueuedInstances = 1,
                       !.resources = [k \in Kinds |-> 1],
                       !.onsuccess = << PlanLone("b") >>]
  @@ "b" :> [Plain EXCEPT !.maxQueuedInstances = 1, !.keepLast = TRUE,
                          !.balancing = "RoundRobin", !.hosts = <<"h1", "h2">>]

\* Another configuration has no a any more, and a larger pool.
LoneConfigs == {"ab", "b"}
LoneTasksOf ==
  "ab" :> LoneTask @@ "b" :> [LoneTask EXCEPT !["a"] = NullTask]
LonePool == "ab" :> 1 @@ "b" :> 2
LoneOnConfigLoad == "ab" :> <<>> @@ "b" :> << Plan("b") >>
LoneOutcomes == MaySucceed({"b"})
LoneRequests == {Plan("a"), Plan("b"), Force(Plan("b"))}

-----------------------------------------------------------------------------
(* A workflow: the herder plans r when it starts, which waits for s to      *)
(* succeed, and s.  There is one herder of each policy.                     *)

HerdTasks == Policies \cup {"s", "r"}
HerdTask ==
  [t \in HerdTasks |->
     CASE t = "NoWait" ->
            [Plain EXCEPT !.herdingPolicy = t,
                          !.onstart = << Plan("s"), Plan("r") >>]
       [] t \in Policies \ {"NoWait"} ->
            [Plain EXCEPT !.herdingPolicy = t,
               !.onstart = << PlanWhen("r", "AllSuccess", {"s"}), Plan("s") >>]
       [] OTHER -> Plain]
HerdConfigs == {"all", "nor"}
HerdTasksOf ==
  "all" :> HerdTask @@ "nor" :> [HerdTask EXCEPT !["r"] = NullTask]
HerdPool == "all" :> 2 @@ "nor" :> 1
HerdOutcomes == MaySucceed({"NoWait"})
HerdRequests == {Plan(t) : t \in Policies}

-----------------------------------------------------------------------------
(* Small workflows, with one configuration.                                 *)

OneConfig == {"c"}

FlowTasks == {"w", "s", "r"}
Flow ==
  "w" :> [Plain EXCEPT !.herdingPolicy = "AllSuccess",
            !.onstart = << Plan("s"), PlanWhen("r", "AllSuccess", {"s"}) >>]
  @@ "s" :> Plain @@ "r" :> Plain
FlowTasksOf == [c \in Configs |-> Flow]
FlowOutcomes == MaySucceed({"w", "r"})
FlowRequests == {Plan("w")}

TwoTasks == {"w", "s"}
OnStartHerd ==
  [c \in Configs |->
     "w" :> [Plain EXCEPT !.onstart = << Plan("s") >>] @@ "s" :> Plain]
AnyOutcome == MaySucceed({})

-----------------------------------------------------------------------------
(* What the theorems on herds suppose.                                     *)

ASSUME HerdHypotheses ==
  Tasks = HerdTasks =>
    /\ FailureLone /\ FixedTarget /\ HerdersFinishLone /\ SteadyPolicies
    /\ PlansOnceStarted /\ StartsUnwatched /\ NoWaitUnwatched
=============================================================================
