------------------------- MODULE TaskWaitCondition -------------------------
(***************************************************************************)
(* The task wait conditions of libqron: what a "queuewhen" or "cancelwhen" *)
(* condition of a planned task instance says of the instances it watches.  *)
(*                                                                         *)
(* The condition counts the watched instances by status (class Counters)   *)
(* and compares the counters; the condition that cancels an instance is    *)
(* guessed from the one that queues it through a table of conjugate        *)
(* operators.  This module has no state: TaskWait evaluates conditions on  *)
(* instances whose status changes, and Scheduler uses them on its herds.   *)
(***************************************************************************)
EXTENDS Naturals, FiniteSets

\* TaskInstance::TaskInstanceStatus, in the groups the counters distinguish.
UnstartedStatus == {"Planned", "Queued"}

\* Mutant: the missing [[fallthrough]] of the switch that counts.
UnfinishedWithoutFallthrough == {"Running", "Waiting"}

UnfinishedStatus == UnstartedStatus \cup {"Running", "Waiting"}
FinishedStatus == {"Success", "Failure", "Canceled"}
TaskInstanceStatus == UnfinishedStatus \cup FinishedStatus

TaskWaitOperator ==
  {"AllFinished", "AnyFinished", "AllSuccess", "AllFailure", "AllCanceled",
   "NoSuccess", "NoFailure", "NoCanceled", "AnySuccess", "AnyFailure",
   "AnyCanceled", "AnyNonSuccess", "AnyNonFailure", "AnyNonCanceled",
   "AllFinishedAnySuccess", "AllFinishedAnyFailure",
   "AllFinishedAnyCanceled", "AllStarted", "AnyStarted", "IsEmpty",
   "IsNotEmpty", "True", "False"}

\* Mutant: an operator without a row in the table is an unknown one.
NoConjugate(op) == "UnknownOperator"

\* The operator of the cancelwhen condition guessed from a queuewhen one.
CancelOperatorFromQueueOperator(op) ==
  CASE op = "AllFinished" -> "False"
    [] op = "AnyFinished" -> "IsEmpty"
    [] op = "AllSuccess" -> "AnyNonSuccess"
    [] op = "AllFailure" -> "AnyNonFailure"
    [] op = "AllCanceled" -> "AnyNonCanceled"
    [] op = "NoSuccess" -> "AnySuccess"
    [] op = "NoFailure" -> "AnyFailure"
    [] op = "NoCanceled" -> "AnyCanceled"
    [] op = "AnySuccess" -> "NoSuccess"
    [] op = "AnyFailure" -> "NoFailure"
    [] op = "AnyCanceled" -> "NoCanceled"
    [] op = "AnyNonSuccess" -> "AllSuccess"
    [] op = "AnyNonFailure" -> "AllFailure"
    [] op = "AnyNonCanceled" -> "AllCanceled"
    [] op = "AllFinishedAnySuccess" -> "NoSuccess"
    [] op = "AllFinishedAnyFailure" -> "NoFailure"
    [] op = "AllFinishedAnyCanceled" -> "NoCanceled"
    [] op = "AllStarted" -> "False"
    [] op = "AnyStarted" -> "IsEmpty"
    [] op = "IsEmpty" -> "IsNotEmpty"
    [] op = "IsNotEmpty" -> "IsEmpty"
    [] op = "True" -> "False"
    [] op = "False" -> "True"

-----------------------------------------------------------------------------
(* Counters: the instances of tasks whose id the condition names, counted   *)
(* by status.  An unstarted instance is counted as unfinished too.          *)

Counted(ids, tasks, status, statuses) ==
  {i \in ids \cap tasks : status[i] \in statuses}

Counters(ids, tasks, status) ==
  LET count(statuses) == Cardinality(Counted(ids, tasks, status, statuses))
  IN  [unstarted  |-> count(UnstartedStatus),
       unfinished |-> count(UnfinishedStatus),
       canceled   |-> count({"Canceled"}),
       failure    |-> count({"Failure"}),
       success    |-> count({"Success"})]

\* Counters::evaluate(): an unknown operator is false.
EvaluateCounters(op, c) ==
  CASE op = "AllFinished" -> c.unfinished = 0
    [] op = "AnyFinished" -> c.canceled + c.failure + c.success # 0
    [] op = "AllSuccess" -> c.unfinished + c.canceled + c.failure = 0
    [] op = "AllFailure" -> c.unfinished + c.canceled + c.success = 0
    [] op = "AllCanceled" -> c.unfinished + c.failure + c.success = 0
    [] op = "NoSuccess" -> c.unfinished + c.success = 0
    [] op = "NoFailure" -> c.unfinished + c.failure = 0
    [] op = "NoCanceled" -> c.unfinished + c.canceled = 0
    [] op = "AnySuccess" -> c.success # 0
    [] op = "AnyFailure" -> c.failure # 0
    [] op = "AnyCanceled" -> c.canceled # 0
    [] op = "AnyNonSuccess" -> c.canceled + c.failure # 0
    [] op = "AnyNonFailure" -> c.canceled + c.success # 0
    [] op = "AnyNonCanceled" -> c.failure + c.success # 0
    [] op = "AllFinishedAnySuccess" -> c.unfinished = 0 /\ c.success # 0
    [] op = "AllFinishedAnyFailure" -> c.unfinished = 0 /\ c.failure # 0
    [] op = "AllFinishedAnyCanceled" -> c.unfinished = 0 /\ c.canceled # 0
    [] op = "AllStarted" -> c.unstarted = 0
    [] op = "AnyStarted" ->
         c.canceled + c.failure + c.success + c.unfinished > c.unstarted
    [] op = "IsEmpty" -> c.unfinished + c.canceled + c.failure + c.success = 0
    [] op = "IsNotEmpty" ->
         c.unfinished + c.canceled + c.failure + c.success # 0
    [] op = "True" -> TRUE
    [] OTHER -> FALSE

\* TaskWaitConditionData::evaluate().
Evaluate(op, ids, tasks, status) ==
  EvaluateCounters(op, Counters(ids, tasks, status))

-----------------------------------------------------------------------------
(* What the operators mean, without counting.                              *)

AllIn(S, watched, status) == \A i \in watched : status[i] \in S
AnyIn(S, watched, status) == \E i \in watched : status[i] \in S

Meaning(op, watched, status) ==
  LET all(S) == AllIn(S, watched, status)
      any(S) == AnyIn(S, watched, status)
  IN  CASE op = "AllFinished" -> all(FinishedStatus)
        [] op = "AnyFinished" -> any(FinishedStatus)
        [] op = "AllSuccess" -> all({"Success"})
        [] op = "AllFailure" -> all({"Failure"})
        [] op = "AllCanceled" -> all({"Canceled"})
        [] op = "NoSuccess" -> all(FinishedStatus \ {"Success"})
        [] op = "NoFailure" -> all(FinishedStatus \ {"Failure"})
        [] op = "NoCanceled" -> all(FinishedStatus \ {"Canceled"})
        [] op = "AnySuccess" -> any({"Success"})
        [] op = "AnyFailure" -> any({"Failure"})
        [] op = "AnyCanceled" -> any({"Canceled"})
        [] op = "AnyNonSuccess" -> any(FinishedStatus \ {"Success"})
        [] op = "AnyNonFailure" -> any(FinishedStatus \ {"Failure"})
        [] op = "AnyNonCanceled" -> any(FinishedStatus \ {"Canceled"})
        [] op = "AllFinishedAnySuccess" ->
             all(FinishedStatus) /\ any({"Success"})
        [] op = "AllFinishedAnyFailure" ->
             all(FinishedStatus) /\ any({"Failure"})
        [] op = "AllFinishedAnyCanceled" ->
             all(FinishedStatus) /\ any({"Canceled"})
        [] op = "AllStarted" -> all(TaskInstanceStatus \ UnstartedStatus)
        [] op = "AnyStarted" -> any(TaskInstanceStatus \ UnstartedStatus)
        [] op = "IsEmpty" -> watched = {}
        [] op = "IsNotEmpty" -> watched # {}
        [] op = "True" -> TRUE
        [] OTHER -> FALSE
=============================================================================
