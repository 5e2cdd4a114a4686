---------------------------- MODULE TaskInstance ----------------------------
(***************************************************************************)
(* The data of task instances.                                             *)
(*                                                                         *)
(* A TaskInstance object is a handle: all copies of an instance share one  *)
(* TaskInstanceData, which the scheduler thread and an executor thread     *)
(* both write without a lock.  The status of an instance is not stored: it *)
(* is derived from which of its four timestamps are set.  The timestamps   *)
(* are modelled by the sets of the ids that have them.                     *)
(***************************************************************************)
EXTENDS Integers, Sequences, FiniteSets, TaskWaitCondition

CONSTANTS
  Tasks,    \* the tasks of the configuration
  Hosts,    \* the hosts of the configuration
  NoHost,   \* the target of an instance that has none yet
  MaxId     \* bound on the instances ever created

ASSUME MaxIdAssumption == MaxId \in Nat
ASSUME NoHostAssumption == NoHost \notin Hosts

Ids == 1..MaxId

VARIABLES
  info,      \* by id, what the constructor sets and nothing changes
  queue,     \* ids whose _queue timestamp is set
  start,     \* ids whose _start timestamp is set
  stop,      \* ids whose _stop timestamp is set
  finish,    \* ids whose _finish timestamp is set
  success,   \* ids whose _success is true
  stderr,    \* ids that wrote to their standard error
  target     \* the host an instance was started on

instanceVars ==
  <<info, queue, start, stop, finish, success, stderr, target>>

\* No condition, or one of the operators: an empty condition evaluates to
\* false, as an unknown operator does.
Operator == TaskWaitOperator \cup {""}

\* The instances a condition watches: those of its herd that run one of the
\* tasks of watch, or the parent of the instance when watch is empty (the
\* default expression is %!parenttaskinstanceid).
Info == [task: Tasks, force: BOOLEAN, herdid: Ids, parentid: 0..MaxId,
         queuewhen: Operator, cancelwhen: Operator, watch: SUBSET Tasks]

\* The ids given so far.
Created == 1..Len(info)

InstanceTypeOK ==
  /\ info \in Seq(Info) /\ Len(info) <= MaxId
  /\ \A i \in Created : info[i].herdid \in Created /\ info[i].parentid < i
  /\ queue \subseteq Created /\ start \subseteq Created
  /\ stop \subseteq Created /\ finish \subseteq Created
  /\ success \subseteq Created /\ stderr \subseteq Created
  /\ target \in [Ids -> Hosts \cup {NoHost}]

InstanceInit ==
  /\ info = <<>>
  /\ queue = {} /\ start = {} /\ stop = {} /\ finish = {}
  /\ success = {} /\ stderr = {}
  /\ target = [i \in Ids |-> NoHost]

Status(i) ==
  IF i \in finish \cup stop
  THEN IF i \notin start THEN "Canceled"
       ELSE IF i \notin finish THEN "Waiting"
       ELSE IF i \in success THEN "Success" ELSE "Failure"
  ELSE IF i \in start THEN "Running"
  ELSE IF i \in queue THEN "Queued" ELSE "Planned"

StatusOf == [i \in Created |-> Status(i)]

IsFinished(i) == Status(i) \in FinishedStatus

IsHerder(i) == info[i].herdid = i

\* The constructor: an instance without a herd is its own herder.
NewInstance(task, force, herdid, queuewhen, cancelwhen, watch, parentid) ==
  LET id == Len(info) + 1
  IN  /\ info' = Append(info,
           [task |-> task, force |-> force,
            herdid |-> IF herdid = 0 THEN id ELSE herdid,
            parentid |-> parentid, queuewhen |-> queuewhen,
            cancelwhen |-> cancelwhen, watch |-> watch])
      /\ UNCHANGED <<queue, start, stop, finish, success, stderr, target>>
=============================================================================
