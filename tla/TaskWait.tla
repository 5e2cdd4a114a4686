------------------------------ MODULE TaskWait ------------------------------
(***************************************************************************)
(* A planned instance that waits for other instances of its herd.          *)
(*                                                                         *)
(* The watched instances advance through their statuses while the          *)
(* scheduler evaluates the queuewhen condition of the waiting instance,    *)
(* then the cancelwhen condition guessed from it, at arbitrary moments:    *)
(* reevaluation events are coalesced, so nothing says how many statuses    *)
(* change between two evaluations.                                         *)
(***************************************************************************)
EXTENDS TaskWaitCondition

CONSTANT Instances   \* the ids a condition may name

ASSUME InstancesAssumption == IsFiniteSet(Instances)

VARIABLES
  operator,     \* operator of the queuewhen condition
  named,        \* the ids its expression evaluates to
  herdedTasks,  \* the herded tasks, which the ids are looked up in
  statuses,     \* status of every herded task
  decision      \* what became of the waiting instance

waitVars == <<operator, named, herdedTasks, statuses, decision>>

QueueWhen == Evaluate(operator, named, herdedTasks, statuses)

CancelWhen ==
  Evaluate(CancelOperatorFromQueueOperator(operator),
           named, herdedTasks, statuses)

WaitTypeOK ==
  /\ operator \in TaskWaitOperator
  /\ named \subseteq Instances
  /\ herdedTasks \subseteq Instances
  /\ statuses \in [Instances -> TaskInstanceStatus]
  /\ decision \in {"planned", "queued", "canceled"}

WaitInit ==
  /\ operator \in TaskWaitOperator
  /\ named \in SUBSET Instances
  /\ herdedTasks \in SUBSET Instances
  /\ statuses = [i \in Instances |-> "Planned"]
  /\ decision = "planned"

\* What the timestamps of an instance make of its status, one step at a time.
NextStatus(s) ==
  CASE s = "Planned" -> {"Queued", "Canceled"}
    [] s = "Queued" -> {"Running", "Canceled", "Failure"}
    [] s = "Running" -> {"Waiting", "Success", "Failure"}
    [] s = "Waiting" -> {"Success", "Failure"}
    [] OTHER -> {}

Advance(i) ==
  /\ \E s \in NextStatus(statuses[i]) : statuses' = [statuses EXCEPT ![i] = s]
  /\ UNCHANGED <<operator, named, herdedTasks, decision>>

\* The body of the loop of enqueueAsManyTaskInstancesAsPossible().
EvaluateConditions ==
  /\ decision = "planned"
  /\ \/ QueueWhen /\ decision' = "queued"
     \/ ~QueueWhen /\ CancelWhen /\ decision' = "canceled"
  /\ UNCHANGED <<operator, named, herdedTasks, statuses>>

WaitNext == EvaluateConditions \/ \E i \in Instances : Advance(i)

\* A started instance stops, and the scheduler handles its posted events.
WaitFairness ==
  /\ WF_waitVars(EvaluateConditions)
  /\ \A i \in Instances : WF_waitVars(Advance(i))

WaitSpec == WaitInit /\ [][WaitNext]_waitVars
FairWaitSpec == WaitSpec /\ WaitFairness

-----------------------------------------------------------------------------
(* Properties.                                                             *)

\* The guessed cancelwhen condition (scheduler.cpp, guessCancelwhenCondition)
\* never holds together with the queuewhen condition it is guessed from, so
\* the order in which the two are evaluated does not matter.
NeverBoth == ~(QueueWhen /\ CancelWhen)

\* The operators are compared with 0 and with each other on counters that
\* overlap (Counters::evaluate); whatever the statuses, each operator says what
\* its name says of the instances watched.
CountersAreFaithful ==
  \A o \in TaskWaitOperator :
    Evaluate(o, named, herdedTasks, statuses)
      <=> Meaning(o, named \cap herdedTasks, statuses)

\* Whichever of the two conditions holds keeps holding while the watched
\* instances go on: an evaluation that comes late, because events were
\* coalesced, gives the answer an early one would have given.
VerdictIsFinal ==
  [][ /\ QueueWhen => QueueWhen'
      /\ CancelWhen => CancelWhen' ]_waitVars

\* The instance is always queued or canceled in the end: no operator leaves
\* it planned for ever once the instances it watches are finished.
EventuallyDecided == <>(decision # "planned")

=============================================================================
