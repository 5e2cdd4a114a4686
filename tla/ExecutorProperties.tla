------------------------- MODULE ExecutorProperties -------------------------
(***************************************************************************)
(* What an executor promises.                                              *)
(***************************************************************************)
EXTENDS Executor

Process ==
  {None} \cup [id: Nat \ {0}, instance: Instances \cup {NoInstance},
               kind: {"try", "status", "abort"}]
Reply == {None} \cup [id: Nat \ {0}, instance: Instances]

PostedEvent ==
  [event: {"execute", "abort"}, instance: Instances]
  \cup [event: {"pollStatus"}, instance: Instances]
  \cup [event: {"delete"}, process: Process \ {None}, depth: Nat]

Frame ==
  [call: {"executeOneTry", "processError", "pause"}]
  \cup [call: {"stopOrRetry"}, success: BOOLEAN]
  \cup [call: {"processFinished"}, code: ExitCodes]
  \cup [call: {"replyHasFinished"}, reply: Reply \ {None}, success: BOOLEAN]

TypeOK ==
  /\ calls \in Seq(Frame)
  /\ posted \in Seq(PostedEvent)
  /\ instance \in Instances \cup {NoInstance}
  /\ remainingTries \in Nat
  /\ {abortable, aborting, earned, retrying, abortTimer, statusPollingTimer}
       \subseteq BOOLEAN
  /\ backgroundStatus \in {"Starting", "Started", "Aborting"}
  /\ process \in Process /\ reply \in Reply
  /\ running \subseteq Process \ {None} /\ looked \subseteq running
  /\ requested \subseteq Reply \ {None}
  /\ {given, available, aborts, tries, stops} \subseteq Nat
  /\ runningExecutors \subseteq Instances
  /\ stopSignals \in Seq([instance: Instances, success: BOOLEAN])
  /\ told \subseteq Instances

-----------------------------------------------------------------------------
View == INSTANCE ExecutorView WITH current <- instance

\* Instances are executed one at a time and each one is told to have stopped
\* once: no end of a process, reply, abort or timer stops an instance twice,
\* stops none, or stops the one before again (execute(), stopOrRetry()).
ImplementsExecution == View!Spec

\* A try is launched only while the instance is not being aborted, whether the
\* abort came during a try or during a pause (stopOrRetry()).
NoTryOnceAborted ==
  [][\/ process' \notin {process, None} /\ process'.kind = "try"
     \/ reply' \notin {reply, None}
     => ~aborting]_vars

\* An instance is tried at most maxtries times, and once if maxtries is zero.
TriesBounded ==
  instance # NoInstance =>
    tries + remainingTries <=
      IF Config[instance].maxTries = 0 THEN 1 ELSE Config[instance].maxTries

\* A step that signals that the instance has succeeded.
SignalsSuccess ==
  stops' # stops /\ stopSignals'[Len(stopSignals')].success

\* An instance is told to have succeeded only if one of its own commands, or
\* requests, has ended with success, or if it has nothing to do.
SuccessIsEarned == [][SignalsSuccess => earned \/ Mean = "Nothing"]_vars

\* What ends an instance is its own: no try comes after an abort, and no success
\* from a command, or a request, of another try (stopOrRetry(),
\* processFinished(), replyHasFinished()).
OutcomesAreEarned == NoTryOnceAborted /\ SuccessIsEarned

\* When the executor begins an instance, no process of a former one still runs,
\* that could be taken for its own: those that were taken for ended are deleted
\* before (processFinished(), QProcess::deleteLater()).
NothingLeftRunning ==
  [][instance = NoInstance /\ instance' # NoInstance => running = {}]_vars

\* The deadline of an instance does not abort the next one, and the status of
\* an instance that is not a background task is not polled (stopOrRetry()).
TimersAreOwn ==
  /\ abortTimer => instance # NoInstance /\ Config[instance].deadline
  /\ statusPollingTimer => Mean = "Background"

\* No abort of another instance waits for the executor while it has one: an
\* abort that comes after its instance has stopped reaches the executor before
\* the next instance does (doAbortTaskInstance(), taskInstanceStoppedOrCanceled()).
AbortsAreOwn ==
  \A k \in DOMAIN posted :
    posted[k].event = "abort" /\ instance # NoInstance
    => posted[k].instance = instance

\* An instance leaves nothing to the next one: no process that could be taken
\* for its own, no timer and no abort, whatever order they end in.
LeavesNothingBehind == NothingLeftRunning /\ [](TimersAreOwn /\ AbortsAreOwn)

\* Every instance that is not a background task stops.
EveryExecutionStops ==
  \A i \in Instances :
    instance = i /\ Config[i].mean # "Background" ~> i \in told
=============================================================================
