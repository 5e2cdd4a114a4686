------------------------------ MODULE Executor ------------------------------
(***************************************************************************)
(* An executor of libqron: it takes one task instance at a time from the   *)
(* scheduler and executes it with tries, pauses between them, a deadline   *)
(* and aborts, until it tells the scheduler that the instance has stopped. *)
(*                                                                         *)
(* An executor has its own thread and event loop.  Its methods call each   *)
(* other, and the pause between two tries runs the event loop again, so    *)
(* the thread is modelled by its call stack: `calls` holds the calls that  *)
(* have still to be done, and the loop takes events when nothing is being  *)
(* called or when the call on top is a pause.                              *)
(*                                                                         *)
(* Each turn of the event loop sends the posted events, in order, until    *)
(* there are none, then looks once at which processes have ended, then at  *)
(* timers.                                                                 *)
(***************************************************************************)
EXTENDS Naturals, Sequences, FiniteSets

CONSTANTS
  InstanceCount,  \* how many instances the scheduler starts, in order
  Config,         \* the configuration of the task of each instance
  FailAtOnce,     \* the kinds of commands whose start may fail during the call
  MaxRunning,     \* bound on processes, from which status is not polled
  MaxAborts       \* bound on the aborts the scheduler requests

Instances == 1..InstanceCount
NoInstance == 0
None == [id |-> 0]  \* a null pointer to a process or a reply

\* "other" is any other code of a process, and the code -1 of one that crashed.
ExitCodes == {"zero", "one", "other"}

\* "Local" is a task executed by a process: local, ssh or docker. "Nothing" is
\* donothing; scatter is not modelled. A task is not valid when it lacks what
\* its mean requires. successes are the exit codes that mean success.
TaskConfig ==
  [mean: {"Local", "Background", "Http", "Nothing"}, valid: BOOLEAN,
   abortable: BOOLEAN, maxTries: Nat, pause: BOOLEAN, deadline: BOOLEAN,
   successes: SUBSET ExitCodes]

ASSUME ConfigAssumption ==
  /\ InstanceCount \in Nat
  /\ Config \in [Instances -> TaskConfig]
  /\ FailAtOnce \subseteq {"try", "status", "abort"}
  /\ MaxRunning \in Nat
  /\ MaxAborts \in Nat

VARIABLES
  \* The executor.
  calls,             \* the call stack, its top first
  posted,            \* the events posted to the thread
  looked,            \* the processes the loop looks at, none while it sends
                     \* events and fires timers
  instance, remainingTries, abortable,    \* _instance and its attributes
  aborting, retrying,
  abortTimer, statusPollingTimer,         \* whether these timers are active
  backgroundStatus,
  process, reply,    \* _process and _reply
  \* The world.
  running,           \* the processes that have not been seen to end
  requested,         \* the requests without a reply
  \* The scheduler.
  given,             \* how many instances were started
  available,         \* how many times it has this executor in its pool
  runningExecutors,  \* the instances it knows this executor runs
  stopSignals,       \* the taskInstanceStopped signals it has to handle
  aborts,            \* how many aborts were requested
  \* History.
  tries,             \* how many times the current instance was tried
  earned,            \* whether a command of its own succeeded
  told, stops        \* the instances signaled to have stopped, and how often

taskVars == <<instance, remainingTries, abortable>>
flagVars == <<aborting, retrying>>
timerVars == <<abortTimer, statusPollingTimer>>
worldVars == <<running, requested>>
schedulerVars == <<given, available, runningExecutors, stopSignals, aborts>>
toldVars == <<told, stops>>
vars == <<calls, posted, looked, taskVars, flagVars, timerVars,
          backgroundStatus, process, reply, worldVars, schedulerVars,
          tries, earned, toldVars>>

\* The mean and the configuration of the current instance, null or not.
Mean == IF instance = NoInstance THEN "Unknown" ELSE Config[instance].mean
Pause == instance # NoInstance /\ Config[instance].pause

-----------------------------------------------------------------------------
(* The event loop.                                                         *)

Call(name) == [call |-> name]
Stopping(success) == [call |-> "stopOrRetry", success |-> success]
Finished(code) == [call |-> "processFinished", code |-> code]
Replied(r, success) ==
  [call |-> "replyHasFinished", reply |-> r, success |-> success]
Calling(name) == calls # <<>> /\ Head(calls).call = name
Looping == calls = <<>> \/ Calling("pause")

\* How many pauses run the event loop inside one another.
Depth(stack) == Cardinality({k \in DOMAIN stack : stack[k].call = "pause"})

Event(name, i) == [event |-> name, instance |-> i]
Deletion(p) == [event |-> "delete", process |-> p, depth |-> Depth(calls)]

\* A deferred deletion waits for the loop that posted it.
Ripe(e) == e.event = "delete" => Depth(calls) <= e.depth

\* The loop takes the first posted event that it may handle.
RipeEvents == {k \in DOMAIN posted : Ripe(posted[k])}

Handling(k, name) ==
  /\ Looping
  /\ k \in RipeEvents /\ \A j \in RipeEvents : k <= j
  /\ posted[k].event = name
  /\ posted' = SubSeq(posted, 1, k - 1) \o SubSeq(posted, k + 1, Len(posted))
  /\ looked' = {}

-----------------------------------------------------------------------------
(* Commands and requests.                                                  *)

\* A number that no process or request has that may still be told apart.
NewId ==
  LET deleted == {posted[k].process.id :
                    k \in {j \in DOMAIN posted : posted[j].event = "delete"}}
      replied == {calls[k].reply.id :
                    k \in {j \in DOMAIN calls : calls[j].call = "replyHasFinished"}}
      used == {x.id : x \in running \cup requested \cup {process, reply}}
              \cup deleted \cup replied
  IN  CHOOSE n \in 1..(Cardinality(used) + 1) :
        n \notin used /\ \A m \in 1..(n - 1) : m \in used

\* execProcess() overwrites _process, whatever it was. The command starts, or
\* the error that it cannot be started is signaled during the call.
ExecProcess(kind, rest) ==
  LET p == [id |-> NewId, instance |-> instance, kind |-> kind]
  IN  /\ process' = p
      /\ \/ running' = running \cup {p} /\ calls' = rest
         \/ /\ kind \in FailAtOnce
            /\ running' = running /\ calls' = <<Call("processError")>> \o rest
      /\ UNCHANGED requested

PerformRequest(rest) ==
  LET r == [id |-> NewId, instance |-> instance]
  IN  \/ /\ reply' = r
         /\ requested' = requested \cup {r}
         /\ calls' = rest
         /\ UNCHANGED running
      \/ /\ reply' = None
         /\ calls' = <<Stopping(FALSE)>> \o rest
         /\ UNCHANGED worldVars

-----------------------------------------------------------------------------
(* Executing an instance.                                                  *)

Execute ==
  /\ \E k \in DOMAIN posted :
       /\ Handling(k, "execute")
       /\ LET i == posted[k].instance IN
            /\ instance' = i
            /\ remainingTries' = Config[i].maxTries
            /\ abortTimer' = (Config[i].deadline \/ abortTimer)
  /\ calls' = <<Call("executeOneTry")>> \o calls
  /\ abortable' = FALSE /\ aborting' = FALSE /\ retrying' = FALSE
  /\ tries' = 0 /\ earned' = FALSE
  /\ UNCHANGED <<statusPollingTimer, backgroundStatus, process,
                 reply, worldVars, schedulerVars, toldVars>>

\* Mutant: a try is not counted.
ForgetToConsume == UNCHANGED remainingTries
ConsumeOneTry == remainingTries' = IF remainingTries = 0 THEN 0
                                   ELSE remainingTries - 1
ConsumeAllTries == remainingTries' = 0

DoNothing ==
  /\ Mean = "Nothing" /\ Config[instance].valid
  /\ ConsumeOneTry
  /\ calls' = <<Stopping(TRUE)>> \o Tail(calls)
  /\ UNCHANGED <<abortable, statusPollingTimer, backgroundStatus, process,
                 reply, worldVars>>

\* A null instance, or one that lacks what its mean requires.
CannotExecute ==
  /\ Mean = "Unknown" \/ ~Config[instance].valid
  /\ ConsumeAllTries
  /\ calls' = <<Stopping(FALSE)>> \o Tail(calls)
  /\ UNCHANGED <<abortable, statusPollingTimer, backgroundStatus, process,
                 reply, worldVars>>

LocalMean ==
  /\ Mean = "Local" /\ Config[instance].valid
  /\ ConsumeOneTry
  /\ abortable' = Config[instance].abortable
  /\ ExecProcess("try", Tail(calls))
  /\ UNCHANGED <<statusPollingTimer, backgroundStatus, reply>>

BackgroundStart ==
  /\ Mean = "Background" /\ Config[instance].valid
  /\ ConsumeOneTry
  /\ abortable' = Config[instance].abortable
  /\ backgroundStatus' = "Starting"
  /\ statusPollingTimer' = TRUE
  /\ ExecProcess("try", Tail(calls))
  /\ UNCHANGED reply

HttpMean ==
  /\ Mean = "Http" /\ Config[instance].valid
  /\ ConsumeOneTry
  /\ abortable' = TRUE
  /\ PerformRequest(Tail(calls))
  /\ UNCHANGED <<statusPollingTimer, backgroundStatus, process>>

ExecuteOneTry ==
  /\ Calling("executeOneTry")
  /\ tries' = tries + 1
  /\ \/ DoNothing
     \/ CannotExecute
     \/ LocalMean
     \/ BackgroundStart
     \/ HttpMean
  /\ UNCHANGED <<posted, looked, instance, flagVars, abortTimer,
                 schedulerVars, earned, toldVars>>

-----------------------------------------------------------------------------
(* The ends of processes and requests.                                     *)

\* Mutant: finished() is expected after any error.
ProcessErrorIgnored ==
  /\ Calling("processError")
  /\ calls' = Tail(calls)
  /\ UNCHANGED <<posted, looked, taskVars, flagVars, timerVars,
                 backgroundStatus, process, reply, worldVars, schedulerVars,
                 tries, earned, toldVars>>

\* Kills _process, whichever process the error comes from.
ProcessError ==
  /\ Calling("processError")
  /\ calls' = (IF process = None THEN <<>> ELSE <<Finished("other")>>)
              \o Tail(calls)
  /\ UNCHANGED <<posted, looked, taskVars, flagVars, timerVars,
                 backgroundStatus, process, reply, worldVars, schedulerVars,
                 tries, earned, toldVars>>

\* Mutant: the end of an abort command is taken for a status.
BackgroundVerdictFallingThrough(code) ==
  [stopping |-> code # "zero",
   success |-> backgroundStatus # "Starting" /\ code = "one"]

\* How a background task goes on when one of its commands ends: whether it
\* stops, and with which success.
BackgroundVerdict(code) ==
  CASE backgroundStatus = "Starting" ->
         [stopping |-> code # "zero", success |-> FALSE]
    [] backgroundStatus = "Started" ->
         [stopping |-> code # "zero", success |-> code = "one"]
    [] backgroundStatus = "Aborting" ->
         [stopping |-> FALSE, success |-> FALSE]

\* The end of a process is taken for the end of _process, whichever it is.
Verdict(code) ==
  CASE Mean = "Background" -> BackgroundVerdict(code)
    [] Mean = "Local" ->
         [stopping |-> TRUE, success |-> code \in Config[instance].successes]
    [] OTHER -> [stopping |-> TRUE, success |-> code = "zero"]

\* Mutant: no deleteLater().
NotDeleted(p) == <<>>

\* QProcess::deleteLater().
Deleted(p) == <<Deletion(p)>>

ProcessFinished ==
  /\ Calling("processFinished")
  /\ IF process = None
     THEN /\ calls' = Tail(calls)
          /\ UNCHANGED <<posted, backgroundStatus, process>>
     ELSE LET verdict == Verdict(Head(calls).code)
              polled == Mean = "Background" /\ backgroundStatus = "Aborting"
          IN  /\ backgroundStatus' =
                   IF Mean = "Background" THEN "Started" ELSE backgroundStatus
              /\ posted' = posted
                   \o (IF polled THEN <<Event("pollStatus", instance)>> ELSE <<>>)
                   \o Deleted(process)
              /\ process' = None
              /\ calls' = (IF verdict.stopping THEN <<Stopping(verdict.success)>>
                           ELSE <<>>) \o Tail(calls)
  /\ UNCHANGED <<looked, taskVars, flagVars, timerVars, reply, worldVars,
                 schedulerVars, tries, earned, toldVars>>

\* The reply of a request that is no longer _reply is ignored.
ReplyHasFinished ==
  /\ Calling("replyHasFinished")
  /\ IF reply = None \/ Head(calls).reply # reply
     THEN calls' = Tail(calls) /\ UNCHANGED reply
     ELSE /\ calls' = <<Stopping(Head(calls).success)>> \o Tail(calls)
          /\ reply' = None
  /\ UNCHANGED <<posted, looked, taskVars, flagVars, timerVars,
                 backgroundStatus, process, worldVars, schedulerVars,
                 tries, earned, toldVars>>

-----------------------------------------------------------------------------
(* Stopping, or trying again.                                              *)

\* The executor signals that the instance has stopped, and forgets it.
EmitStopped(success, rest) ==
  /\ stopSignals' =
       Append(stopSignals, [instance |-> instance, success |-> success])
  /\ told' = told \cup ({instance} \ {NoInstance})
  /\ stops' = stops + 1
  /\ instance' = NoInstance /\ remainingTries' = 0 /\ abortable' = FALSE
  /\ calls' = rest
  /\ UNCHANGED <<given, available, runningExecutors, aborts>>

\* Mutant: the timers are not stopped.
StopKeepingTimers(success, rest) ==
  EmitStopped(success, rest) /\ UNCHANGED timerVars

Stop(success, rest) ==
  EmitStopped(success, rest) /\ abortTimer' = FALSE /\ statusPollingTimer' = FALSE

Again(success) == ~success /\ remainingTries > 0 /\ ~aborting

Retry(rest) ==
  /\ calls' = <<Call(IF Pause THEN "pause" ELSE "executeOneTry")>> \o rest
  /\ UNCHANGED <<taskVars, timerVars, schedulerVars, toldVars>>

StopOrRetry ==
  /\ Calling("stopOrRetry")
  /\ LET success == Head(calls).success
         rest == Tail(calls)
     IN  IF retrying
         THEN /\ calls' = rest
              /\ UNCHANGED <<posted, process, reply, taskVars, timerVars,
                             schedulerVars, toldVars>>
         ELSE IF Again(success)
         THEN /\ posted' = posted \o (IF process = None THEN <<>>
                                      ELSE Deleted(process))
              /\ process' = None /\ reply' = None
              /\ Retry(rest)
         ELSE /\ Stop(success, rest)
              /\ UNCHANGED <<posted, process, reply>>
  /\ UNCHANGED <<looked, flagVars, backgroundStatus, worldVars,
                 tries, earned>>

\* The pause between two tries ends in time, or as soon as the instance is
\* being aborted.
PauseEnds ==
  /\ Calling("pause")
  /\ IF aborting
     THEN Stop(FALSE, Tail(calls))
     ELSE /\ calls' = <<Call("executeOneTry")>> \o Tail(calls)
          /\ UNCHANGED <<taskVars, timerVars, schedulerVars, toldVars>>
  /\ UNCHANGED <<posted, looked, flagVars, backgroundStatus, process,
                 reply, worldVars, tries, earned>>

-----------------------------------------------------------------------------
(* Polling the status of background tasks, and aborting.                   *)

PollStatus ==
  /\ IF backgroundStatus = "Started"
     THEN ExecProcess("status", calls)
     ELSE UNCHANGED <<calls, process, worldVars>>
  /\ UNCHANGED <<taskVars, flagVars, timerVars, backgroundStatus, reply,
                 schedulerVars, tries, earned, toldVars>>

AbortProcess ==
  /\ Mean \in {"Local", "Nothing", "Unknown"}
  /\ UNCHANGED <<calls, backgroundStatus, process, worldVars, earned>>

BackgroundAbort ==
  /\ Mean = "Background"
  /\ IF backgroundStatus = "Started"
     THEN backgroundStatus' = "Aborting" /\ ExecProcess("abort", calls)
     ELSE UNCHANGED <<calls, backgroundStatus, process, worldVars>>
  /\ UNCHANGED earned

\* QNetworkReply::abort() signals an error, then the end, during the call. The
\* status line may have been received by then.
AbortRequest ==
  /\ Mean = "Http"
  /\ \/ /\ reply # None
        /\ \E success \in BOOLEAN :
             /\ calls' = <<Replied(reply, success), Replied(reply, success)>>
                         \o calls
             /\ earned' = (earned \/ success)
        /\ requested' = requested \ {reply}
     \/ reply = None /\ UNCHANGED <<calls, requested, earned>>
  /\ UNCHANGED <<backgroundStatus, process, running>>

Abort ==
  /\ \/ /\ instance = NoInstance \/ ~abortable
        /\ UNCHANGED <<calls, aborting, backgroundStatus, process, worldVars,
                       earned>>
     \/ /\ instance # NoInstance /\ abortable
        /\ aborting' = TRUE
        /\ AbortProcess \/ BackgroundAbort \/ AbortRequest
  /\ UNCHANGED <<taskVars, retrying, statusPollingTimer, reply, schedulerVars,
                 tries, toldVars>>

-----------------------------------------------------------------------------
(* What the event loop handles, besides execute().                         *)

PostedAbort ==
  /\ \E k \in DOMAIN posted : Handling(k, "abort")
  /\ Abort
  /\ UNCHANGED abortTimer

PostedPollStatus ==
  /\ \E k \in DOMAIN posted : Handling(k, "pollStatus")
  /\ PollStatus

\* Deleting a process that still runs kills it, which signals that it crashed,
\* then that it finished.
PostedDelete ==
  /\ \E k \in DOMAIN posted :
       /\ Handling(k, "delete")
       /\ LET p == posted[k].process IN
            /\ calls' = (IF p \in running
                         THEN <<Call("processError"), Finished("other")>>
                         ELSE <<>>) \o calls
            /\ running' = running \ {p}
  /\ UNCHANGED <<taskVars, flagVars, timerVars, backgroundStatus,
                 process, reply, requested, schedulerVars, tries,
                 earned, toldVars>>

\* The abort timer is single-shot, the other one is periodic.
AbortTimerFires ==
  /\ Looping /\ abortTimer
  /\ abortTimer' = FALSE
  /\ looked' = {}
  /\ Abort
  /\ UNCHANGED posted

StatusPollingTimerFires ==
  /\ Looping /\ statusPollingTimer
  /\ Cardinality(running) < MaxRunning
  /\ looked' = {}
  /\ PollStatus
  /\ UNCHANGED posted

\* What the process of p tells the executor when it ends.
Succeeds(p, code) ==
  \/ p.kind = "status" /\ code = "one"
  \/ /\ p.kind = "try" /\ Config[p.instance].mean = "Local"
     /\ code \in Config[p.instance].successes

\* A process exits with a code, crashes, which is signaled twice, or could not
\* be started, which is signaled once.
ProcessEnds ==
  /\ Looping
  /\ \E p \in running :
       /\ RipeEvents = {} \/ p \in looked
       /\ looked' = (IF RipeEvents = {} THEN running ELSE looked) \ {p}
       /\ running' = running \ {p}
       /\ \/ \E code \in ExitCodes :
               /\ calls' = <<Finished(code)>> \o calls
               /\ earned' = (earned \/ (p.instance = instance /\ Succeeds(p, code)))
          \/ /\ calls' = <<Call("processError"), Finished("other")>> \o calls
             /\ UNCHANGED earned
          \/ /\ calls' = <<Call("processError")>> \o calls
             /\ UNCHANGED earned
  /\ UNCHANGED <<posted, taskVars, flagVars, timerVars, backgroundStatus,
                 process, reply, requested, schedulerVars, tries,
                 toldVars>>

\* A request ends with a reply, or with an error followed by the end.
RequestEnds ==
  /\ Looping
  /\ \E r \in requested, success \in BOOLEAN :
       /\ requested' = requested \ {r}
       /\ earned' = (earned \/ (r.instance = instance /\ success))
       /\ \/ calls' = <<Replied(r, success)>> \o calls
          \/ calls' = <<Replied(r, success), Replied(r, success)>> \o calls
  /\ UNCHANGED <<posted, looked, taskVars, flagVars, timerVars,
                 backgroundStatus, process, reply, running,
                 schedulerVars, tries, toldVars>>

-----------------------------------------------------------------------------
(* The scheduler, as far as one executor sees it.                          *)

executorVars == <<calls, looked, taskVars, flagVars, timerVars,
                  backgroundStatus, process, reply, worldVars, tries, earned,
                  toldVars>>

StartTaskInstance ==
  /\ available > 0 /\ given < InstanceCount
  /\ available' = available - 1
  /\ given' = given + 1
  /\ posted' = Append(posted, Event("execute", given + 1))
  /\ runningExecutors' = runningExecutors \cup {given + 1}
  /\ UNCHANGED <<stopSignals, aborts, executorVars>>

AbortTaskInstance ==
  /\ aborts < MaxAborts
  /\ aborts' = aborts + 1
  /\ \E i \in runningExecutors : posted' = Append(posted, Event("abort", i))
  /\ UNCHANGED <<given, available, runningExecutors, stopSignals, executorVars>>

TaskInstanceStopped ==
  /\ stopSignals # <<>>
  /\ available' = available + 1
  /\ runningExecutors' = runningExecutors \ {Head(stopSignals).instance}
  /\ stopSignals' = Tail(stopSignals)
  /\ UNCHANGED <<given, aborts, posted, executorVars>>

-----------------------------------------------------------------------------
\* _backgroundStatus is not initialized: any value will do, it is only read
\* once a background task has set it.
Init ==
  /\ calls = <<>> /\ posted = <<>> /\ looked = {}
  /\ instance = NoInstance /\ remainingTries = 0 /\ abortable = FALSE
  /\ aborting = FALSE /\ retrying = FALSE
  /\ abortTimer = FALSE /\ statusPollingTimer = FALSE
  /\ backgroundStatus = "Starting"
  /\ process = None /\ reply = None
  /\ running = {} /\ requested = {}
  /\ given = 0 /\ available = 1 /\ runningExecutors = {}
  /\ stopSignals = <<>> /\ aborts = 0
  /\ tries = 0 /\ earned = FALSE
  /\ told = {} /\ stops = 0

\* The thread does what it has begun.
Step == ExecuteOneTry \/ ProcessError \/ ProcessFinished \/ ReplyHasFinished
        \/ StopOrRetry

HandlePosted == Execute \/ PostedAbort \/ PostedPollStatus \/ PostedDelete

Next ==
  \/ Step
  \/ HandlePosted
  \/ PauseEnds
  \/ AbortTimerFires
  \/ StatusPollingTimerFires
  \/ ProcessEnds
  \/ RequestEnds
  \/ StartTaskInstance
  \/ AbortTaskInstance
  \/ TaskInstanceStopped

Spec == Init /\ [][Next]_vars

\* Threads run, pauses are bounded, commands and requests end.
FairSpec ==
  /\ Spec
  /\ WF_vars(Step) /\ WF_vars(HandlePosted) /\ WF_vars(PauseEnds)
  /\ WF_vars(ProcessEnds) /\ WF_vars(RequestEnds)
=============================================================================
