--------------------------- MODULE MailAlertChannel ---------------------------
(***************************************************************************)
(* The channel of libqron that sends alerts as mails, in a thread of its   *)
(* own.                                                                    *)
(*                                                                         *)
(* Each address has a queue of new alerts, canceled alerts and alerts to   *)
(* be reminded of.  Notices posted by the alerter fill the queues, and a   *)
(* single-shot timer processes a queue: one mail with everything that      *)
(* waits, unless the last one is too recent.  A mail that cannot be sent   *)
(* is tried again after a minute.  Every minute, too, all the queues are   *)
(* checked, for a processing that is late and for reminders.               *)
(*                                                                         *)
(* The unit of time is the minute, and dates are kept as ages: a mail older*)
(* than Cap minutes is Cap minutes old.  Timers of a queue that are due in *)
(* the same minute are one timer.                                          *)
(***************************************************************************)
EXTENDS Integers, Sequences, FiniteSets

CONSTANTS
  Addresses,     \* email addresses
  Alerts,        \* ids of alerts
  OneShot,       \* those that are emitted, the other ones are raised and canceled
  Configs,       \* configurations of the alerter
  IntMax,        \* the greatest int, in minutes
  Cap,           \* bound on ages
  MaxPending     \* bound on the alerts and cancellations that wait in a queue

Never == -2
NoDate == -2
RetryInterval == 1

Subscription == [addresses: Seq(Addresses), emit: BOOLEAN, cancel: BOOLEAN, reminder: BOOLEAN]
IsConfig(c) ==
  /\ c.subscriptions \in [Alerts -> Subscription]
  /\ \A a \in Alerts :
       LET sub == c.subscriptions[a]
       IN /\ sub.reminder => sub.emit
          /\ \A i, j \in DOMAIN sub.addresses : sub.addresses[i] = sub.addresses[j] => i = j
  /\ c.minDelayBetweenSend \in Nat \ {0}
  /\ c.delayBeforeFirstSend \in Nat
  /\ c.remindPeriod \in Nat

ASSUME ConfigsAssumption == \A c \in Configs : IsConfig(c)
ASSUME BoundsAssumption ==
  /\ OneShot \subseteq Alerts
  /\ IntMax \in Nat \ {0} /\ Cap \in Nat /\ MaxPending \in Nat
  /\ \A c \in Configs : c.minDelayBetweenSend <= Cap /\ c.remindPeriod < Cap

VARIABLES
  config,        \* _config
  queues,        \* _queues, where NoQueue stands for no queue
  timers,        \* the delays of the timers of each queue
  strays,        \* the delays of the timers of queues deleted since
  asyncDue,      \* the asynchronous processing is due
  raised         \* the stateful alerts that the alerter holds for raised

vars == <<config, queues, timers, strays, asyncDue, raised>>

NewQueue ==
  [alerts |-> <<>>, cancellations |-> <<>>, reminders |-> [x \in {} |-> Never],
   lastMail |-> Never, nextProcessing |-> NoDate]
NoQueue == [alerts |-> <<>>, cancellations |-> <<>>]

AlertStatus == {"Raised", "Canceled", "Nonexistent"}

Has(address) == queues[address] # NoQueue

\* A QSet keeps the element it has when an equal one is inserted, with the
\* reminded date it has: alerts are equal when their ids are.
Inserted(reminders, alert, date) ==
  [x \in DOMAIN reminders \cup {alert} |->
    IF x \in DOMAIN reminders THEN reminders[x] ELSE date]
Removed(reminders, alert) == [x \in DOMAIN reminders \ {alert} |-> reminders[x]]

\* A duration stored in an int.
ToInt(ms) == ((ms + IntMax) % (2 * IntMax)) - IntMax

Max2(x, y) == IF x < y THEN y ELSE x

\* A processed queue and the timers it gets.
Scheduled(queue, delay) ==
  [queue |-> [queue EXCEPT !.nextProcessing = delay], timers |-> {delay}]
Unscheduled(queue) == [queue |-> queue, timers |-> {}]

-----------------------------------------------------------------------------

Init ==
  /\ config \in Configs
  /\ queues = [a \in Addresses |-> NoQueue]
  /\ timers = [a \in Addresses |-> {}]
  /\ strays = {}
  /\ asyncDue = FALSE
  /\ raised = [a \in Alerts |-> FALSE]

\* The notices an alerter may post: it raises an alert that is not raised and
\* cancels one that is.
Expected(alert, status) ==
  CASE status = "Nonexistent" -> alert \in OneShot
    [] status = "Raised" -> alert \notin OneShot /\ ~raised[alert]
    [] status = "Canceled" -> alert \notin OneShot /\ raised[alert]

\* What the subscription says of the status of the alert; when it does not want
\* the notice the loop on its addresses stops at the first one.
Wanted(sub, status) == IF status = "Canceled" THEN sub.cancel ELSE sub.emit
Reached(sub, status) ==
  {sub.addresses[i] : i \in {j \in DOMAIN sub.addresses : Wanted(sub, status) \/ j = 1}}

WithReminder(queue, alert, status, sub) ==
  CASE status = "Raised" /\ sub.reminder ->
         [queue EXCEPT !.reminders = Inserted(@, alert, Never)]
    [] status = "Canceled" -> [queue EXCEPT !.reminders = Removed(@, alert)]
    [] OTHER -> queue

WithNotice(queue, alert, status) ==
  IF status = "Canceled"
  THEN [queue EXCEPT !.cancellations = Append(@, alert)]
  ELSE [queue EXCEPT !.alerts = Append(@, alert)]

Notified(address, alert, status, sub) ==
  LET queue == WithReminder(IF Has(address) THEN queues[address] ELSE NewQueue,
                            alert, status, sub)
      noticed == WithNotice(queue, alert, status)
  IN IF ~Wanted(sub, status) THEN Unscheduled(queue)
     ELSE IF queue.nextProcessing = NoDate THEN Scheduled(noticed, config.delayBeforeFirstSend)
     ELSE Unscheduled(noticed)

DoNotifyAlert(alert, status) ==
  LET sub == config.subscriptions[alert]
      reached == Reached(sub, status)
      notified == [a \in reached |-> Notified(a, alert, status, sub)]
  IN /\ Expected(alert, status)
     /\ \A a \in reached : Has(a) =>
          Len(queues[a].alerts) < MaxPending /\ Len(queues[a].cancellations) < MaxPending
     /\ raised' = [raised EXCEPT ![alert] = status = "Raised"]
     /\ queues' = [a \in Addresses |-> IF a \in reached THEN notified[a].queue ELSE queues[a]]
     /\ timers' = [a \in Addresses |->
                    IF a \in reached THEN timers[a] \cup notified[a].timers ELSE timers[a]]
     /\ UNCHANGED <<config, strays, asyncDue>>

HaveJob(queue) ==
  \/ queue.alerts # <<>> \/ queue.cancellations # <<>>
  \/ \E alert \in DOMAIN queue.reminders :
       /\ queue.reminders[alert] # Never
       /\ queue.reminders[alert] > config.remindPeriod

Reminded(queue) ==
  [queue EXCEPT !.reminders = [alert \in DOMAIN @ |-> Inserted(@, alert, 0)[alert]]]

\* Mutants: what a mail that fails should have said is forgotten, or not tried
\* again.
ProcessQueueForgetting(address, sent) ==
  LET queue == [queues[address] EXCEPT !.nextProcessing = NoDate]
      ms == ToInt(queue.lastMail)
  IN IF ~HaveJob(queue) THEN Unscheduled(queue)
     ELSE IF queue.lastMail = Never \/ ms >= config.minDelayBetweenSend
     THEN Unscheduled([Reminded(queue) EXCEPT
                        !.alerts = <<>>, !.cancellations = <<>>,
                        !.lastMail = IF sent THEN 0 ELSE @])
     ELSE Scheduled(Reminded(queue), Max2(config.minDelayBetweenSend - ms, 1))
ProcessQueueNotRetried(address, sent) ==
  LET queue == [queues[address] EXCEPT !.nextProcessing = NoDate]
      ms == ToInt(queue.lastMail)
  IN IF ~HaveJob(queue) THEN Unscheduled(queue)
     ELSE IF queue.lastMail = Never \/ ms >= config.minDelayBetweenSend
     THEN IF sent
          THEN Unscheduled([Reminded(queue) EXCEPT
                             !.alerts = <<>>, !.cancellations = <<>>, !.lastMail = 0])
          ELSE Unscheduled(Reminded(queue))
     ELSE Scheduled(Reminded(queue), Max2(config.minDelayBetweenSend - ms, 1))

\* sent says whether the mail server takes the mail.
ProcessQueue(address, sent) ==
  LET queue == [queues[address] EXCEPT !.nextProcessing = NoDate]
      ms == ToInt(queue.lastMail)
  IN IF ~HaveJob(queue) THEN Unscheduled(queue)
     ELSE IF queue.lastMail = Never \/ ms >= config.minDelayBetweenSend
     THEN IF sent
          THEN Unscheduled([Reminded(queue) EXCEPT
                             !.alerts = <<>>, !.cancellations = <<>>, !.lastMail = 0])
          ELSE Scheduled(Reminded(queue), RetryInterval)
     ELSE Scheduled(Reminded(queue), Max2(config.minDelayBetweenSend - ms, 1))

\* A timer of the queue expires.
ProcessTimer(address, sent) ==
  LET processed == ProcessQueue(address, sent)
  IN /\ 0 \in timers[address]
     /\ queues' = [queues EXCEPT ![address] = processed.queue]
     /\ timers' = [timers EXCEPT ![address] = (@ \ {0}) \cup processed.timers]
     /\ UNCHANGED <<config, strays, asyncDue, raised>>

\* The timer of a deleted queue reads its address in freed memory: it may still
\* be there, whether the address has a new queue or none.
StrayTimer ==
  /\ 0 \in strays
  /\ strays' = strays \ {0}
  /\ \/ UNCHANGED <<queues, timers>>
     \/ \E address \in {a \in Addresses : Has(a)}, sent \in BOOLEAN :
          LET processed == ProcessQueue(address, sent)
          IN /\ queues' = [queues EXCEPT ![address] = processed.queue]
             /\ timers' = [timers EXCEPT ![address] = @ \cup processed.timers]
  /\ UNCHANGED <<config, asyncDue, raised>>

\* Mutant: queues that are late are not looked for.
NeverLate(queue) == FALSE

\* A queue is late when its processing should have taken place, more than ten
\* seconds ago; a queue with reminders is processed when its last mail is old.
Late(queue) == queue.nextProcessing = -1
OldMail(queue) == queue.lastMail = Never \/ queue.lastMail > config.remindPeriod
ToBeChecked(queue) == Late(queue) \/ (DOMAIN queue.reminders # {} /\ OldMail(queue))

AsyncProcessing(sent) ==
  LET processed == [a \in {x \in Addresses : Has(x) /\ ToBeChecked(queues[x])} |->
                     ProcessQueue(a, sent[a])]
  IN /\ asyncDue
     /\ asyncDue' = FALSE
     /\ queues' = [a \in Addresses |->
                    IF a \in DOMAIN processed THEN processed[a].queue ELSE queues[a]]
     /\ timers' = [a \in Addresses |->
                    IF a \in DOMAIN processed THEN timers[a] \cup processed[a].timers
                                              ELSE timers[a]]
     /\ UNCHANGED <<config, strays, raised>>

ConfiguredAddresses(new) ==
  UNION {{new.subscriptions[alert].addresses[i] : i \in DOMAIN new.subscriptions[alert].addresses}
           : alert \in Alerts}

Removable(address, new) ==
  LET queue == queues[address]
  IN /\ Has(address)
     /\ \/ address \notin ConfiguredAddresses(new)
        \/ /\ queue.alerts = <<>> /\ queue.cancellations = <<>> /\ DOMAIN queue.reminders = {}
           /\ queue.lastMail = Never \/ queue.lastMail > new.remindPeriod

\* Queues are removed while they are iterated over, which may skip some, though
\* never the first one to be removed.
SetConfig(new) ==
  LET removable == {a \in Addresses : Removable(a, new)}
  IN \E removed \in SUBSET removable :
       /\ removed = {} => removable = {}
       /\ config' = new
       /\ queues' = [a \in Addresses |-> IF a \in removed THEN NoQueue ELSE queues[a]]
       /\ timers' = [a \in Addresses |-> IF a \in removed THEN {} ELSE timers[a]]
       /\ strays' = strays \cup UNION {timers[a] : a \in removed}
       /\ asyncDue' = TRUE
       /\ UNCHANGED raised

\* Some timers cannot fire, when time is not monotonic.
LoseTimer(address) ==
  /\ timers[address] # {}
  /\ \E delay \in timers[address] : timers' = [timers EXCEPT ![address] = @ \ {delay}]
  /\ UNCHANGED <<config, queues, strays, asyncDue, raised>>

Older(age) == IF age \in {Never, Cap} THEN age ELSE age + 1
Nearer(delays) == {d - 1 : d \in delays}
Aged(queue) ==
  [queue EXCEPT !.lastMail = Older(@),
                !.reminders = [alert \in DOMAIN @ |-> Older(@[alert])],
                !.nextProcessing = IF @ \in {NoDate, -1} THEN @ ELSE @ - 1]

\* A minute passes, once the thread has handled the events of the last one.
Tick ==
  /\ ~asyncDue
  /\ 0 \notin strays
  /\ \A a \in Addresses : 0 \notin timers[a]
  /\ queues' = [a \in Addresses |-> IF Has(a) THEN Aged(queues[a]) ELSE NoQueue]
  /\ timers' = [a \in Addresses |-> Nearer(timers[a])]
  /\ strays' = Nearer(strays)
  /\ asyncDue' = TRUE
  /\ UNCHANGED <<config, raised>>

Next ==
  \/ \E alert \in Alerts, status \in AlertStatus : DoNotifyAlert(alert, status)
  \/ \E a \in Addresses, sent \in BOOLEAN : ProcessTimer(a, sent)
  \/ StrayTimer
  \/ \E sent \in [Addresses -> BOOLEAN] : AsyncProcessing(sent)
  \/ \E new \in Configs : SetConfig(new)
  \/ \E a \in Addresses : LoseTimer(a)
  \/ Tick

Spec == Init /\ [][Next]_vars
=============================================================================
