------------------------------ MODULE MailProofs ------------------------------
(***************************************************************************)
(* Proofs about the mail channel, for any addresses, alerts, delays and    *)
(* limits.                                                                 *)
(*                                                                         *)
(* The inductive invariant is one about each queue: what it holds has its  *)
(* type, no reminder has a date, and if it has notices its processing is   *)
(* scheduled.                                                              *)
(***************************************************************************)
EXTENDS MailProperties, TLAPS

\* No alert was ever reminded of.
Undated(q) == \A x \in DOMAIN q.reminders : q.reminders[x] = Never

Good(q) ==
  /\ q \in Queue /\ Undated(q)
  /\ q.alerts # <<>> \/ q.cancellations # <<>> => q.nextProcessing # NoDate

\* The timers of a queue are deleted with it.
TimersHaveQueue == \A a \in Addresses : timers[a] # {} => Has(a)

Inv ==
  /\ TypeOK /\ TimersHaveQueue
  /\ \A a \in Addresses : Has(a) => Good(queues[a])

-----------------------------------------------------------------------------
(* Operators on a queue.                                                   *)

LEMMA BoundsProperties ==
  /\ IntMax \in Nat \ {0} /\ Cap \in Nat /\ OneShot \subseteq Alerts
  /\ \A c \in Configs : /\ c.minDelayBetweenSend \in Nat \ {0}
                        /\ c.delayBeforeFirstSend \in Nat
                        /\ c.remindPeriod \in Nat
                        /\ c.subscriptions \in [Alerts -> Subscription]
BY BoundsAssumption, ConfigsAssumption DEF IsConfig

\* An age that an int cannot hold is read as an earlier one, never as a later one.
LEMMA ToIntIsEarlier ==
  ASSUME NEW age \in Ages
  PROVE  /\ ToInt(age) \in Int
         /\ age # Never => ToInt(age) <= age
<1> DEFINE m == 2 * IntMax
           x == age + IntMax
<1>1. m \in Nat /\ m > 0 /\ x \in Int /\ IntMax \in Nat /\ age \in Int
  BY BoundsProperties DEF Ages, Never
<1>2. ToInt(age) = (x % m) - IntMax
  BY DEF ToInt
<1> HIDE DEF m, x
<1>3. x % m \in Int
  BY <1>1
<1>4. x >= 0 => x % m <= x
  BY <1>1
<1>5. age # Never => x >= 0
  BY <1>1 DEF Ages, x
<1> QED BY <1>1, <1>2, <1>3, <1>4, <1>5 DEF x

LEMMA RemindersProperties ==
  ASSUME NEW r \in Reminders
  PROVE  /\ DOMAIN r \subseteq Alerts /\ r \in [DOMAIN r -> Ages]
         /\ \A alert \in Alerts, d \in Ages :
              /\ Inserted(r, alert, d) \in Reminders
              /\ DOMAIN Inserted(r, alert, d) = DOMAIN r \cup {alert}
              /\ Removed(r, alert) \in Reminders
              /\ DOMAIN Removed(r, alert) = DOMAIN r \ {alert}
<1>1. PICK ids \in SUBSET Alerts : r \in [ids -> Ages]
  BY DEF Reminders
<1>2. \A more \in SUBSET Alerts : \A f : f \in [more -> Ages] => f \in Reminders
  BY DEF Reminders
<1>3. ASSUME NEW alert \in Alerts, NEW d \in Ages
      PROVE  /\ Inserted(r, alert, d) \in Reminders
             /\ DOMAIN Inserted(r, alert, d) = DOMAIN r \cup {alert}
             /\ Removed(r, alert) \in Reminders
             /\ DOMAIN Removed(r, alert) = DOMAIN r \ {alert}
  <2>1. Inserted(r, alert, d) \in [DOMAIN r \cup {alert} -> Ages]
    BY <1>1 DEF Inserted
  <2>2. Removed(r, alert) \in [DOMAIN r \ {alert} -> Ages]
    BY <1>1 DEF Removed
  <2>3. DOMAIN r \cup {alert} \in SUBSET Alerts /\ DOMAIN r \ {alert} \in SUBSET Alerts
    BY <1>1
  <2> QED BY <1>2, <2>1, <2>2, <2>3
<1> QED BY <1>1, <1>3

\* A queue is not the absence of one.
LEMMA QueueIsOne ==
  ASSUME NEW q \in Queue
  PROVE  q # NoQueue
BY DEF Queue, NoQueue

LEMMA NewQueueGood ==
  /\ Good(NewQueue)
  /\ NewQueue.alerts = <<>> /\ NewQueue.cancellations = <<>>
  /\ DOMAIN NewQueue.reminders = {} /\ NewQueue.lastMail = Never
<1> DEFINE r == [x \in {} |-> Never]
<1>1. r \in Reminders
  <2>1. r \in [{} -> Ages]
    OBVIOUS
  <2> QED BY <2>1 DEF Reminders
<1>2. NewQueue.reminders = r
  BY DEF NewQueue
<1>3. NewQueue \in Queue
  BY <1>1 DEF NewQueue, Queue, Ages
<1> QED BY <1>2, <1>3 DEF Good, Undated, NewQueue

\* The alerts to be reminded of after a notice.
RemindedAfter(ids, alert, status, sub) ==
  CASE status = "Raised" /\ sub.reminder -> ids \cup {alert}
    [] status = "Canceled" -> ids \ {alert}
    [] OTHER -> ids

\* What a notice makes of a queue.
LEMMA WithReminderGood ==
  ASSUME NEW q, Good(q), NEW alert \in Alerts, NEW status \in AlertStatus,
         NEW sub \in Subscription
  PROVE  LET r == WithReminder(q, alert, status, sub)
         IN /\ Good(r)
            /\ r.alerts = q.alerts /\ r.cancellations = q.cancellations
            /\ r.lastMail = q.lastMail /\ r.nextProcessing = q.nextProcessing
            /\ DOMAIN r.reminders = RemindedAfter(DOMAIN q.reminders, alert, status, sub)
<1>1. q \in Queue /\ q.reminders \in Reminders /\ Never \in Ages
  BY DEF Good, Queue, Ages
<1>2. ASSUME NEW new \in Reminders, \A x \in DOMAIN new : new[x] = Never
      PROVE  LET r == [q EXCEPT !.reminders = new]
             IN /\ Good(r) /\ r.reminders = new
                /\ r.alerts = q.alerts /\ r.cancellations = q.cancellations
                /\ r.lastMail = q.lastMail /\ r.nextProcessing = q.nextProcessing
  BY <1>1, <1>2 DEF Good, Undated, Queue
<1> DEFINE i == Inserted(q.reminders, alert, Never)
           d == Removed(q.reminders, alert)
<1>3. /\ i \in Reminders /\ DOMAIN i = DOMAIN q.reminders \cup {alert}
      /\ \A x \in DOMAIN i : i[x] = Never
  <2>1. i \in Reminders /\ DOMAIN i = DOMAIN q.reminders \cup {alert}
    BY <1>1, RemindersProperties
  <2> QED BY <2>1 DEF Inserted, Good, Undated
<1>4. /\ d \in Reminders /\ DOMAIN d = DOMAIN q.reminders \ {alert}
      /\ \A x \in DOMAIN d : d[x] = Never
  <2>1. d \in Reminders /\ DOMAIN d = DOMAIN q.reminders \ {alert}
    BY <1>1, RemindersProperties
  <2> QED BY <2>1 DEF Removed, Good, Undated
<1>5. CASE status = "Raised" /\ sub.reminder
  <2>1. WithReminder(q, alert, status, sub) = [q EXCEPT !.reminders = i]
    BY <1>5 DEF WithReminder
  <2> HIDE DEF i
  <2> QED BY <1>2, <1>3, <1>5, <2>1 DEF RemindedAfter
<1>6. CASE status = "Canceled"
  <2>1. WithReminder(q, alert, status, sub) = [q EXCEPT !.reminders = d]
    BY <1>6 DEF WithReminder
  <2> HIDE DEF d
  <2> QED BY <1>2, <1>4, <1>6, <2>1 DEF RemindedAfter
<1>7. CASE ~(status = "Raised" /\ sub.reminder) /\ status # "Canceled"
  BY <1>7 DEF WithReminder, RemindedAfter
<1> QED BY <1>5, <1>6, <1>7

LEMMA NotifiedGood ==
  ASSUME Inv, NEW a \in Addresses, NEW alert \in Alerts, NEW status \in AlertStatus,
         NEW sub \in Subscription
  PROVE  LET q == IF Has(a) THEN queues[a] ELSE NewQueue
             n == Notified(a, alert, status, sub).queue
             to == Wanted(sub, status)
         IN /\ Good(n)
            /\ Notified(a, alert, status, sub).timers \subseteq Nat
            /\ n.alerts = IF status # "Canceled" /\ to THEN Append(q.alerts, alert)
                          ELSE q.alerts
            /\ n.cancellations = IF status = "Canceled" /\ to
                                 THEN Append(q.cancellations, alert)
                                 ELSE q.cancellations
            /\ DOMAIN n.reminders = RemindedAfter(DOMAIN q.reminders, alert, status, sub)
            /\ n.lastMail = q.lastMail
<1> DEFINE q == IF Has(a) THEN queues[a] ELSE NewQueue
           r == WithReminder(q, alert, status, sub)
           w == WithNotice(r, alert, status)
           new == Notified(a, alert, status, sub)
           delay == config.delayBeforeFirstSend
<1>1. Good(q)
  BY NewQueueGood DEF Inv
<1> HIDE DEF q
<1>2. /\ Good(r) /\ r.alerts = q.alerts /\ r.cancellations = q.cancellations
      /\ r.lastMail = q.lastMail /\ r.nextProcessing = q.nextProcessing
      /\ DOMAIN r.reminders = RemindedAfter(DOMAIN q.reminders, alert, status, sub)
  BY <1>1, WithReminderGood
<1>3. delay \in Nat
  BY BoundsProperties DEF Inv, TypeOK
<1>4. new = IF ~Wanted(sub, status) THEN Unscheduled(r)
            ELSE IF r.nextProcessing = NoDate THEN Scheduled(w, delay)
            ELSE Unscheduled(w)
  BY DEF Notified, q
<1> HIDE DEF r, delay, new
<1>5. /\ w \in Queue /\ Undated(w)
      /\ w.alerts = IF status # "Canceled" THEN Append(r.alerts, alert) ELSE r.alerts
      /\ w.cancellations = IF status = "Canceled" THEN Append(r.cancellations, alert)
                           ELSE r.cancellations
      /\ w.reminders = r.reminders /\ w.lastMail = r.lastMail
      /\ w.nextProcessing = r.nextProcessing
  <2>1. /\ r \in Queue /\ r.alerts \in Seq(Alerts) /\ r.cancellations \in Seq(Alerts)
        /\ Undated(r)
    BY <1>2 DEF Good, Queue
  <2>2. Append(r.alerts, alert) \in Seq(Alerts)
        /\ Append(r.cancellations, alert) \in Seq(Alerts)
    BY <2>1
  <2>3. CASE status = "Canceled"
    <3>1. w = [r EXCEPT !.cancellations = Append(r.cancellations, alert)]
      BY <2>3 DEF WithNotice
    <3> HIDE DEF w
    <3>2. \A c \in Seq(Alerts) :
            LET x == [r EXCEPT !.cancellations = c]
            IN /\ x \in Queue /\ Undated(x) /\ x.alerts = r.alerts
               /\ x.cancellations = c /\ x.reminders = r.reminders
               /\ x.lastMail = r.lastMail /\ x.nextProcessing = r.nextProcessing
      BY <2>1 DEF Queue, Undated
    <3> QED BY <2>2, <2>3, <3>1, <3>2
  <2>4. CASE status # "Canceled"
    <3>1. w = [r EXCEPT !.alerts = Append(r.alerts, alert)]
      BY <2>4 DEF WithNotice
    <3> HIDE DEF w
    <3>2. \A c \in Seq(Alerts) :
            LET x == [r EXCEPT !.alerts = c]
            IN /\ x \in Queue /\ Undated(x) /\ x.alerts = c
               /\ x.cancellations = r.cancellations /\ x.reminders = r.reminders
               /\ x.lastMail = r.lastMail /\ x.nextProcessing = r.nextProcessing
      BY <2>1 DEF Queue, Undated
    <3> QED BY <2>2, <2>4, <3>1, <3>2
  <2> QED BY <2>3, <2>4
<1> HIDE DEF w
<1>6. /\ Good(new.queue) /\ new.timers \subseteq Nat
      /\ new.queue.alerts = IF Wanted(sub, status) THEN w.alerts ELSE r.alerts
      /\ new.queue.cancellations =
           IF Wanted(sub, status) THEN w.cancellations ELSE r.cancellations
      /\ new.queue.reminders = r.reminders /\ new.queue.lastMail = r.lastMail
  <2>1. CASE ~Wanted(sub, status)
    BY <1>2, <1>4, <2>1 DEF Unscheduled
  <2>2. CASE Wanted(sub, status) /\ r.nextProcessing = NoDate
    <3>1. new.queue = [w EXCEPT !.nextProcessing = delay] /\ new.timers = {delay}
      BY <1>4, <2>2 DEF Scheduled
    <3>2. delay # NoDate
      BY <1>3 DEF NoDate
    <3>3. LET x == [w EXCEPT !.nextProcessing = delay]
          IN /\ x \in Queue /\ Undated(x) /\ x.alerts = w.alerts
             /\ x.cancellations = w.cancellations /\ x.reminders = w.reminders
             /\ x.lastMail = w.lastMail /\ x.nextProcessing = delay
      BY <1>3, <1>5 DEF Queue, Undated
    <3> QED BY <1>3, <1>5, <2>2, <3>1, <3>2, <3>3 DEF Good
  <2>3. CASE Wanted(sub, status) /\ r.nextProcessing # NoDate
    BY <1>4, <1>5, <2>3 DEF Unscheduled, Good
  <2> QED BY <2>1, <2>2, <2>3
<1> QED BY <1>2, <1>5, <1>6 DEF new, q

\* What a processing makes of a queue: nothing waits any more, if a mail is sent,
\* which has something to tell and comes late enough.
Processed(q, p) ==
  /\ Good(p.queue) /\ p.timers \subseteq Nat
  /\ DOMAIN p.queue.reminders = DOMAIN q.reminders
  /\ \/ /\ p.queue.alerts = q.alerts /\ p.queue.cancellations = q.cancellations
        /\ p.queue.lastMail = q.lastMail
     \/ /\ q.alerts # <<>> \/ q.cancellations # <<>>
        /\ q.lastMail = Never \/ q.lastMail >= config.minDelayBetweenSend
        /\ p.queue.alerts = <<>> /\ p.queue.cancellations = <<>> /\ p.queue.lastMail = 0

LEMMA ProcessQueueGood ==
  ASSUME Inv, NEW a \in Addresses, Has(a), NEW sent \in BOOLEAN
  PROVE  Processed(queues[a], ProcessQueue(a, sent))
<1> DEFINE q == queues[a]
           new == ProcessQueue(a, sent)
           q0 == [q EXCEPT !.nextProcessing = NoDate]
           ms == ToInt(q0.lastMail)
           r == Reminded(q0)
           min == config.minDelayBetweenSend
<1>1. Good(q)
  BY DEF Inv
<1>2. min \in Nat \ {0}
  BY BoundsProperties DEF Inv, TypeOK
<1>3. new = IF ~HaveJob(q0) THEN Unscheduled(q0)
            ELSE IF q0.lastMail = Never \/ ms >= min
            THEN IF sent
                 THEN Unscheduled([r EXCEPT !.alerts = <<>>, !.cancellations = <<>>,
                                            !.lastMail = 0])
                 ELSE Scheduled(r, RetryInterval)
            ELSE Scheduled(r, Max2(min - ms, 1))
  BY DEF ProcessQueue
<1> HIDE DEF q, new
<1>4. /\ q0 \in Queue /\ Undated(q0) /\ q0.nextProcessing = NoDate
      /\ q0.alerts = q.alerts /\ q0.cancellations = q.cancellations
      /\ q0.reminders = q.reminders /\ q0.lastMail = q.lastMail
  BY <1>1 DEF Good, Queue, Undated
<1> HIDE DEF q0
<1>5. HaveJob(q0) <=> q.alerts # <<>> \/ q.cancellations # <<>>
  BY <1>4 DEF HaveJob, Undated
<1>6. r = q0
  <2> DEFINE old == q0.reminders
             f == [alert \in DOMAIN old |-> Inserted(old, alert, 0)[alert]]
  <2>1. old \in Reminders
    BY <1>4 DEF Queue
  <2>2. old \in [DOMAIN old -> Ages]
    BY <2>1, RemindersProperties
  <2>3. \A alert \in DOMAIN old : Inserted(old, alert, 0)[alert] = old[alert]
    BY DEF Inserted
  <2>4. f = old
    BY <2>2, <2>3
  <2>5. r = [q0 EXCEPT !.reminders = f]
    BY DEF Reminded
  <2> HIDE DEF f
  <2> QED BY <1>4, <2>4, <2>5 DEF Queue
<1> HIDE DEF r
<1>7. ms \in Int /\ (q0.lastMail # Never => ms <= q0.lastMail)
  <2>1. q0.lastMail \in Ages
    BY <1>4 DEF Queue
  <2> QED BY <2>1, ToIntIsEarlier
<1> HIDE DEF ms
<1>8. ASSUME NEW delay \in Nat
      PROVE  Processed(q, Scheduled(q0, delay))
  <2>1. LET s == [q0 EXCEPT !.nextProcessing = delay]
        IN /\ s \in Queue /\ Undated(s) /\ s.nextProcessing = delay
           /\ s.alerts = q.alerts /\ s.cancellations = q.cancellations
           /\ s.reminders = q.reminders /\ s.lastMail = q.lastMail
    BY <1>4 DEF Queue, Undated
  <2>2. delay # NoDate
    BY DEF NoDate
  <2> QED BY <2>1, <2>2 DEF Scheduled, Processed, Good
<1>9. CASE ~HaveJob(q0)
  <2>1. new = [queue |-> q0, timers |-> {}]
    BY <1>3, <1>9 DEF Unscheduled
  <2> QED BY <1>4, <1>5, <1>9, <2>1 DEF Processed, Good, new, q
<1>10. CASE HaveJob(q0) /\ (q0.lastMail = Never \/ ms >= min)
  <2>1. q.lastMail = Never \/ q.lastMail >= min
    <3>1. q0.lastMail \in {Never} \cup Nat
      BY <1>4, BoundsProperties DEF Queue, Ages
    <3> QED BY <1>2, <1>4, <1>7, <1>10, <3>1
  <2>2. CASE sent
    <3> DEFINE m == [q0 EXCEPT !.alerts = <<>>, !.cancellations = <<>>, !.lastMail = 0]
    <3>1. new = [queue |-> m, timers |-> {}]
      BY <1>3, <1>6, <1>10, <2>2 DEF Unscheduled
    <3>2. /\ m \in Queue /\ Undated(m) /\ m.reminders = q.reminders
          /\ m.alerts = <<>> /\ m.cancellations = <<>> /\ m.lastMail = 0
      <4>1. 0 \in Ages /\ <<>> \in Seq(Alerts)
        BY BoundsProperties DEF Ages
      <4> QED BY <1>4, <4>1 DEF Queue, Undated
    <3> HIDE DEF m
    <3>3. Good(m)
      BY <3>2 DEF Good
    <3> QED BY <1>5, <1>10, <2>1, <3>1, <3>2, <3>3 DEF Processed, new, q, min
  <2>3. CASE ~sent
    <3>1. new = Scheduled(q0, RetryInterval) /\ RetryInterval \in Nat
      BY <1>3, <1>6, <1>10, <2>3 DEF RetryInterval
    <3> QED BY <1>8, <3>1 DEF new, q
  <2> QED BY <2>2, <2>3
<1>11. CASE HaveJob(q0) /\ ~(q0.lastMail = Never \/ ms >= min)
  <2>1. new = Scheduled(q0, Max2(min - ms, 1))
    BY <1>3, <1>6, <1>11
  <2>2. Max2(min - ms, 1) \in Nat
    BY <1>2, <1>7 DEF Max2
  <2> QED BY <1>8, <2>1, <2>2 DEF new, q
<1> QED BY <1>9, <1>10, <1>11
-----------------------------------------------------------------------------
(* What the abstract channel sees of a queue.                              *)

\* The queue of an address, empty when there is none.
QueueOf(a) == IF Has(a) THEN queues[a] ELSE NewQueue

ViewAlerts == Field("alerts", <<>>)
ViewCancellations == Field("cancellations", <<>>)
ViewReminders ==
  [a \in Addresses |-> IF Has(a) THEN DOMAIN queues[a].reminders ELSE {}]
ViewLastMail == Field("lastMail", Never)

LEMMA ViewOfQueues ==
  /\ ViewAlerts = [a \in Addresses |-> QueueOf(a).alerts]
  /\ ViewCancellations = [a \in Addresses |-> QueueOf(a).cancellations]
  /\ ViewReminders = [a \in Addresses |-> DOMAIN QueueOf(a).reminders]
  /\ ViewLastMail = [a \in Addresses |-> QueueOf(a).lastMail]
BY NewQueueGood
   DEF ViewAlerts, ViewCancellations, ViewReminders, ViewLastMail, Field, QueueOf

LEMMA ViewOfNextQueues ==
  /\ ViewAlerts' = [a \in Addresses |-> QueueOf(a)'.alerts]
  /\ ViewCancellations' = [a \in Addresses |-> QueueOf(a)'.cancellations]
  /\ ViewReminders' = [a \in Addresses |-> DOMAIN QueueOf(a)'.reminders]
  /\ ViewLastMail' = [a \in Addresses |-> QueueOf(a)'.lastMail]
BY NewQueueGood
   DEF ViewAlerts, ViewCancellations, ViewReminders, ViewLastMail, Field, QueueOf

\* Some queues are replaced by good ones, or removed.
LEMMA ReplacedQueues ==
  ASSUME Inv, NEW set \in SUBSET Addresses, NEW new,
         \A a \in set : new[a] = NoQueue \/ Good(new[a]),
         queues' = [a \in Addresses |-> IF a \in set THEN new[a] ELSE queues[a]]
  PROVE  /\ queues' \in [Addresses -> Queue \cup {NoQueue}]
         /\ \A a \in Addresses : Has(a)' => Good(queues[a])'
         /\ \A a \in Addresses : Has(a)' <=> IF a \in set THEN new[a] # NoQueue ELSE Has(a)
         /\ \A a \in Addresses :
              QueueOf(a)' = IF a \notin set THEN QueueOf(a)
                            ELSE IF new[a] = NoQueue THEN NewQueue ELSE new[a]
<1>1. queues \in [Addresses -> Queue \cup {NoQueue}]
  BY DEF Inv, TypeOK
<1>2. \A a \in Addresses : queues'[a] = IF a \in set THEN new[a] ELSE queues[a]
  OBVIOUS
<1>3. \A a \in Addresses : Has(a)' <=> IF a \in set THEN new[a] # NoQueue ELSE Has(a)
  BY <1>2 DEF Has
<1>4. \A a \in Addresses : Has(a)' => Good(queues'[a])
  BY <1>2, <1>3 DEF Inv
<1>5. \A a \in Addresses : Good(queues[a])' <=> Good(queues'[a])
  BY DEF Good, Undated
<1>6. queues' \in [Addresses -> Queue \cup {NoQueue}]
  BY <1>1 DEF Good
<1>7. \A a \in Addresses :
        QueueOf(a)' = IF a \notin set THEN QueueOf(a)
                      ELSE IF new[a] = NoQueue THEN NewQueue ELSE new[a]
  BY <1>2, <1>3 DEF QueueOf
<1> QED BY <1>3, <1>4, <1>5, <1>6, <1>7

-----------------------------------------------------------------------------
(* Each step keeps the invariant, and is one of the abstract channel.      *)

LEMMA InitInv == Init => Inv /\ View!Init
<1> SUFFICES ASSUME Init PROVE Inv /\ View!Init
  OBVIOUS
<1>1. \A a \in Addresses : ~Has(a)
  BY DEF Init, Has
<1>2. Inv
  BY <1>1 DEF Init, Inv, TypeOK, TimersHaveQueue
<1>3. View!Init
  BY <1>1 DEF Init, View!Init, Field
<1> QED BY <1>2, <1>3

\* What a notice makes of the queues of all the addresses.
LEMMA DoNotifyAlertQueues ==
  ASSUME Inv, NEW alert \in Alerts, NEW status \in AlertStatus, DoNotifyAlert(alert, status)
  PROVE  LET sub == config.subscriptions[alert]
             reached == Reached(sub, status)
             to == Wanted(sub, status)
         IN /\ Inv'
            /\ raised' = [raised EXCEPT ![alert] = status = "Raised"] /\ config' = config
            /\ \A a \in Addresses : LET q == QueueOf(a)  n == QueueOf(a)' IN
                 /\ n.alerts = IF a \in reached /\ status # "Canceled" /\ to
                               THEN Append(q.alerts, alert) ELSE q.alerts
                 /\ n.cancellations = IF a \in reached /\ status = "Canceled" /\ to
                                      THEN Append(q.cancellations, alert)
                                      ELSE q.cancellations
                 /\ DOMAIN n.reminders =
                      IF a \in reached
                      THEN RemindedAfter(DOMAIN q.reminders, alert, status, sub)
                      ELSE DOMAIN q.reminders
                 /\ n.lastMail = q.lastMail
<1> DEFINE sub == config.subscriptions[alert]
           reached == Reached(sub, status)
           new == [a \in reached |-> Notified(a, alert, status, sub).queue]
<1>1. sub \in Subscription
  BY BoundsProperties DEF Inv, TypeOK
<1>2. reached \in SUBSET Addresses
  <2>1. sub.addresses \in Seq(Addresses)
    BY <1>1 DEF Subscription
  <2> HIDE DEF sub
  <2> QED BY <2>1 DEF Reached
<1>3. /\ raised' = [raised EXCEPT ![alert] = status = "Raised"]
      /\ queues' = [a \in Addresses |-> IF a \in reached THEN new[a] ELSE queues[a]]
      /\ timers' = [a \in Addresses |->
                     IF a \in reached
                     THEN timers[a] \cup Notified(a, alert, status, sub).timers
                     ELSE timers[a]]
      /\ UNCHANGED <<config, strays, asyncDue>>
  BY DEF DoNotifyAlert
<1> HIDE DEF sub, reached
<1>4. \A a \in reached : new[a] = Notified(a, alert, status, sub).queue
  OBVIOUS
<1>5. \A a \in reached : Good(new[a]) /\ new[a] # NoQueue
  BY <1>1, <1>2, <1>4, NotifiedGood, QueueIsOne DEF Good
<1> HIDE DEF new
<1>6. /\ queues' \in [Addresses -> Queue \cup {NoQueue}]
      /\ \A a \in Addresses : Has(a)' => Good(queues[a])'
      /\ \A a \in Addresses : Has(a)' <=> a \in reached \/ Has(a)
      /\ \A a \in Addresses : QueueOf(a)' = IF a \in reached THEN new[a] ELSE QueueOf(a)
  <2>1. \A a \in reached : new[a] = NoQueue \/ Good(new[a])
    BY <1>5
  <2>2. /\ queues' \in [Addresses -> Queue \cup {NoQueue}]
        /\ \A a \in Addresses : Has(a)' => Good(queues[a])'
        /\ \A a \in Addresses :
             Has(a)' <=> IF a \in reached THEN new[a] # NoQueue ELSE Has(a)
        /\ \A a \in Addresses :
             QueueOf(a)' = IF a \notin reached THEN QueueOf(a)
                           ELSE IF new[a] = NoQueue THEN NewQueue ELSE new[a]
    BY <1>2, <1>3, <2>1, ReplacedQueues
  <2> QED BY <1>5, <2>2
<1>7. Inv'
  <2>1. timers' \in [Addresses -> SUBSET Nat] /\ TimersHaveQueue'
    <3>1. \A a \in reached : Notified(a, alert, status, sub).timers \subseteq Nat
      BY <1>1, <1>2, NotifiedGood
    <3>2. timers \in [Addresses -> SUBSET Nat]
      BY DEF Inv, TypeOK
    <3>3. TimersHaveQueue'
      BY <1>3, <1>6 DEF TimersHaveQueue, Inv
    <3> QED BY <1>3, <3>1, <3>2, <3>3
  <2>2. raised' \in [Alerts -> BOOLEAN]
    BY <1>3 DEF Inv, TypeOK
  <2> QED BY <1>3, <1>6, <2>1, <2>2 DEF Inv, TypeOK
<1>8. ASSUME NEW a \in Addresses
      PROVE  LET q == QueueOf(a)  n == QueueOf(a)'  to == Wanted(sub, status) IN
                 /\ n.alerts = IF a \in reached /\ status # "Canceled" /\ to
                               THEN Append(q.alerts, alert) ELSE q.alerts
                 /\ n.cancellations = IF a \in reached /\ status = "Canceled" /\ to
                                      THEN Append(q.cancellations, alert)
                                      ELSE q.cancellations
                 /\ DOMAIN n.reminders =
                      IF a \in reached
                      THEN RemindedAfter(DOMAIN q.reminders, alert, status, sub)
                      ELSE DOMAIN q.reminders
                 /\ n.lastMail = q.lastMail
  <2>1. CASE a \in reached
    <3>1. QueueOf(a)' = Notified(a, alert, status, sub).queue
      BY <1>4, <1>6, <2>1
    <3> QED BY <1>1, <2>1, <3>1, NotifiedGood DEF QueueOf
  <2>2. CASE a \notin reached
    BY <1>6, <2>2
  <2> QED BY <2>1, <2>2
<1> QED BY <1>3, <1>7, <1>8 DEF sub, reached

\* A subscription that does not want cancelations has one address, or none.
OneAddressIfNoCancel ==
  \A c \in Configs, alert \in Alerts :
    c.subscriptions[alert].cancel \/ Len(c.subscriptions[alert].addresses) <= 1

LEMMA DoNotifyAlertView ==
  ASSUME Inv, OneAddressIfNoCancel, NEW alert \in Alerts, NEW status \in AlertStatus,
         DoNotifyAlert(alert, status)
  PROVE  View!Notice(alert, status)
<1> DEFINE sub == config.subscriptions[alert]
           to == {sub.addresses[i] : i \in DOMAIN sub.addresses}
           reached == Reached(sub, status)
<1>1. /\ sub \in Subscription /\ (sub.reminder => sub.emit)
      /\ sub.cancel \/ Len(sub.addresses) <= 1
  BY ConfigsAssumption DEF Inv, TypeOK, IsConfig, OneAddressIfNoCancel
<1>2. /\ raised' = [raised EXCEPT ![alert] = status = "Raised"] /\ config' = config
      /\ \A a \in Addresses : LET q == QueueOf(a)  n == QueueOf(a)' IN
           /\ n.alerts = IF a \in reached /\ status # "Canceled" /\ Wanted(sub, status)
                         THEN Append(q.alerts, alert) ELSE q.alerts
           /\ n.cancellations = IF a \in reached /\ status = "Canceled" /\ Wanted(sub, status)
                                THEN Append(q.cancellations, alert)
                                ELSE q.cancellations
           /\ DOMAIN n.reminders =
                IF a \in reached
                THEN RemindedAfter(DOMAIN q.reminders, alert, status, sub)
                ELSE DOMAIN q.reminders
           /\ n.lastMail = q.lastMail
  BY DoNotifyAlertQueues
<1> HIDE DEF sub
<1>3. Wanted(sub, status) \/ status = "Canceled" => reached = to
  <2>1. sub.addresses \in Seq(Addresses)
    BY <1>1 DEF Subscription
  <2>2. CASE Wanted(sub, status)
    BY <2>2 DEF Reached
  <2>3. CASE ~Wanted(sub, status) /\ status = "Canceled"
    <3>1. Len(sub.addresses) <= 1
      BY <1>1, <2>3 DEF Wanted
    <3>2. \A i \in DOMAIN sub.addresses : i = 1
      BY <2>1, <3>1
    <3> QED BY <3>2 DEF Reached
  <2> QED BY <2>2, <2>3
<1>4. status # "Canceled" /\ ~sub.emit =>
        \A ids : RemindedAfter(ids, alert, status, sub) = ids
  BY <1>1 DEF RemindedAfter
<1>5. Wanted(sub, status) = IF status = "Canceled" THEN sub.cancel ELSE sub.emit
  BY DEF Wanted
<1> HIDE DEF reached, to
<1>6. ViewAlerts' = IF status # "Canceled" /\ sub.emit
                    THEN [a \in Addresses |-> IF a \in to THEN Append(ViewAlerts[a], alert)
                                              ELSE ViewAlerts[a]]
                    ELSE ViewAlerts
  BY <1>2, <1>3, <1>5, ViewOfQueues, ViewOfNextQueues
<1>7. ViewCancellations' =
        IF status = "Canceled" /\ sub.cancel
        THEN [a \in Addresses |-> IF a \in to THEN Append(ViewCancellations[a], alert)
                                  ELSE ViewCancellations[a]]
        ELSE ViewCancellations
  BY <1>2, <1>3, <1>5, ViewOfQueues, ViewOfNextQueues
<1>8. ViewReminders' =
        [a \in Addresses |-> IF a \in to
                             THEN RemindedAfter(ViewReminders[a], alert, status, sub)
                             ELSE ViewReminders[a]]
  <2>1. \A a \in Addresses : DOMAIN QueueOf(a)'.reminders =
          IF a \in to THEN RemindedAfter(DOMAIN QueueOf(a).reminders, alert, status, sub)
          ELSE DOMAIN QueueOf(a).reminders
    BY <1>2, <1>3, <1>4, <1>5
  <2> QED BY <2>1, ViewOfQueues, ViewOfNextQueues
<1>9. ViewLastMail' = ViewLastMail
  BY <1>2, ViewOfQueues, ViewOfNextQueues
<1>10. ViewReminders' =
         CASE status = "Raised" /\ sub.reminder ->
                [a \in Addresses |-> IF a \in to
                  THEN [b \in Addresses |-> ViewReminders[b] \cup {alert}][a]
                  ELSE ViewReminders[a]]
           [] status = "Canceled" ->
                [a \in Addresses |-> IF a \in to
                  THEN [b \in Addresses |-> ViewReminders[b] \ {alert}][a]
                  ELSE ViewReminders[a]]
           [] OTHER -> ViewReminders
  <2>1. ViewReminders = [a \in Addresses |-> ViewReminders[a]]
    BY ViewOfQueues
  <2>2. CASE status = "Raised" /\ sub.reminder
    BY <1>8, <2>2 DEF RemindedAfter
  <2>3. CASE status = "Canceled"
    BY <1>8, <2>3 DEF RemindedAfter
  <2>4. CASE ~(status = "Raised" /\ sub.reminder) /\ status # "Canceled"
    BY <1>8, <2>1, <2>4 DEF RemindedAfter
  <2> QED BY <2>2, <2>3, <2>4
<1> QED
  BY <1>2, <1>6, <1>7, <1>9, <1>10
  DEF View!Notice, ViewAlerts, ViewCancellations, ViewReminders, ViewLastMail, sub, to
\* Some queues are processed, each of which may send a mail.
LEMMA ProcessedQueues ==
  ASSUME Inv, NEW set \in SUBSET Addresses, NEW p,
         \A a \in set : Has(a) /\ Processed(queues[a], p[a]),
         queues' = [a \in Addresses |-> IF a \in set THEN p[a].queue ELSE queues[a]],
         UNCHANGED <<config, raised>>
  PROVE  /\ queues' \in [Addresses -> Queue \cup {NoQueue}]
         /\ \A a \in Addresses : Has(a)' => Good(queues[a])'
         /\ \A a \in Addresses : Has(a) => Has(a)'
         /\ \E to \in SUBSET Addresses : View!Mails(to)
<1> DEFINE new == [a \in set |-> p[a].queue]
           Sent(a) ==
             LET q == queues[a]  n == p[a].queue IN
               /\ q.alerts # <<>> \/ q.cancellations # <<>>
               /\ q.lastMail = Never \/ q.lastMail >= config.minDelayBetweenSend
               /\ n.alerts = <<>> /\ n.cancellations = <<>> /\ n.lastMail = 0
           to == {a \in set : Sent(a)}
<1>1. \A a \in set : new[a] = p[a].queue
  OBVIOUS
<1>2. queues' = [a \in Addresses |-> IF a \in set THEN new[a] ELSE queues[a]]
  OBVIOUS
<1>3. \A a \in set : Good(new[a]) /\ new[a] # NoQueue
  BY <1>1, QueueIsOne DEF Processed, Good
<1> HIDE DEF new
<1>4. \A a \in set : new[a] = NoQueue \/ Good(new[a])
  BY <1>3
<1>5. /\ queues' \in [Addresses -> Queue \cup {NoQueue}]
      /\ \A a \in Addresses : Has(a)' => Good(queues[a])'
      /\ \A a \in Addresses : Has(a)' <=> IF a \in set THEN new[a] # NoQueue ELSE Has(a)
      /\ \A a \in Addresses :
           QueueOf(a)' = IF a \notin set THEN QueueOf(a)
                         ELSE IF new[a] = NoQueue THEN NewQueue ELSE new[a]
  BY <1>2, <1>4, ReplacedQueues
<1>6. \A a \in Addresses : Has(a) => Has(a)'
  BY <1>3, <1>5
<1>7. \A a \in set : QueueOf(a) = queues[a] /\ QueueOf(a)' = p[a].queue
  BY <1>1, <1>3, <1>5 DEF QueueOf
<1>8. \A a \in set : /\ DOMAIN QueueOf(a)'.reminders = DOMAIN QueueOf(a).reminders
                     /\ ~Sent(a) => /\ QueueOf(a)'.alerts = QueueOf(a).alerts
                                    /\ QueueOf(a)'.cancellations = QueueOf(a).cancellations
                                    /\ QueueOf(a)'.lastMail = QueueOf(a).lastMail
  BY <1>7 DEF Processed
<1>9. \A a \in to : /\ QueueOf(a).alerts # <<>> \/ QueueOf(a).cancellations # <<>>
                    /\ \/ QueueOf(a).lastMail = Never
                       \/ QueueOf(a).lastMail >= config.minDelayBetweenSend
                    /\ QueueOf(a)'.alerts = <<>> /\ QueueOf(a)'.cancellations = <<>>
                    /\ QueueOf(a)'.lastMail = 0
  BY <1>7
<1>10. \A a \in Addresses \ set : QueueOf(a)' = QueueOf(a)
  BY <1>5
<1>11. \A a \in Addresses \ to : /\ QueueOf(a)'.alerts = QueueOf(a).alerts
                                 /\ QueueOf(a)'.cancellations = QueueOf(a).cancellations
                                 /\ QueueOf(a)'.lastMail = QueueOf(a).lastMail
  <2> SUFFICES ASSUME NEW a \in Addresses \ to
               PROVE  /\ QueueOf(a)'.alerts = QueueOf(a).alerts
                      /\ QueueOf(a)'.cancellations = QueueOf(a).cancellations
                      /\ QueueOf(a)'.lastMail = QueueOf(a).lastMail
    OBVIOUS
  <2>1. CASE a \in set
    <3>1. ~Sent(a)
      BY <2>1
    <3> HIDE DEF Sent
    <3> QED BY <1>8, <2>1, <3>1
  <2>2. CASE a \notin set
    BY <1>10, <2>2
  <2> QED BY <2>1, <2>2
<1>12. to \in SUBSET Addresses
  OBVIOUS
<1> HIDE DEF to, Sent
<1>13. \A a \in to : /\ ViewAlerts[a] # <<>> \/ ViewCancellations[a] # <<>>
                     /\ \/ ViewLastMail[a] = Never
                        \/ ViewLastMail[a] >= config.minDelayBetweenSend
  BY <1>9, <1>12, ViewOfQueues
<1>14. /\ ViewAlerts' = [a \in Addresses |-> IF a \in to THEN <<>> ELSE ViewAlerts[a]]
       /\ ViewCancellations' =
            [a \in Addresses |-> IF a \in to THEN <<>> ELSE ViewCancellations[a]]
       /\ ViewLastMail' = [a \in Addresses |-> IF a \in to THEN 0 ELSE ViewLastMail[a]]
  BY <1>9, <1>11, <1>12, ViewOfQueues, ViewOfNextQueues
<1>15. ViewReminders' = ViewReminders
  <2>1. \A a \in Addresses : DOMAIN QueueOf(a)'.reminders = DOMAIN QueueOf(a).reminders
    BY <1>8, <1>10
  <2> QED BY <2>1, ViewOfQueues, ViewOfNextQueues
<1>16. View!Mails(to)
  BY <1>13, <1>14, <1>15
     DEF View!Mails, ViewAlerts, ViewCancellations, ViewReminders, ViewLastMail
<1> QED BY <1>5, <1>6, <1>12, <1>16

\* One queue is processed.
LEMMA ProcessedQueue ==
  ASSUME Inv, NEW a \in Addresses, Has(a), NEW sent \in BOOLEAN,
         queues' = [queues EXCEPT ![a] = ProcessQueue(a, sent).queue],
         UNCHANGED <<config, raised>>
  PROVE  /\ queues' \in [Addresses -> Queue \cup {NoQueue}]
         /\ \A b \in Addresses : Has(b)' => Good(queues[b])'
         /\ \A b \in Addresses : Has(b) => Has(b)'
         /\ \E to \in SUBSET Addresses : View!Mails(to)
<1> DEFINE p == [b \in {a} |-> ProcessQueue(a, sent)]
<1>1. queues' = [b \in Addresses |-> IF b \in {a} THEN p[b].queue ELSE queues[b]]
  BY DEF Inv, TypeOK
<1>2. \A b \in {a} : Has(b) /\ Processed(queues[b], p[b])
  BY ProcessQueueGood
<1>3. {a} \in SUBSET Addresses
  OBVIOUS
<1> HIDE DEF p
<1> QED BY <1>1, <1>2, <1>3, ProcessedQueues

LEMMA ProcessTimerStep ==
  ASSUME Inv, NEW a \in Addresses, NEW sent \in BOOLEAN, ProcessTimer(a, sent)
  PROVE  Inv' /\ \E to \in SUBSET Addresses : View!Mails(to)
<1> DEFINE new == ProcessQueue(a, sent)
<1>1. /\ 0 \in timers[a]
      /\ queues' = [queues EXCEPT ![a] = new.queue]
      /\ timers' = [timers EXCEPT ![a] = (@ \ {0}) \cup new.timers]
      /\ UNCHANGED <<config, strays, asyncDue, raised>>
  BY DEF ProcessTimer
<1>2. Has(a)
  BY <1>1 DEF Inv, TimersHaveQueue
<1>3. new.timers \subseteq Nat
  BY <1>2, ProcessQueueGood DEF Processed
<1> HIDE DEF new
<1>4. /\ queues' \in [Addresses -> Queue \cup {NoQueue}]
      /\ \A b \in Addresses : Has(b)' => Good(queues[b])'
      /\ \A b \in Addresses : Has(b) => Has(b)'
      /\ \E to \in SUBSET Addresses : View!Mails(to)
  BY <1>1, <1>2, ProcessedQueue DEF new
<1>5. timers' \in [Addresses -> SUBSET Nat] /\ TimersHaveQueue'
  BY <1>1, <1>2, <1>3, <1>4 DEF Inv, TypeOK, TimersHaveQueue
<1> QED BY <1>1, <1>4, <1>5 DEF Inv, TypeOK

\* A step that leaves the queues alone.
LEMMA SameQueues ==
  ASSUME Inv, UNCHANGED <<config, queues, raised>>,
         timers' \in [Addresses -> SUBSET Nat], strays' \subseteq Nat, asyncDue' \in BOOLEAN,
         \A a \in Addresses : timers'[a] \subseteq timers[a]
  PROVE  Inv' /\ UNCHANGED <<config, raised, ViewAlerts, ViewCancellations,
                             ViewReminders, ViewLastMail>>
<1>1. \A a \in Addresses : (Has(a)' <=> Has(a)) /\ (Good(queues[a])' <=> Good(queues[a]))
  BY DEF Has, Good, Undated
<1>2. Inv'
  BY <1>1 DEF Inv, TypeOK, TimersHaveQueue
<1> QED BY <1>2 DEF ViewAlerts, ViewCancellations, ViewReminders, ViewLastMail, Field, Has

LEMMA StrayTimerStep ==
  ASSUME Inv, StrayTimer
  PROVE  Inv' /\ \/ UNCHANGED <<config, raised, ViewAlerts, ViewCancellations,
                                ViewReminders, ViewLastMail>>
                 \/ \E to \in SUBSET Addresses : View!Mails(to)
<1>1. strays' \subseteq Nat /\ UNCHANGED <<config, asyncDue, raised>>
  BY DEF StrayTimer, Inv, TypeOK
<1>2. CASE UNCHANGED <<queues, timers>>
  BY <1>1, <1>2, SameQueues DEF Inv, TypeOK
<1>3. ASSUME NEW a \in Addresses, Has(a), NEW sent \in BOOLEAN,
             queues' = [queues EXCEPT ![a] = ProcessQueue(a, sent).queue],
             timers' = [timers EXCEPT ![a] = @ \cup ProcessQueue(a, sent).timers]
      PROVE  Inv' /\ \E to \in SUBSET Addresses : View!Mails(to)
  <2>1. ProcessQueue(a, sent).timers \subseteq Nat
    BY <1>3, ProcessQueueGood DEF Processed
  <2>2. /\ queues' \in [Addresses -> Queue \cup {NoQueue}]
        /\ \A b \in Addresses : Has(b)' => Good(queues[b])'
        /\ \A b \in Addresses : Has(b) => Has(b)'
        /\ \E to \in SUBSET Addresses : View!Mails(to)
    BY <1>1, <1>3, ProcessedQueue
  <2>3. timers' \in [Addresses -> SUBSET Nat] /\ TimersHaveQueue'
    BY <1>3, <2>1, <2>2 DEF Inv, TypeOK, TimersHaveQueue
  <2> QED BY <1>1, <2>2, <2>3 DEF Inv, TypeOK
<1> QED BY <1>2, <1>3 DEF StrayTimer

LEMMA AsyncProcessingStep ==
  ASSUME Inv, NEW sent \in [Addresses -> BOOLEAN], AsyncProcessing(sent)
  PROVE  Inv' /\ \E to \in SUBSET Addresses : View!Mails(to)
<1> DEFINE set == {a \in Addresses : Has(a) /\ ToBeChecked(queues[a])}
           p == [a \in set |-> ProcessQueue(a, sent[a])]
<1>1. /\ asyncDue' = FALSE
      /\ queues' = [a \in Addresses |-> IF a \in set THEN p[a].queue ELSE queues[a]]
      /\ timers' = [a \in Addresses |-> IF a \in set THEN timers[a] \cup p[a].timers
                                        ELSE timers[a]]
      /\ UNCHANGED <<config, strays, raised>>
  BY DEF AsyncProcessing
<1>2. \A a \in set : Has(a) /\ Processed(queues[a], p[a])
  BY ProcessQueueGood
<1>3. set \in SUBSET Addresses
  OBVIOUS
<1> HIDE DEF set, p
<1>4. /\ queues' \in [Addresses -> Queue \cup {NoQueue}]
      /\ \A b \in Addresses : Has(b)' => Good(queues[b])'
      /\ \A b \in Addresses : Has(b) => Has(b)'
      /\ \E to \in SUBSET Addresses : View!Mails(to)
  BY <1>1, <1>2, <1>3, ProcessedQueues
<1>5. \A a \in set : p[a].timers \subseteq Nat
  BY <1>2 DEF Processed
<1>6. timers' \in [Addresses -> SUBSET Nat]
  BY <1>1, <1>5 DEF Inv, TypeOK
<1>7. TimersHaveQueue'
  BY <1>1, <1>2, <1>4 DEF Inv, TimersHaveQueue
<1> QED BY <1>1, <1>4, <1>6, <1>7 DEF Inv, TypeOK

LEMMA SetConfigStep ==
  ASSUME Inv, NEW new \in Configs, SetConfig(new)
  PROVE  Inv' /\ \E forgotten \in SUBSET Addresses : View!SetConfig(forgotten)
<1>1. PICK removed \in SUBSET {a \in Addresses : Removable(a, new)} :
        /\ config' = new
        /\ queues' = [a \in Addresses |-> IF a \in removed THEN NoQueue ELSE queues[a]]
        /\ timers' = [a \in Addresses |-> IF a \in removed THEN {} ELSE timers[a]]
        /\ strays' = strays \cup UNION {timers[a] : a \in removed}
        /\ asyncDue' = TRUE
        /\ UNCHANGED raised
  BY DEF SetConfig
<1> DEFINE none == [a \in removed |-> NoQueue]
<1>2. queues' = [a \in Addresses |-> IF a \in removed THEN none[a] ELSE queues[a]]
  BY <1>1
<1>3. \A a \in removed : none[a] = NoQueue
  OBVIOUS
<1>4. \A a \in removed : none[a] = NoQueue \/ Good(none[a])
  BY <1>3
<1>5. removed \in SUBSET Addresses
  OBVIOUS
<1> HIDE DEF none
<1>6. /\ queues' \in [Addresses -> Queue \cup {NoQueue}]
      /\ \A a \in Addresses : Has(a)' => Good(queues[a])'
      /\ \A a \in Addresses : Has(a)' <=> IF a \in removed THEN none[a] # NoQueue ELSE Has(a)
      /\ \A a \in Addresses :
           QueueOf(a)' = IF a \notin removed THEN QueueOf(a)
                         ELSE IF none[a] = NoQueue THEN NewQueue ELSE none[a]
  BY <1>2, <1>4, <1>5, ReplacedQueues
<1>7. \A a \in Addresses : QueueOf(a)' = IF a \in removed THEN NewQueue ELSE QueueOf(a)
  BY <1>3, <1>6
<1>8. Inv'
  <2>1. timers \in [Addresses -> SUBSET Nat] /\ strays \subseteq Nat
    BY DEF Inv, TypeOK
  <2>2. timers' \in [Addresses -> SUBSET Nat] /\ strays' \subseteq Nat
    BY <1>1, <1>5, <2>1
  <2>3. TimersHaveQueue'
    BY <1>1, <1>6 DEF Inv, TimersHaveQueue
  <2> QED BY <1>1, <1>6, <2>2, <2>3 DEF Inv, TypeOK
<1>9. \A a \in removed :
        \/ \A alert \in Alerts : \A i \in DOMAIN new.subscriptions[alert].addresses :
             new.subscriptions[alert].addresses[i] # a
        \/ /\ ViewAlerts[a] = <<>> /\ ViewCancellations[a] = <<>> /\ ViewReminders[a] = {}
           /\ ViewLastMail[a] = Never \/ ViewLastMail[a] > new.remindPeriod
  <2> SUFFICES ASSUME NEW a \in removed
               PROVE  \/ \A alert \in Alerts :
                           \A i \in DOMAIN new.subscriptions[alert].addresses :
                             new.subscriptions[alert].addresses[i] # a
                      \/ /\ ViewAlerts[a] = <<>> /\ ViewCancellations[a] = <<>>
                         /\ ViewReminders[a] = {}
                         /\ \/ ViewLastMail[a] = Never
                            \/ ViewLastMail[a] > new.remindPeriod
    OBVIOUS
  <2>1. Removable(a, new) /\ a \in Addresses
    OBVIOUS
  <2>2. QueueOf(a) = queues[a]
    BY <2>1 DEF QueueOf, Removable
  <2>3. CASE a \notin ConfiguredAddresses(new)
    BY <2>3 DEF ConfiguredAddresses
  <2>4. CASE /\ queues[a].alerts = <<>> /\ queues[a].cancellations = <<>>
             /\ DOMAIN queues[a].reminders = {}
             /\ queues[a].lastMail = Never \/ queues[a].lastMail > new.remindPeriod
    BY <2>1, <2>2, <2>4, ViewOfQueues
  <2> QED BY <2>1, <2>3, <2>4 DEF Removable
<1>10. /\ ViewAlerts' = [a \in Addresses |-> IF a \in removed THEN <<>> ELSE ViewAlerts[a]]
       /\ ViewCancellations' =
            [a \in Addresses |-> IF a \in removed THEN <<>> ELSE ViewCancellations[a]]
       /\ ViewReminders' = [a \in Addresses |-> IF a \in removed THEN {} ELSE ViewReminders[a]]
       /\ ViewLastMail' = [a \in Addresses |-> IF a \in removed THEN Never ELSE ViewLastMail[a]]
  BY <1>7, ViewOfQueues, ViewOfNextQueues, NewQueueGood
<1>11. View!SetConfig(removed)
  BY <1>1, <1>9, <1>10
     DEF View!SetConfig, ViewAlerts, ViewCancellations, ViewReminders, ViewLastMail
<1> QED BY <1>5, <1>8, <1>11

LEMMA LoseTimerStep ==
  ASSUME Inv, NEW a \in Addresses, LoseTimer(a)
  PROVE  Inv' /\ UNCHANGED <<config, raised, ViewAlerts, ViewCancellations,
                             ViewReminders, ViewLastMail>>
<1>1. PICK delay \in timers[a] : timers' = [timers EXCEPT ![a] = @ \ {delay}]
  BY DEF LoseTimer
<1>2. UNCHANGED <<config, queues, strays, asyncDue, raised>>
  BY DEF LoseTimer
<1>3. timers' \in [Addresses -> SUBSET Nat]
      /\ \A b \in Addresses : timers'[b] \subseteq timers[b]
  BY <1>1 DEF Inv, TypeOK
<1> QED BY <1>2, <1>3, SameQueues DEF Inv, TypeOK

\* A minute more only ages a queue.
LEMMA AgedGood ==
  ASSUME NEW q, Good(q)
  PROVE  /\ Good(Aged(q))
         /\ Aged(q).alerts = q.alerts /\ Aged(q).cancellations = q.cancellations
         /\ DOMAIN Aged(q).reminders = DOMAIN q.reminders
         /\ Aged(q).lastMail = IF q.lastMail \in {Never, Cap} THEN q.lastMail
                               ELSE q.lastMail + 1
<1> DEFINE r == [alert \in DOMAIN q.reminders |-> Older(q.reminders[alert])]
           n == IF q.nextProcessing \in {NoDate, -1} THEN q.nextProcessing
                ELSE q.nextProcessing - 1
<1>1. /\ q \in Queue /\ Undated(q) /\ q.reminders \in Reminders
      /\ q.nextProcessing \in {NoDate, -1} \cup Nat /\ q.lastMail \in Ages
  BY DEF Good, Queue
<1>2. r = q.reminders
  <2>1. q.reminders \in [DOMAIN q.reminders -> Ages]
    BY <1>1, RemindersProperties
  <2> QED BY <1>1, <2>1 DEF Undated, Older
<1>3. /\ n \in {NoDate, -1} \cup Nat
      /\ n = NoDate => q.nextProcessing = NoDate
  BY <1>1 DEF NoDate
<1>4. Older(q.lastMail) \in Ages
  BY <1>1, BoundsProperties DEF Older, Ages, Never
<1>5. Aged(q) = [q EXCEPT !.lastMail = Older(q.lastMail), !.reminders = r,
                          !.nextProcessing = n]
  BY <1>1 DEF Aged, Queue
<1> HIDE DEF r, n
<1>6. /\ Aged(q) \in Queue
      /\ Aged(q).alerts = q.alerts /\ Aged(q).cancellations = q.cancellations
      /\ Aged(q).reminders = q.reminders /\ Aged(q).nextProcessing = n
      /\ Aged(q).lastMail = Older(q.lastMail)
  BY <1>1, <1>2, <1>3, <1>4, <1>5 DEF Queue
<1>7. Good(Aged(q))
  BY <1>1, <1>3, <1>6 DEF Good, Undated
<1> QED BY <1>6, <1>7 DEF Older

LEMMA TickStep ==
  ASSUME Inv, Tick
  PROVE  Inv' /\ View!Tick
<1> DEFINE set == {a \in Addresses : Has(a)}
           new == [a \in set |-> Aged(queues[a])]
<1>1. /\ 0 \notin strays /\ \A a \in Addresses : 0 \notin timers[a]
      /\ queues' = [a \in Addresses |-> IF a \in set THEN new[a] ELSE queues[a]]
      /\ timers' = [a \in Addresses |-> Nearer(timers[a])]
      /\ strays' = Nearer(strays)
      /\ asyncDue' = TRUE
      /\ UNCHANGED <<config, raised>>
  <2>1. queues' = [a \in Addresses |-> IF Has(a) THEN Aged(queues[a]) ELSE NoQueue]
    BY DEF Tick
  <2>2. \A a \in Addresses : queues'[a] = IF a \in set THEN new[a] ELSE queues[a]
    BY <2>1 DEF Has
  <2> QED BY <2>1, <2>2 DEF Tick
<1>2. \A a \in set : new[a] = Aged(queues[a]) /\ Good(new[a])
  BY AgedGood DEF Inv
<1>3. \A a \in set : new[a] = NoQueue \/ Good(new[a])
  BY <1>2
<1>4. set \in SUBSET Addresses /\ \A a \in Addresses : a \in set <=> Has(a)
  OBVIOUS
<1> HIDE DEF set, new
<1>5. /\ queues' \in [Addresses -> Queue \cup {NoQueue}]
      /\ \A a \in Addresses : Has(a)' => Good(queues[a])'
      /\ \A a \in Addresses : Has(a)' <=> IF a \in set THEN new[a] # NoQueue ELSE Has(a)
      /\ \A a \in Addresses :
           QueueOf(a)' = IF a \notin set THEN QueueOf(a)
                         ELSE IF new[a] = NoQueue THEN NewQueue ELSE new[a]
  <2>1. set \in SUBSET Addresses
    BY <1>4
  <2>2. queues' = [a \in Addresses |-> IF a \in set THEN new[a] ELSE queues[a]]
    BY <1>1
  <2> QED BY <1>3, <2>1, <2>2, ReplacedQueues
<1>6. \A a \in set : new[a] # NoQueue
  BY <1>2, QueueIsOne DEF Good
<1>7. Inv'
  <2>1. \A delays : delays \subseteq Nat /\ 0 \notin delays => Nearer(delays) \subseteq Nat
    BY DEF Nearer
  <2>2. timers \in [Addresses -> SUBSET Nat] /\ strays \subseteq Nat
    BY DEF Inv, TypeOK
  <2>3. timers' \in [Addresses -> SUBSET Nat] /\ strays' \subseteq Nat
    BY <1>1, <2>1, <2>2
  <2>4. TimersHaveQueue'
    <3>1. \A a \in Addresses : timers'[a] # {} => timers[a] # {}
      BY <1>1 DEF Nearer
    <3> QED BY <1>4, <1>5, <1>6, <3>1 DEF Inv, TimersHaveQueue
  <2> QED BY <1>1, <1>5, <2>3, <2>4 DEF Inv, TypeOK
<1>8. \A a \in Addresses :
        /\ QueueOf(a)'.alerts = QueueOf(a).alerts
        /\ QueueOf(a)'.cancellations = QueueOf(a).cancellations
        /\ DOMAIN QueueOf(a)'.reminders = DOMAIN QueueOf(a).reminders
        /\ QueueOf(a)'.lastMail = IF QueueOf(a).lastMail \in {Never, Cap}
                                  THEN QueueOf(a).lastMail
                                  ELSE QueueOf(a).lastMail + 1
  <2> SUFFICES ASSUME NEW a \in Addresses
               PROVE  /\ QueueOf(a)'.alerts = QueueOf(a).alerts
                      /\ QueueOf(a)'.cancellations = QueueOf(a).cancellations
                      /\ DOMAIN QueueOf(a)'.reminders = DOMAIN QueueOf(a).reminders
                      /\ QueueOf(a)'.lastMail = IF QueueOf(a).lastMail \in {Never, Cap}
                                                THEN QueueOf(a).lastMail
                                                ELSE QueueOf(a).lastMail + 1
    OBVIOUS
  <2>1. CASE a \in set
    <3>1. QueueOf(a) = queues[a] /\ QueueOf(a)' = Aged(queues[a]) /\ Good(queues[a])
      BY <1>2, <1>4, <1>5, <1>6, <2>1 DEF QueueOf, Inv
    <3> QED BY <3>1, AgedGood
  <2>2. CASE a \notin set
    <3>1. QueueOf(a)' = QueueOf(a) /\ QueueOf(a).lastMail = Never
      BY <1>4, <1>5, <2>2, NewQueueGood DEF QueueOf
    <3> QED BY <3>1
  <2> QED BY <2>1, <2>2
<1>9. View!Tick
  <2>1. /\ UNCHANGED <<ViewAlerts, ViewCancellations, ViewReminders>>
        /\ ViewLastMail' = [a \in Addresses |->
             IF ViewLastMail[a] \in {Never, Cap} THEN ViewLastMail[a]
             ELSE ViewLastMail[a] + 1]
    BY <1>8, ViewOfQueues, ViewOfNextQueues
  <2> QED BY <1>1, <2>1
          DEF View!Tick, ViewAlerts, ViewCancellations, ViewReminders, ViewLastMail
<1> QED BY <1>7, <1>9

-----------------------------------------------------------------------------
(* The theorems.                                                           *)

\* The steps of the abstract channel but notices.
OtherViewStep ==
  \/ UNCHANGED <<config, raised, ViewAlerts, ViewCancellations, ViewReminders, ViewLastMail>>
  \/ \E to \in SUBSET Addresses : View!Mails(to)
  \/ \E forgotten \in SUBSET Addresses : View!SetConfig(forgotten)
  \/ View!Tick

LEMMA NextStep ==
  ASSUME Inv, [Next]_vars
  PROVE  /\ Inv'
         /\ \/ OtherViewStep
            \/ \E alert \in Alerts, status \in AlertStatus : DoNotifyAlert(alert, status)
<1>1. ASSUME NEW alert \in Alerts, NEW status \in AlertStatus, DoNotifyAlert(alert, status)
      PROVE  Inv'
  BY <1>1, DoNotifyAlertQueues
<1>2. ASSUME NEW a \in Addresses, NEW sent \in BOOLEAN, ProcessTimer(a, sent)
      PROVE  Inv' /\ OtherViewStep
  BY <1>2, ProcessTimerStep DEF OtherViewStep
<1>3. CASE StrayTimer
  BY <1>3, StrayTimerStep DEF OtherViewStep
<1>4. ASSUME NEW sent \in [Addresses -> BOOLEAN], AsyncProcessing(sent)
      PROVE  Inv' /\ OtherViewStep
  BY <1>4, AsyncProcessingStep DEF OtherViewStep
<1>5. ASSUME NEW new \in Configs, SetConfig(new)
      PROVE  Inv' /\ OtherViewStep
  BY <1>5, SetConfigStep DEF OtherViewStep
<1>6. ASSUME NEW a \in Addresses, LoseTimer(a)
      PROVE  Inv' /\ OtherViewStep
  BY <1>6, LoseTimerStep DEF OtherViewStep
<1>7. CASE Tick
  BY <1>7, TickStep DEF OtherViewStep
<1>8. CASE UNCHANGED vars
  BY <1>8, SameQueues DEF OtherViewStep, vars, Inv, TypeOK
<1> QED BY <1>1, <1>2, <1>3, <1>4, <1>5, <1>6, <1>7, <1>8 DEF Next

LEMMA InvAlways == Spec => []Inv
<1>1. Init => Inv
  BY InitInv
<1>2. Inv /\ [Next]_vars => Inv'
  BY NextStep
<1> QED BY <1>1, <1>2, PTL DEF Spec

\* Every variable of the mail channel keeps its type.
THEOREM MailTypeCorrect == Spec => []TypeOK
<1>1. Inv => TypeOK
  BY DEF Inv
<1> QED BY <1>1, InvAlways, PTL

\* A queue with notices is never forgotten, whatever timers are lost, mails are
\* refused, and however old the last one is (MailAlertChannel::processQueue).
THEOREM NoticesAreScheduled == Spec => []WaitingIsScheduled
<1>1. Inv => WaitingIsScheduled
  BY DEF Inv, Good, WaitingIsScheduled, Waiting
<1> QED BY <1>1, InvAlways, PTL

\* No mail is ever sent for a reminder: no alert to be reminded of has a date
\* (MailAlertChannel::processQueue, which dates a copy of the alert).
THEOREM NeverReminded == Spec => [](\A a \in Addresses : Has(a) => Undated(queues[a]))
<1>1. Inv => \A a \in Addresses : Has(a) => Undated(queues[a])
  BY DEF Inv, Good
<1> QED BY <1>1, InvAlways, PTL

\* The channel implements its abstract specification, when a subscription that does
\* not want cancelations has one address: one mail to an address takes all that
\* waits, late enough after the last one (MailAlertChannel).
THEOREM MailViewImplemented ==
  ASSUME OneAddressIfNoCancel
  PROVE  Spec => ImplementsMailView
<1>1. Init => View!Init
  BY InitInv
<1>2. Inv /\ [Next]_vars => [View!Next]_(View!vars)
  <2> SUFFICES ASSUME Inv, [Next]_vars PROVE View!Next \/ UNCHANGED View!vars
    OBVIOUS
  <2>1. CASE OtherViewStep
    BY <2>1 DEF OtherViewStep, View!Next, View!vars, ViewAlerts, ViewCancellations,
                ViewReminders, ViewLastMail
  <2>2. ASSUME NEW alert \in Alerts, NEW status \in AlertStatus, DoNotifyAlert(alert, status)
        PROVE  View!Next
    BY <2>2, DoNotifyAlertView DEF View!Next, AlertStatus
  <2> QED BY <2>1, <2>2, NextStep
<1> QED BY <1>1, <1>2, InvAlways, PTL DEF Spec, ImplementsMailView, View!Spec
=============================================================================
