---------------------------- MODULE MailProperties ----------------------------
EXTENDS MailAlertChannel

Ages == {Never} \cup 0..Cap
Reminders == UNION {[ids -> Ages] : ids \in SUBSET Alerts}
Queue ==
  [alerts : Seq(Alerts), cancellations : Seq(Alerts), reminders : Reminders,
   lastMail : Ages, nextProcessing : {NoDate, -1} \cup Nat]

\* The type invariant of the mail channel.
TypeOK ==
  /\ config \in Configs
  /\ queues \in [Addresses -> Queue \cup {NoQueue}]
  /\ timers \in [Addresses -> SUBSET Nat]
  /\ strays \subseteq Nat
  /\ asyncDue \in BOOLEAN
  /\ raised \in [Alerts -> BOOLEAN]

Field(f, default) == [a \in Addresses |-> IF Has(a) THEN queues[a][f] ELSE default]

View == INSTANCE MailView WITH
  alerts <- Field("alerts", <<>>), cancellations <- Field("cancellations", <<>>),
  reminders <- [a \in Addresses |-> IF Has(a) THEN DOMAIN queues[a].reminders ELSE {}],
  lastMail <- Field("lastMail", Never)

\* The channel sends "at most one mail every mindelaybetweensend seconds"
\* (mailalertchannel.h:27-28) to an address, with every notice its subscription
\* wants, once and in order; an alert is reminded of from its raise to its
\* cancelation, whatever is sent or fails to be.
ImplementsMailView == View!Spec

\* A queue with notices is never forgotten: its processing is scheduled, by a
\* timer or by a date that the asynchronous processing will find in the past.
Waiting(a) == Has(a) /\ (queues[a].alerts # <<>> \/ queues[a].cancellations # <<>>)
WaitingIsScheduled == \A a \in Addresses : Waiting(a) => queues[a].nextProcessing # NoDate

\* The mail server takes a mail sooner or later, the thread runs and time passes.
MaySend(a) ==
  /\ Waiting(a)
  /\ queues[a].lastMail = Never \/ ToInt(queues[a].lastMail) >= config.minDelayBetweenSend
TimerSends(a) == MaySend(a) /\ ProcessTimer(a, TRUE)
AsyncSends(a) ==
  /\ MaySend(a) /\ ToBeChecked(queues[a])
  /\ \E sent \in [Addresses -> BOOLEAN] : sent[a] /\ AsyncProcessing(sent)

Fairness ==
  /\ SF_vars(Tick)
  /\ WF_vars(StrayTimer)
  /\ WF_vars(\E sent \in [Addresses -> BOOLEAN] : AsyncProcessing(sent))
  /\ \A a \in Addresses :
       /\ WF_vars(\E sent \in BOOLEAN : ProcessTimer(a, sent))
       /\ SF_vars(TimerSends(a))
       /\ SF_vars(AsyncSends(a))

FairSpec == Spec /\ Fairness

\* Every notice leaves in a mail in the end, though timers are lost and mails
\* fail, unless its address is no longer configured.
EveryNoticeMailed == \A a \in Addresses : Waiting(a) ~> ~Waiting(a)
=============================================================================
