------------------------------- MODULE MailView -------------------------------
(***************************************************************************)
(* What the mail channel promises: every notice that its subscription      *)
(* wants waits for each of its addresses, in order, until one mail to that *)
(* address takes all those that wait, mails to an address are at least     *)
(* minDelayBetweenSend apart, and the alerts still raised are reminded.    *)
(***************************************************************************)
EXTENDS Integers, Sequences

CONSTANTS Addresses, Alerts, Never, Cap

VARIABLES config, raised, alerts, cancellations, reminders, lastMail

vars == <<config, raised, alerts, cancellations, reminders, lastMail>>

Notice(alert, status) ==
  LET sub == config.subscriptions[alert]
      to == {sub.addresses[i] : i \in DOMAIN sub.addresses}
      append(queue) == [a \in Addresses |->
                         IF a \in to THEN Append(queue[a], alert) ELSE queue[a]]
      remind(set) == [a \in Addresses |-> IF a \in to THEN set[a] ELSE reminders[a]]
  IN /\ raised' = [raised EXCEPT ![alert] = status = "Raised"]
     /\ alerts' = IF status # "Canceled" /\ sub.emit THEN append(alerts) ELSE alerts
     /\ cancellations' =
          IF status = "Canceled" /\ sub.cancel THEN append(cancellations) ELSE cancellations
     /\ reminders' = CASE status = "Raised" /\ sub.reminder ->
                            remind([a \in Addresses |-> reminders[a] \cup {alert}])
                       [] status = "Canceled" ->
                            remind([a \in Addresses |-> reminders[a] \ {alert}])
                       [] OTHER -> reminders
     /\ UNCHANGED <<config, lastMail>>

\* One mail to each of some addresses.
Mails(to) ==
  /\ \A a \in to :
       /\ alerts[a] # <<>> \/ cancellations[a] # <<>>
       /\ lastMail[a] = Never \/ lastMail[a] >= config.minDelayBetweenSend
  /\ alerts' = [a \in Addresses |-> IF a \in to THEN <<>> ELSE alerts[a]]
  /\ cancellations' = [a \in Addresses |-> IF a \in to THEN <<>> ELSE cancellations[a]]
  /\ lastMail' = [a \in Addresses |-> IF a \in to THEN 0 ELSE lastMail[a]]
  /\ UNCHANGED <<config, raised, reminders>>

\* A new configuration may forget the addresses it no longer has, and those that
\* have waited for nothing for long.
SetConfig(forgotten) ==
  /\ \A a \in forgotten :
       \/ \A alert \in Alerts : \A i \in DOMAIN config'.subscriptions[alert].addresses :
            config'.subscriptions[alert].addresses[i] # a
       \/ /\ alerts[a] = <<>> /\ cancellations[a] = <<>> /\ reminders[a] = {}
          /\ lastMail[a] = Never \/ lastMail[a] > config'.remindPeriod
  /\ alerts' = [a \in Addresses |-> IF a \in forgotten THEN <<>> ELSE alerts[a]]
  /\ cancellations' = [a \in Addresses |-> IF a \in forgotten THEN <<>> ELSE cancellations[a]]
  /\ reminders' = [a \in Addresses |-> IF a \in forgotten THEN {} ELSE reminders[a]]
  /\ lastMail' = [a \in Addresses |-> IF a \in forgotten THEN Never ELSE lastMail[a]]
  /\ UNCHANGED raised

Tick ==
  /\ lastMail' = [a \in Addresses |->
                   IF lastMail[a] \in {Never, Cap} THEN lastMail[a] ELSE lastMail[a] + 1]
  /\ UNCHANGED <<config, raised, alerts, cancellations, reminders>>

Init ==
  /\ raised = [alert \in Alerts |-> FALSE]
  /\ alerts = [a \in Addresses |-> <<>>]
  /\ cancellations = [a \in Addresses |-> <<>>]
  /\ reminders = [a \in Addresses |-> {}]
  /\ lastMail = [a \in Addresses |-> Never]

Next ==
  \/ \E alert \in Alerts, s \in {"Raised", "Canceled", "Nonexistent"} : Notice(alert, s)
  \/ \E to \in SUBSET Addresses : Mails(to)
  \/ \E forgotten \in SUBSET Addresses : SetConfig(forgotten)
  \/ Tick

Spec == Init /\ [][Next]_vars
=============================================================================
