-------------------------- MODULE AlerterProperties --------------------------
(***************************************************************************)
(* What the alerter promises.                                              *)
(***************************************************************************)
EXTENDS Alerter

Date == Nat \cup {NoDate}

TypeOK ==
  /\ now \in 0..MaxTime
  /\ statefulAlerts \in [Alerts -> [status: AlertStatus, rise: Date,
                                    visibility: Date, cancellation: Date]]
  /\ oneshotAlerts \in [Alerts -> [visibility: Date, count: Nat]]
  /\ raiseNotices \in [Alerts -> Nat] /\ cancelNotices \in [Alerts -> Nat]
  /\ emitNotices \in [Alerts -> Nat] /\ emitted \in [Alerts -> Nat]
  /\ lastRequest \in [Alerts -> {"none", "raise", "raiseImmediately", "cancel",
                                 "cancelImmediately"}]
  /\ lastRaise \in [Alerts -> Date]
  /\ buffer \in Seq(Alerts \X AlertStatus) /\ Len(buffer) <= BufferSize
  /\ unread \subseteq Alerts
  /\ boards \in [Alerts -> {"Unknown", "Ok", "Raised"}]
  /\ requests \in 0..MaxRequests

-----------------------------------------------------------------------------
(* Stateful alerts.                                                        *)

SeenRaised == {a \in Alerts : Status(a) \in {"Raised", "Dropping"}}

ChannelView == INSTANCE AlertChannelView WITH raised <- SeenRaised

\* Channels see the three states of the second table of alerter.h: a notice of
\* rise when an alert becomes raised, a notice of cancelation when it ends, one
\* of each in turn, whatever requests and batches do in between.
ImplementsChannelView == ChannelView!Spec

\* The notices sent so far are those of the alerts that were raised, once each,
\* less those that were canceled (actionRaise, actionCancel, commitChange).
NoticesBalance ==
  \A a \in Alerts : raiseNotices[a] =
    cancelNotices[a] + IF a \in SeenRaised THEN 1 ELSE 0

\* An alert that is not raised immediately is notified no earlier than the rise
\* delay after it first rose, even if it was canceled and raised again since.
NeverRaisedEarly ==
  [][\A a \in Alerts :
       raiseNotices'[a] # raiseNotices[a]
         /\ lastRequest'[a] # "raiseImmediately"
       => statefulAlerts[a].rise + Delay(a, "rise") <= now]_vars

\* The cancelation of an alert that is not canceled immediately is notified no
\* earlier than the drop delay after the last request to raise it: an alert
\* that flips and flops is notified once.
NeverDroppedEarly ==
  [][\A a \in Alerts :
       cancelNotices'[a] # cancelNotices[a]
         /\ lastRequest'[a] # "cancelImmediately"
       => /\ lastRequest[a] = "cancel"
          /\ lastRaise[a] + Delay(a, "drop") <= now]_vars

\* Channels are told of no change before its delay, rise or cancelation.
TransitionsInTime == NeverRaisedEarly /\ NeverDroppedEarly

\* No delay of a stateful alert is forgotten by the batch, though it may be
\* skipped by one whose loop removes another alert.
Overdue(a) ==
  \/ Status(a) \in {"Rising", "MayRise"} /\ statefulAlerts[a].visibility <= now
  \/ Status(a) = "Dropping" /\ statefulAlerts[a].cancellation <= now

EveryDelayEnds == \A a \in Alerts : Overdue(a) ~> ~Overdue(a)

-----------------------------------------------------------------------------
(* One-shot alerts.                                                        *)

\* Every accepted emission of a one-shot alert is either notified, alone or in
\* the count of an aggregated notice, or still counted in the pending record.
EmissionsAccounted ==
  \A a \in Alerts : emitted[a] = emitNotices[a] + oneshotAlerts[a].count

\* Channels are told of everything once: of each rise and its cancelation in
\* turn, and of each accepted emission, alone or in the count of another.
NothingLost == NoticesBalance /\ EmissionsAccounted

-----------------------------------------------------------------------------
(* Gridboards.                                                             *)

\* Once the gridboard thread has read the buffer, a gridboard that shows an
\* alert as raised is right, unless the last change did not fit in the buffer.
NoGhostOnBoards ==
  \A a \in Alerts :
    buffer = <<>> /\ a \notin unread /\ boards[a] = "Raised"
    => Status(a) \in {"Rising", "Raised"}
=============================================================================
