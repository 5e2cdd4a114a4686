------------------------------- MODULE Alerter -------------------------------
(***************************************************************************)
(* The alerter of libqron.                                                 *)
(*                                                                         *)
(* Stateful alerts are raised and canceled by requests, but change state   *)
(* for the channels only after delays, which a batch checks every ten      *)
(* seconds.  One-shot alerts are emitted, and aggregated when the same one *)
(* was emitted recently.  Requests, posted by any thread, and the batch    *)
(* are handled one after the other by the alerter thread.  Each request on *)
(* a stateful alert is also put in a bounded buffer, which the gridboard   *)
(* thread empties.                                                         *)
(***************************************************************************)
EXTENDS Integers, Sequences, FiniteSets

CONSTANTS
  Alerts,        \* ids of alerts
  Settings,      \* the settings of each alert, 0 for a delay that is not set
  Default,       \* the delays of the configuration
  Requests,      \* what the other threads may request
  BufferSize,    \* the size of the buffer of the gridboard thread
  MaxRequests,   \* bound on the requests
  MaxTime,       \* bound on the time
  Horizon        \* bound on the dates, MaxTime and the longest delay

Delays == [rise: Nat, mayrise: Nat, drop: Nat, duplicateEmit: Nat]

\* The windows of an alert are cron triggers: visibleFrom gives the first time,
\* from a time on, when the visibility window is open, acceptable the times when
\* the acceptability window is.
AlertSettings ==
  [delays: Delays, visibleFrom: [0..Horizon -> Nat], acceptable: SUBSET Nat]

Delay(a, d) ==
  IF Settings[a].delays[d] > 0 THEN Settings[a].delays[d] ELSE Default[d]

ASSUME SettingsAssumption ==
  /\ Settings \in [Alerts -> AlertSettings]
  /\ Default \in Delays
  /\ \A a \in Alerts : \A t \in 0..Horizon : Settings[a].visibleFrom[t] >= t

ASSUME BoundsAssumption ==
  /\ BufferSize \in Nat
  /\ MaxRequests \in Nat
  /\ MaxTime \in Nat
  /\ Horizon \in Nat
  /\ \A a \in Alerts : \A d \in {"rise", "mayrise", "drop", "duplicateEmit"} :
       MaxTime + Delay(a, d) <= Horizon

VARIABLES
  now,             \* QDateTime::currentDateTime()
  statefulAlerts,  \* _statefulAlerts, where NoAlert stands for no alert
  oneshotAlerts,   \* _oneshotAlerts, where NoOneshot stands for no alert
  raiseNotices, cancelNotices,  \* notices to the channels, by stateful alert
  emitNotices,     \* alerts notified, aggregated ones counted, by one-shot alert
  emitted,         \* emissions requested while the alert was acceptable
  lastRequest,     \* the last request on each stateful alert
  lastRaise,       \* the time of the last request to raise it
  buffer,          \* what the gridboard thread has still to read
  unread,          \* alerts whose last change did not fit in the buffer
  boards,          \* what the gridboards show of each alert
  requests         \* how many requests were made

noticeVars == <<raiseNotices, cancelNotices>>
oneshotVars == <<oneshotAlerts, emitNotices, emitted>>
statefulVars == <<statefulAlerts, noticeVars, lastRequest, lastRaise>>
gridVars == <<buffer, unread, boards>>
vars == <<now, statefulVars, oneshotVars, gridVars, requests>>

NoDate == -1

AlertStatus == {"Nonexistent", "Rising", "MayRise", "Raised", "Dropping"}

NoAlert == [status |-> "Nonexistent", rise |-> NoDate, visibility |-> NoDate,
            cancellation |-> NoDate]

NoOneshot == [visibility |-> NoDate, count |-> 0]

-----------------------------------------------------------------------------
(* Settings.                                                               *)

WindowCorrectedVisibilityDate(a, t) == Settings[a].visibleFrom[t]

Visible(a) == Settings[a].visibleFrom[now] = now

Acceptable(a) == now \in Settings[a].acceptable

-----------------------------------------------------------------------------
(* Stateful alerts.                                                        *)

Status(a) == statefulAlerts[a].status

\* The alert as the handlers find it, or a new one.
Known(a) ==
  IF Status(a) = "Nonexistent"
  THEN [NoAlert EXCEPT !.rise = now] ELSE statefulAlerts[a]

Raised(s) == [s EXCEPT !.status = "Raised", !.visibility = NoDate]

NoLongerCanceled(s) ==
  [s EXCEPT !.status = "Raised", !.cancellation = NoDate]

\* Mutant: the rise delay is not added.
RisingAtOnce(a) ==
  [Known(a) EXCEPT !.status = "Rising",
     !.visibility = WindowCorrectedVisibilityDate(a, Known(a).rise)]

Rising(a) ==
  [Known(a) EXCEPT !.status = "Rising",
     !.visibility =
       WindowCorrectedVisibilityDate(a, Known(a).rise + Delay(a, "rise"))]

Latest(t, u) == IF t > u THEN t ELSE u

MayRise(a) ==
  LET until == now + Delay(a, "mayrise")
  IN  [statefulAlerts[a] EXCEPT !.status = "MayRise", !.cancellation = until,
                        !.visibility = Latest(@, until)]

Dropping(a) ==
  [statefulAlerts[a] EXCEPT !.status = "Dropping",
                            !.cancellation = now + Delay(a, "drop")]

\* Mutant: the gridboards are notified of the former status.
CommitOldStatus(a, s) ==
  /\ statefulAlerts' = [statefulAlerts EXCEPT ![a] = s]
  /\ \/ /\ Len(buffer) < BufferSize
        /\ buffer' = Append(buffer, <<a, Status(a)>>)
        /\ unread' = unread \ {a}
     \/ /\ Len(buffer) >= BufferSize
        /\ unread' = unread \cup {a}
        /\ UNCHANGED buffer

\* commitChange() then notifyGridboards(): what does not fit in the buffer is
\* lost.
Commit(a, s) ==
  /\ statefulAlerts' = [statefulAlerts EXCEPT ![a] = s]
  /\ \/ /\ Len(buffer) < BufferSize
        /\ buffer' = Append(buffer, <<a, s.status>>)
        /\ unread' = unread \ {a}
     \/ /\ Len(buffer) >= BufferSize
        /\ unread' = unread \cup {a}
        /\ UNCHANGED buffer

NotifyRaised(a) ==
  /\ raiseNotices' = [raiseNotices EXCEPT ![a] = @ + 1]
  /\ UNCHANGED cancelNotices

NotifyCanceled(a) ==
  /\ cancelNotices' = [cancelNotices EXCEPT ![a] = @ + 1]
  /\ UNCHANGED raiseNotices

Request(method, a) ==
  /\ <<method, a>> \in Requests
  /\ requests < MaxRequests
  /\ requests' = requests + 1

Requested(method, a) ==
  /\ Request(method, a)
  /\ lastRequest' = [lastRequest EXCEPT ![a] = method]
  /\ lastRaise' = IF method \in {"raise", "raiseImmediately"}
                  THEN [lastRaise EXCEPT ![a] = now] ELSE lastRaise
  /\ UNCHANGED <<now, oneshotVars, boards>>

\* doRaiseAlert(a, false)
RaiseAlert(a) ==
  /\ Acceptable(a)
  /\ Requested("raise", a)
  /\ \/ /\ Status(a) \in {"Rising", "Raised"}
        /\ Commit(a, statefulAlerts[a])
        /\ UNCHANGED noticeVars
     \/ /\ Status(a) = "MayRise" /\ statefulAlerts[a].visibility <= now
        /\ Commit(a, Raised(statefulAlerts[a]))
        /\ NotifyRaised(a)
     \/ /\ \/ Status(a) = "Nonexistent"
           \/ Status(a) = "MayRise" /\ statefulAlerts[a].visibility > now
        /\ Commit(a, Rising(a))
        /\ UNCHANGED noticeVars
     \/ /\ Status(a) = "Dropping"
        /\ Commit(a, NoLongerCanceled(statefulAlerts[a]))
        /\ UNCHANGED noticeVars

\* Mutant: an alert that is dropping is notified again.
RaiseAlertImmediatelyAgain(a) ==
  /\ Acceptable(a)
  /\ Requested("raiseImmediately", a)
  /\ \/ /\ Status(a) # "Raised"
        /\ Commit(a, Raised(Known(a)))
        /\ NotifyRaised(a)
     \/ /\ Status(a) = "Raised"
        /\ Commit(a, statefulAlerts[a])
        /\ UNCHANGED noticeVars

\* doRaiseAlert(a, true)
RaiseAlertImmediately(a) ==
  /\ Acceptable(a)
  /\ Requested("raiseImmediately", a)
  /\ \/ /\ Status(a) \in {"Nonexistent", "Rising", "MayRise"}
        /\ Commit(a, Raised(Known(a)))
        /\ NotifyRaised(a)
     \/ /\ Status(a) = "Dropping"
        /\ Commit(a, NoLongerCanceled(statefulAlerts[a]))
        /\ UNCHANGED noticeVars
     \/ /\ Status(a) = "Raised"
        /\ Commit(a, statefulAlerts[a])
        /\ UNCHANGED noticeVars

\* doCancelAlert(a, false)
CancelAlert(a) ==
  /\ Requested("cancel", a)
  /\ \/ Status(a) = "Rising" /\ Commit(a, MayRise(a))
     \/ Status(a) = "Raised" /\ Commit(a, Dropping(a))
     \/ /\ Status(a) \in {"Nonexistent", "MayRise", "Dropping"}
        /\ Commit(a, statefulAlerts[a])
  /\ UNCHANGED noticeVars

\* doCancelAlert(a, true)
CancelAlertImmediately(a) ==
  /\ Requested("cancelImmediately", a)
  /\ Commit(a, NoAlert)
  /\ \/ /\ Status(a) \in {"Raised", "Dropping"}
        /\ NotifyCanceled(a)
     \/ /\ Status(a) \notin {"Raised", "Dropping"}
        /\ UNCHANGED noticeVars

\* A request to raise or emit an alert that is not acceptable has no effect.
IgnoreAlert(method, a) ==
  /\ method \in {"raise", "raiseImmediately", "emit"}
  /\ ~Acceptable(a)
  /\ Request(method, a)
  /\ UNCHANGED <<now, statefulVars, oneshotVars, gridVars>>

-----------------------------------------------------------------------------
(* One-shot alerts.                                                        *)

\* Notify the channels of n emissions of a.
NotifyEmitted(a, n) == emitNotices' = [emitNotices EXCEPT ![a] = @ + n]

\* Record a with n emissions that are not notified yet.
Record(a, n) ==
  oneshotAlerts' = [oneshotAlerts EXCEPT ![a] =
    [count |-> n,
     visibility |->
       WindowCorrectedVisibilityDate(a, now + Delay(a, "duplicateEmit"))]]

Aggregate(a) ==
  oneshotAlerts' = [oneshotAlerts EXCEPT ![a].count = @ + 1]

\* doEmitAlert(): a new alert is notified at once in its visibility window, and
\* recorded; a recent one is aggregated; an older one is notified with the
\* emissions aggregated so far.
EmitAlert(a) ==
  LET known == oneshotAlerts[a]
      notifyEmissions == NotifyEmitted(a, known.count + 1) /\ Record(a, 0)
      keep == UNCHANGED emitNotices
  IN  /\ Acceptable(a)
      /\ Request("emit", a)
      /\ emitted' = [emitted EXCEPT ![a] = @ + 1]
      /\ \/ known = NoOneshot /\ Visible(a)
            /\ notifyEmissions
         \/ known = NoOneshot /\ ~Visible(a)
            /\ Record(a, 1) /\ keep
         \/ known # NoOneshot /\ known.visibility >= now
            /\ Aggregate(a) /\ keep
         \/ known # NoOneshot /\ known.visibility < now
            /\ notifyEmissions
      /\ UNCHANGED <<now, statefulVars, gridVars>>

-----------------------------------------------------------------------------
(* The batch.                                                              *)

\* Mutant: an alert that may rise is left to the next request.
SettledUnlessMayRise(a) ==
  LET s == statefulAlerts[a]
  IN  IF s.status = "Rising" /\ s.visibility <= now THEN Raised(s)
      ELSE IF s.status = "Dropping" /\ s.cancellation <= now THEN NoAlert
      ELSE s

\* Mutant: an alert that is raised is not told apart from one that is dropping.
SettledNonexistent(a) ==
  LET s == statefulAlerts[a]
  IN  IF s.status \in {"Rising", "MayRise"} /\ s.visibility <= now
      THEN Raised(s)
      ELSE IF s.status \in {"Raised", "Dropping"} /\ s.cancellation <= now
      THEN NoAlert
      ELSE s

\* What the batch makes of a stateful alert.
Settled(a) ==
  LET s == statefulAlerts[a]
      expired == s.status \in {"MayRise", "Dropping"} /\ s.cancellation <= now
      visible == s.status \in {"Rising", "MayRise"} /\ s.visibility <= now
  IN  IF visible /\ ~(expired /\ s.cancellation < s.visibility)
      THEN Raised(s)
      ELSE IF expired THEN NoAlert ELSE s

\* The one-shot alerts whose aggregation ends.
Ended(a) == oneshotAlerts[a] # NoOneshot /\ oneshotAlerts[a].visibility <= now

\* Removing an item of a hash from a loop on the same hash makes the loop skip
\* at most one other item.
MaySkip(skipped, removed) ==
  Cardinality(skipped) <= Cardinality(removed \ skipped)

\* asyncProcessing(), on the stateful alerts that are not skipped.
SettleStateful ==
  \E skipped \in SUBSET Alerts :
    LET visited == {a \in Alerts : Status(a) # "Nonexistent"} \ skipped
        removed == {a \in visited : Settled(a) = NoAlert}
        risen == {a \in visited : Status(a) # "Raised"
                                  /\ Settled(a).status = "Raised"}
        dropped == {a \in removed : Status(a) = "Dropping"}
    IN  /\ MaySkip(skipped, removed)
        /\ statefulAlerts' =
             [a \in Alerts |-> IF a \in visited THEN Settled(a)
                               ELSE statefulAlerts[a]]
        /\ raiseNotices' = [a \in Alerts |->
             raiseNotices[a] + IF a \in risen THEN 1 ELSE 0]
        /\ cancelNotices' = [a \in Alerts |->
             cancelNotices[a] + IF a \in dropped THEN 1 ELSE 0]

\* asyncProcessing(), on the one-shot alerts that are not skipped.
SettleOneshots ==
  \E skipped \in SUBSET Alerts :
    LET removed == {a \in Alerts : Ended(a)} \ skipped
    IN  /\ MaySkip(skipped, removed)
        /\ oneshotAlerts' =
             [a \in Alerts |-> IF a \in removed THEN NoOneshot
                               ELSE oneshotAlerts[a]]
        /\ emitNotices' = [a \in Alerts |-> emitNotices[a] +
             IF a \in removed THEN oneshotAlerts[a].count ELSE 0]

AsyncProcessing ==
  /\ SettleStateful
  /\ SettleOneshots
  /\ UNCHANGED <<now, lastRequest, lastRaise, emitted, gridVars, requests>>

-----------------------------------------------------------------------------
(* The gridboard thread, and time.                                         *)

UpdateGridboards ==
  /\ buffer # <<>>
  /\ LET a == Head(buffer)[1]
         status == Head(buffer)[2]
     IN  boards' = [boards EXCEPT ![a] =
           IF status \in {"Raised", "Rising"} THEN "Raised" ELSE "Ok"]
  /\ buffer' = Tail(buffer)
  /\ UNCHANGED <<now, statefulVars, oneshotVars, unread, requests>>

Tick ==
  /\ now < MaxTime
  /\ now' = now + 1
  /\ UNCHANGED <<statefulVars, oneshotVars, gridVars, requests>>

-----------------------------------------------------------------------------
(* The specification.                                                      *)

Init ==
  /\ now = 0
  /\ statefulAlerts = [a \in Alerts |-> NoAlert]
  /\ oneshotAlerts = [a \in Alerts |-> NoOneshot]
  /\ raiseNotices = [a \in Alerts |-> 0]
  /\ cancelNotices = [a \in Alerts |-> 0]
  /\ emitNotices = [a \in Alerts |-> 0]
  /\ emitted = [a \in Alerts |-> 0]
  /\ lastRequest = [a \in Alerts |-> "none"]
  /\ lastRaise = [a \in Alerts |-> NoDate]
  /\ buffer = <<>> /\ unread = {}
  /\ boards = [a \in Alerts |-> "Unknown"]
  /\ requests = 0

HandleRequest(a) ==
  \/ RaiseAlert(a) \/ RaiseAlertImmediately(a)
  \/ CancelAlert(a) \/ CancelAlertImmediately(a)
  \/ EmitAlert(a)
  \/ \E method \in {"raise", "raiseImmediately", "emit"} :
       IgnoreAlert(method, a)

Next ==
  \/ \E a \in Alerts : HandleRequest(a)
  \/ AsyncProcessing
  \/ UpdateGridboards
  \/ Tick

Spec == Init /\ [][Next]_vars

\* The timer of the batch goes on firing, and the gridboard thread reads.
FairSpec == Spec /\ WF_vars(AsyncProcessing) /\ WF_vars(UpdateGridboards)
=============================================================================
