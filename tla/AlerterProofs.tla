---------------------------- MODULE AlerterProofs ----------------------------
(***************************************************************************)
(* Proofs about the alerter, for any alerts, delays and windows.           *)
(*                                                                         *)
(* The inductive invariant adds to the types what links the state of an    *)
(* alert to its past: an alert that rises, or may rise, has a visibility   *)
(* date that is late enough, and one that is dropping a cancelation date   *)
(* that is late enough, since the last request to raise it.                *)
(***************************************************************************)
EXTENDS AlerterProperties, TLAPS

\* A visibility date is never earlier than the rise delay.
RiseDelayKept ==
  \A a \in Alerts : Status(a) \in {"Rising", "MayRise"} =>
    /\ statefulAlerts[a].rise \in 0..now
    /\ statefulAlerts[a].rise + Delay(a, "rise") <= statefulAlerts[a].visibility

\* A cancelation date is never earlier than the drop delay.
DropDelayKept ==
  \A a \in Alerts : Status(a) = "Dropping" =>
    /\ lastRequest[a] = "cancel"
    /\ lastRaise[a] + Delay(a, "drop") <= statefulAlerts[a].cancellation

RaisesArePast == \A a \in Alerts : lastRaise[a] <= now

Inv == TypeOK /\ RiseDelayKept /\ DropDelayKept /\ RaisesArePast

-----------------------------------------------------------------------------
(* The operators that make a new alert.                                    *)

StatefulAlert ==
  [status: AlertStatus, rise: Date, visibility: Date, cancellation: Date]

\* The delays of an alert are natural numbers, and short enough.
LEMMA DelayBounds ==
  ASSUME NEW a \in Alerts, NEW d \in {"rise", "mayrise", "drop", "duplicateEmit"}
  PROVE  Delay(a, d) \in Nat /\ MaxTime + Delay(a, d) <= Horizon
<1>1. Delay(a, d) \in Nat
  <2>1. Settings[a].delays \in Delays /\ Default \in Delays
    BY SettingsAssumption DEF AlertSettings
  <2> QED BY <2>1 DEF Delays, Delay
<1> QED BY <1>1, BoundsAssumption

\* The visibility windows only make an alert visible later.
LEMMA CorrectedLater ==
  ASSUME NEW a \in Alerts, NEW t \in 0..Horizon
  PROVE  /\ WindowCorrectedVisibilityDate(a, t) \in Nat
         /\ WindowCorrectedVisibilityDate(a, t) >= t
BY SettingsAssumption DEF AlertSettings, WindowCorrectedVisibilityDate

\* What is recorded for an alert is a stateful alert.
LEMMA NewAlertTypes ==
  ASSUME TypeOK, NEW a \in Alerts
  PROVE  /\ statefulAlerts[a] \in StatefulAlert
         /\ NoAlert \in StatefulAlert
         /\ Known(a) \in StatefulAlert
         /\ Raised(statefulAlerts[a]) \in StatefulAlert
         /\ Raised(Known(a)) \in StatefulAlert
         /\ NoLongerCanceled(statefulAlerts[a]) \in StatefulAlert
         /\ MayRise(a) \in StatefulAlert
         /\ Dropping(a) \in StatefulAlert
<1>1. statefulAlerts[a] \in StatefulAlert /\ NoAlert \in StatefulAlert
  BY DEF TypeOK, StatefulAlert, NoAlert, AlertStatus, Date, NoDate
<1>2. now \in Nat
  BY BoundsAssumption DEF TypeOK
<1>3. Known(a) \in StatefulAlert
  BY <1>1, <1>2 DEF Known, StatefulAlert, Date, NoDate, NoAlert, AlertStatus
<1>4. ASSUME NEW s \in StatefulAlert
      PROVE  Raised(s) \in StatefulAlert /\ NoLongerCanceled(s) \in StatefulAlert
  BY DEF Raised, NoLongerCanceled, StatefulAlert, AlertStatus, Date
<1>5. MayRise(a) \in StatefulAlert
  <2>1. now + Delay(a, "mayrise") \in Nat
    BY <1>2, DelayBounds
  <2>2. Latest(statefulAlerts[a].visibility, now + Delay(a, "mayrise")) \in Date
    BY <1>1, <2>1 DEF Latest, StatefulAlert, Date
  <2> QED BY <1>1, <2>1, <2>2 DEF MayRise, StatefulAlert, AlertStatus, Date
<1>6. Dropping(a) \in StatefulAlert
  <2>1. now + Delay(a, "drop") \in Nat
    BY <1>2, DelayBounds
  <2> QED BY <1>1, <2>1 DEF Dropping, StatefulAlert, AlertStatus, Date
<1> QED BY <1>1, <1>3, <1>4, <1>5, <1>6

\* An alert that starts to rise has a date that is known, and late enough.
LEMMA RisingLateEnough ==
  ASSUME Inv, NEW a \in Alerts, Status(a) \in {"Nonexistent", "MayRise"}
  PROVE  /\ Rising(a) \in StatefulAlert
         /\ Rising(a).status = "Rising"
         /\ Rising(a).rise \in 0..now
         /\ Rising(a).rise + Delay(a, "rise") <= Rising(a).visibility
<1>1. now \in Nat /\ now <= MaxTime /\ MaxTime \in Nat /\ Horizon \in Nat
  BY BoundsAssumption DEF Inv, TypeOK
<1>2. Known(a) \in StatefulAlert
  BY NewAlertTypes DEF Inv
<1>3. Known(a).rise \in 0..now
  <2>1. CASE Status(a) = "Nonexistent"
    BY <2>1, <1>1 DEF Known, NoAlert
  <2>2. CASE Status(a) = "MayRise"
    BY <2>2 DEF Known, Inv, RiseDelayKept
  <2> QED BY <2>1, <2>2
<1> DEFINE t == Known(a).rise + Delay(a, "rise")
<1>4. t \in 0..Horizon
  BY <1>1, <1>3, DelayBounds
<1>5. /\ WindowCorrectedVisibilityDate(a, t) \in Nat
      /\ WindowCorrectedVisibilityDate(a, t) >= t
  BY <1>4, CorrectedLater
<1>6. Rising(a) = [Known(a) EXCEPT !.status = "Rising",
                     !.visibility = WindowCorrectedVisibilityDate(a, t)]
  BY DEF Rising
<1> HIDE DEF t
<1>7. /\ Rising(a) \in StatefulAlert
      /\ Rising(a).status = "Rising"
      /\ Rising(a).rise = Known(a).rise
      /\ Rising(a).visibility = WindowCorrectedVisibilityDate(a, t)
  BY <1>2, <1>5, <1>6 DEF StatefulAlert, AlertStatus, Date
<1> QED BY <1>3, <1>5, <1>7 DEF t

-----------------------------------------------------------------------------
(* Requests on stateful alerts.                                            *)

Methods == {"raise", "raiseImmediately", "cancel", "cancelImmediately"}

\* What a request may make of an alert.
Keeps(method, a, s) ==
  /\ s \in StatefulAlert
  /\ s.status \in {"Rising", "MayRise"} =>
       s.rise \in 0..now /\ s.rise + Delay(a, "rise") <= s.visibility
  /\ s.status = "Dropping" =>
       method = "cancel" /\ lastRaise[a] + Delay(a, "drop") <= s.cancellation

\* A request that keeps the delays of its alert preserves the invariant.
LEMMA RequestPreservesInv ==
  ASSUME Inv, NEW a \in Alerts, NEW method \in Methods, NEW s,
         Keeps(method, a, s), Requested(method, a), Commit(a, s),
         raiseNotices' \in [Alerts -> Nat], cancelNotices' \in [Alerts -> Nat]
  PROVE  Inv'
<1>1. /\ now' = now /\ now \in Nat
      /\ statefulAlerts' = [statefulAlerts EXCEPT ![a] = s]
      /\ statefulAlerts \in [Alerts -> StatefulAlert]
      /\ lastRequest' = [lastRequest EXCEPT ![a] = method]
      /\ lastRaise' = [lastRaise EXCEPT ![a] = lastRaise'[a]]
      /\ lastRaise \in [Alerts -> Date]
      /\ lastRaise'[a] \in {lastRaise[a], now}
      /\ method = "cancel" => lastRaise'[a] = lastRaise[a]
  <2>1. /\ now' = now /\ now \in Nat
        /\ statefulAlerts' = [statefulAlerts EXCEPT ![a] = s]
        /\ statefulAlerts \in [Alerts -> StatefulAlert]
        /\ lastRequest' = [lastRequest EXCEPT ![a] = method]
        /\ lastRaise \in [Alerts -> Date]
    BY BoundsAssumption DEF Inv, TypeOK, Requested, Commit, StatefulAlert
  <2>2. CASE method = "cancel" \/ method = "cancelImmediately"
    <3>1. lastRaise' = lastRaise
      BY <2>2 DEF Requested
    <3> QED BY <2>1, <3>1
  <2>3. CASE method = "raise" \/ method = "raiseImmediately"
    <3>1. lastRaise' = [lastRaise EXCEPT ![a] = now]
      BY <2>3 DEF Requested
    <3> QED BY <2>1, <2>3, <3>1
  <2> QED BY <2>2, <2>3 DEF Methods
<1>2. s \in StatefulAlert /\ s.status \in AlertStatus
  BY DEF Keeps, StatefulAlert
<1>3. TypeOK'
  <2>1. statefulAlerts' \in [Alerts -> StatefulAlert]
    BY <1>1, <1>2
  <2>2. buffer' \in Seq(Alerts \X AlertStatus) /\ Len(buffer') <= BufferSize
    <3>1. buffer \in Seq(Alerts \X AlertStatus) /\ Len(buffer) <= BufferSize
      BY DEF Inv, TypeOK
    <3>2. <<a, s.status>> \in Alerts \X AlertStatus
      BY <1>2
    <3>3. CASE Len(buffer) < BufferSize /\ buffer' = Append(buffer, <<a, s.status>>)
      <4> DEFINE change == <<a, s.status>>
      <4> HIDE DEF change
      <4>1. Append(buffer, change) \in Seq(Alerts \X AlertStatus)
            /\ Len(Append(buffer, change)) = Len(buffer) + 1
        BY <3>1, <3>2 DEF change
      <4> QED BY <3>1, <3>3, <4>1, BoundsAssumption DEF change
    <3>4. CASE buffer' = buffer
      BY <3>1, <3>4
    <3> QED BY <3>3, <3>4 DEF Commit
  <2>3. unread' \subseteq Alerts
    BY DEF Inv, TypeOK, Commit
  <2>4. requests' \in 0..MaxRequests
    BY BoundsAssumption DEF Inv, TypeOK, Requested, Request
  <2>5. /\ lastRaise' \in [Alerts -> Date]
        /\ lastRequest' \in [Alerts -> {"none"} \cup Methods]
    <3>1. lastRequest \in [Alerts -> {"none"} \cup Methods] /\ now \in Date
      BY <1>1 DEF Inv, TypeOK, Methods, Date
    <3>2. lastRequest' \in [Alerts -> {"none"} \cup Methods]
      BY <1>1, <3>1
    <3>3. lastRaise'[a] \in Date
      BY <1>1, <3>1
    <3> QED BY <1>1, <3>2, <3>3
  <2> QED BY <2>1, <2>2, <2>3, <2>4, <2>5
          DEF Inv, TypeOK, Requested, oneshotVars, StatefulAlert, Methods
<1>4. RiseDelayKept'
  <2> SUFFICES ASSUME NEW b \in Alerts, Status(b)' \in {"Rising", "MayRise"}
               PROVE  /\ statefulAlerts'[b].rise \in 0..now'
                      /\ statefulAlerts'[b].rise + Delay(b, "rise")
                         <= statefulAlerts'[b].visibility
    BY DEF RiseDelayKept, Delay
  <2>1. CASE b = a
    BY <1>1, <2>1 DEF Keeps, Status
  <2>2. CASE b # a
    BY <1>1, <2>2 DEF Status, Inv, RiseDelayKept
  <2> QED BY <2>1, <2>2
<1>5. DropDelayKept'
  <2> SUFFICES ASSUME NEW b \in Alerts, Status(b)' = "Dropping"
               PROVE  /\ lastRequest'[b] = "cancel"
                      /\ lastRaise'[b] + Delay(b, "drop")
                         <= statefulAlerts'[b].cancellation
    BY DEF DropDelayKept, Delay
  <2>0. lastRequest \in [Alerts -> {"none"} \cup Methods]
    BY DEF Inv, TypeOK, Methods
  <2>1. CASE b = a
    BY <1>1, <2>0, <2>1 DEF Keeps, Status
  <2>2. CASE b # a
    BY <1>1, <2>0, <2>2 DEF Status, Inv, DropDelayKept
  <2> QED BY <2>1, <2>2
<1>6. RaisesArePast'
  BY <1>1 DEF Inv, RaisesArePast
<1> QED BY <1>3, <1>4, <1>5, <1>6 DEF Inv

\* An alert that is not rising nor dropping has no delay to keep.
LEMMA NoDelayToKeep ==
  ASSUME NEW method, NEW a, NEW s \in StatefulAlert,
         s.status \in {"Nonexistent", "Raised"}
  PROVE  Keeps(method, a, s)
BY DEF Keeps

\* An alert keeps its delays when a request leaves it alone.
LEMMA UnchangedKeeps ==
  ASSUME Inv, NEW a \in Alerts, NEW method \in Methods,
         Status(a) # "Dropping" \/ method = "cancel"
  PROVE  Keeps(method, a, statefulAlerts[a])
<1>1. statefulAlerts[a] \in StatefulAlert
  BY NewAlertTypes DEF Inv
<1> QED BY <1>1 DEF Keeps, Inv, RiseDelayKept, DropDelayKept, Status

\* Notices to the channels are counted.
LEMMA NotifyTypes ==
  ASSUME TypeOK, NEW a \in Alerts,
         NotifyRaised(a) \/ NotifyCanceled(a) \/ UNCHANGED noticeVars
  PROVE  raiseNotices' \in [Alerts -> Nat] /\ cancelNotices' \in [Alerts -> Nat]
<1>1. raiseNotices \in [Alerts -> Nat] /\ cancelNotices \in [Alerts -> Nat]
  BY DEF TypeOK
<1>2. CASE NotifyRaised(a)
  BY <1>1, <1>2 DEF NotifyRaised
<1>3. CASE NotifyCanceled(a)
  BY <1>1, <1>3 DEF NotifyCanceled
<1>4. CASE UNCHANGED noticeVars
  BY <1>1, <1>4 DEF noticeVars
<1> QED BY <1>2, <1>3, <1>4

\* A raised alert and one that is no longer canceled have no delay to keep.
LEMMA RaisedKeeps ==
  ASSUME Inv, NEW a \in Alerts, NEW method
  PROVE  /\ Keeps(method, a, Raised(statefulAlerts[a]))
         /\ Keeps(method, a, Raised(Known(a)))
         /\ Keeps(method, a, NoLongerCanceled(statefulAlerts[a]))
<1>1. /\ statefulAlerts[a] \in StatefulAlert
      /\ Known(a) \in StatefulAlert
      /\ Raised(statefulAlerts[a]) \in StatefulAlert
      /\ Raised(Known(a)) \in StatefulAlert
      /\ NoLongerCanceled(statefulAlerts[a]) \in StatefulAlert
  BY NewAlertTypes DEF Inv
<1>2. ASSUME NEW s \in StatefulAlert
      PROVE  Raised(s).status = "Raised" /\ NoLongerCanceled(s).status = "Raised"
  BY DEF Raised, NoLongerCanceled, StatefulAlert
<1> QED BY <1>1, <1>2, NoDelayToKeep

\* raiseAlert() preserves the invariant: a rising alert gets a late enough date.
LEMMA RaiseAlertInv ==
  ASSUME Inv, NEW a \in Alerts, RaiseAlert(a)
  PROVE  Inv'
<1>1. Requested("raise", a) /\ "raise" \in Methods
  BY DEF RaiseAlert, Methods
<1>2. raiseNotices' \in [Alerts -> Nat] /\ cancelNotices' \in [Alerts -> Nat]
  BY NotifyTypes DEF RaiseAlert, Inv
<1>3. CASE Status(a) \in {"Rising", "Raised"} /\ Commit(a, statefulAlerts[a])
  BY <1>1, <1>2, <1>3, UnchangedKeeps, RequestPreservesInv
<1>4. CASE Commit(a, Raised(statefulAlerts[a]))
  BY <1>1, <1>2, <1>4, RaisedKeeps, RequestPreservesInv
<1>5. CASE Status(a) \in {"Nonexistent", "MayRise"} /\ Commit(a, Rising(a))
  <2>1. Keeps("raise", a, Rising(a))
    BY <1>5, RisingLateEnough DEF Keeps
  <2> QED BY <1>1, <1>2, <1>5, <2>1, RequestPreservesInv
<1>6. CASE Commit(a, NoLongerCanceled(statefulAlerts[a]))
  BY <1>1, <1>2, <1>6, RaisedKeeps, RequestPreservesInv
<1> QED BY <1>3, <1>4, <1>5, <1>6 DEF RaiseAlert

\* raiseAlertImmediately() preserves the invariant: it leaves no delay to keep.
LEMMA RaiseAlertImmediatelyInv ==
  ASSUME Inv, NEW a \in Alerts, RaiseAlertImmediately(a)
  PROVE  Inv'
<1>1. Requested("raiseImmediately", a) /\ "raiseImmediately" \in Methods
  BY DEF RaiseAlertImmediately, Methods
<1>2. raiseNotices' \in [Alerts -> Nat] /\ cancelNotices' \in [Alerts -> Nat]
  BY NotifyTypes DEF RaiseAlertImmediately, Inv
<1>3. CASE Commit(a, Raised(Known(a)))
  BY <1>1, <1>2, <1>3, RaisedKeeps, RequestPreservesInv
<1>4. CASE Commit(a, NoLongerCanceled(statefulAlerts[a]))
  BY <1>1, <1>2, <1>4, RaisedKeeps, RequestPreservesInv
<1>5. CASE Status(a) = "Raised" /\ Commit(a, statefulAlerts[a])
  BY <1>1, <1>2, <1>5, UnchangedKeeps, RequestPreservesInv
<1> QED BY <1>3, <1>4, <1>5 DEF RaiseAlertImmediately

\* cancelAlert() preserves the invariant: dates are only postponed.
LEMMA CancelAlertInv ==
  ASSUME Inv, NEW a \in Alerts, CancelAlert(a)
  PROVE  Inv'
<1>1. Requested("cancel", a) /\ "cancel" \in Methods
  BY DEF CancelAlert, Methods
<1>2. raiseNotices' \in [Alerts -> Nat] /\ cancelNotices' \in [Alerts -> Nat]
  BY NotifyTypes DEF CancelAlert, Inv
<1>3. statefulAlerts[a] \in StatefulAlert /\ now \in Nat
  BY NewAlertTypes, BoundsAssumption DEF Inv, TypeOK
<1>4. CASE Status(a) = "Rising" /\ Commit(a, MayRise(a))
  <2>1. MayRise(a) \in StatefulAlert
    BY NewAlertTypes DEF Inv
  <2> DEFINE until == now + Delay(a, "mayrise")
             later == Latest(statefulAlerts[a].visibility, until)
  <2>2. /\ MayRise(a).status = "MayRise"
        /\ MayRise(a).rise = statefulAlerts[a].rise
        /\ MayRise(a).visibility = later
    BY <1>3 DEF MayRise, StatefulAlert
  <2>3. /\ statefulAlerts[a].rise \in 0..now
        /\ statefulAlerts[a].rise + Delay(a, "rise")
           <= statefulAlerts[a].visibility
    BY <1>4 DEF Inv, RiseDelayKept
  <2>4. statefulAlerts[a].visibility <= later
    <3>1. until \in Nat
      BY <1>3, DelayBounds
    <3>2. statefulAlerts[a].visibility \in Int
      BY <1>3 DEF StatefulAlert, Date, NoDate
    <3> HIDE DEF until
    <3> QED BY <3>1, <3>2 DEF Latest
  <2>5. later \in Int /\ Delay(a, "rise") \in Nat
    <3>1. until \in Nat /\ Delay(a, "rise") \in Nat
      BY <1>3, DelayBounds
    <3> HIDE DEF until
    <3> QED BY <1>3, <3>1 DEF Latest, StatefulAlert, Date, NoDate
  <2>6. statefulAlerts[a].visibility \in Int
    BY <1>3 DEF StatefulAlert, Date, NoDate
  <2>7. Keeps("cancel", a, MayRise(a))
    <3> HIDE DEF later
    <3>1. statefulAlerts[a].rise + Delay(a, "rise") <= later
      BY <1>3, <2>3, <2>4, <2>5, <2>6
    <3> QED BY <2>1, <2>2, <2>3, <3>1 DEF Keeps
  <2> QED BY <1>1, <1>2, <1>4, <2>7, RequestPreservesInv
<1>5. CASE Status(a) = "Raised" /\ Commit(a, Dropping(a))
  <2>1. Dropping(a) \in StatefulAlert
    BY NewAlertTypes DEF Inv
  <2>2. /\ Dropping(a).status = "Dropping"
        /\ Dropping(a).cancellation = now + Delay(a, "drop")
    BY <1>3 DEF Dropping, StatefulAlert
  <2>3. lastRaise[a] <= now /\ lastRaise[a] \in Int /\ Delay(a, "drop") \in Nat
    BY DelayBounds DEF Inv, RaisesArePast, TypeOK, Date, NoDate
  <2>4. lastRaise[a] + Delay(a, "drop") <= now + Delay(a, "drop")
    BY <1>3, <2>3
  <2>5. Keeps("cancel", a, Dropping(a))
    BY <2>1, <2>2, <2>4 DEF Keeps
  <2> QED BY <1>1, <1>2, <1>5, <2>5, RequestPreservesInv
<1>6. CASE Commit(a, statefulAlerts[a])
  BY <1>1, <1>2, <1>6, UnchangedKeeps, RequestPreservesInv
<1> QED BY <1>4, <1>5, <1>6 DEF CancelAlert

\* cancelAlertImmediately() preserves the invariant: it removes the alert.
LEMMA CancelAlertImmediatelyInv ==
  ASSUME Inv, NEW a \in Alerts, CancelAlertImmediately(a)
  PROVE  Inv'
<1>1. /\ Requested("cancelImmediately", a) /\ "cancelImmediately" \in Methods
      /\ Commit(a, NoAlert)
  BY DEF CancelAlertImmediately, Methods
<1>2. raiseNotices' \in [Alerts -> Nat] /\ cancelNotices' \in [Alerts -> Nat]
  BY NotifyTypes DEF CancelAlertImmediately, Inv
<1>3. Keeps("cancelImmediately", a, NoAlert)
  <2>1. NoAlert \in StatefulAlert
    BY NewAlertTypes DEF Inv
  <2>2. NoAlert.status = "Nonexistent"
    BY DEF NoAlert
  <2> QED BY <2>1, <2>2, NoDelayToKeep
<1> QED BY <1>1, <1>2, <1>3, RequestPreservesInv

-----------------------------------------------------------------------------
(* The other steps.                                                        *)

\* Delays are kept by a step that leaves stateful alerts alone.
LEMMA SameStatefulKeeps ==
  ASSUME Inv, UNCHANGED <<now, statefulAlerts, lastRequest, lastRaise>>, TypeOK'
  PROVE  Inv'
BY DEF Inv, RiseDelayKept, DropDelayKept, RaisesArePast, Status, Delay

OneshotAlert == [visibility: Date, count: Nat]

\* emitAlert() preserves the invariant: it leaves stateful alerts alone.
LEMMA EmitAlertInv ==
  ASSUME Inv, NEW a \in Alerts, EmitAlert(a)
  PROVE  Inv'
<1>1. /\ UNCHANGED <<now, statefulVars, gridVars>>
      /\ Request("emit", a)
      /\ emitted' = [emitted EXCEPT ![a] = @ + 1]
  BY DEF EmitAlert
<1>2. /\ oneshotAlerts \in [Alerts -> OneshotAlert]
      /\ emitNotices \in [Alerts -> Nat] /\ emitted \in [Alerts -> Nat]
      /\ now \in Nat /\ now <= MaxTime
  BY BoundsAssumption DEF Inv, TypeOK, OneshotAlert
<1>3. requests' \in 0..MaxRequests
  BY <1>1, BoundsAssumption DEF Inv, TypeOK, Request
<1>4. emitted' \in [Alerts -> Nat]
  BY <1>1, <1>2
<1>5. ASSUME NEW n \in Nat, Record(a, n)
      PROVE  oneshotAlerts' \in [Alerts -> OneshotAlert]
  <2> DEFINE until == now + Delay(a, "duplicateEmit")
  <2>1. until \in 0..Horizon
    BY <1>2, DelayBounds, BoundsAssumption
  <2>2. WindowCorrectedVisibilityDate(a, until) \in Nat
    BY <2>1, CorrectedLater
  <2> QED BY <1>2, <1>5, <2>2 DEF Record, OneshotAlert, Date
<1>6. /\ oneshotAlerts' \in [Alerts -> OneshotAlert]
      /\ emitNotices' \in [Alerts -> Nat]
  <2>1. oneshotAlerts[a].count \in Nat
    BY <1>2 DEF OneshotAlert
  <2>2. CASE NotifyEmitted(a, oneshotAlerts[a].count + 1) /\ Record(a, 0)
    BY <1>2, <1>5, <2>1, <2>2 DEF NotifyEmitted, Date
  <2>3. CASE Record(a, 1) /\ UNCHANGED emitNotices
    BY <1>2, <1>5, <2>3
  <2>4. CASE Aggregate(a) /\ UNCHANGED emitNotices
    BY <1>2, <2>1, <2>4 DEF Aggregate, OneshotAlert
  <2> QED BY <2>2, <2>3, <2>4 DEF EmitAlert
<1>7. TypeOK'
  BY <1>1, <1>3, <1>4, <1>6
     DEF Inv, TypeOK, OneshotAlert, statefulVars, noticeVars, gridVars
<1> QED BY <1>1, <1>7, SameStatefulKeeps DEF statefulVars

\* A request that is ignored preserves the invariant.
LEMMA IgnoreAlertInv ==
  ASSUME Inv, NEW a \in Alerts, NEW method, IgnoreAlert(method, a)
  PROVE  Inv'
<1>1. requests' \in 0..MaxRequests
  BY BoundsAssumption DEF Inv, TypeOK, IgnoreAlert, Request
<1>2. TypeOK'
  BY <1>1 DEF Inv, TypeOK, IgnoreAlert, statefulVars, noticeVars, oneshotVars,
              gridVars
<1> QED BY <1>2, SameStatefulKeeps DEF IgnoreAlert, statefulVars

\* The batch leaves an alert alone, raises it or removes it.
LEMMA SettledCases ==
  ASSUME NEW a \in Alerts
  PROVE  Settled(a) \in {statefulAlerts[a], Raised(statefulAlerts[a]), NoAlert}
BY DEF Settled

\* The batch preserves the invariant: it gives no alert a new delay.
LEMMA AsyncProcessingInv ==
  ASSUME Inv, AsyncProcessing
  PROVE  Inv'
<1>1. SettleStateful /\ SettleOneshots
      /\ UNCHANGED <<now, lastRequest, lastRaise, emitted, gridVars, requests>>
  BY DEF AsyncProcessing
<1>2. /\ raiseNotices' \in [Alerts -> Nat]
      /\ cancelNotices' \in [Alerts -> Nat]
  BY <1>1 DEF SettleStateful, Inv, TypeOK
<1>3. /\ statefulAlerts' \in [Alerts -> StatefulAlert]
      /\ \A a \in Alerts : statefulAlerts'[a] \in
           {statefulAlerts[a], Raised(statefulAlerts[a]), NoAlert}
  <2>1. PICK S : statefulAlerts' =
          [a \in Alerts |-> IF a \in S THEN Settled(a) ELSE statefulAlerts[a]]
    BY <1>1 DEF SettleStateful
  <2>2. ASSUME NEW a \in Alerts
        PROVE  /\ statefulAlerts'[a] \in
                    {statefulAlerts[a], Raised(statefulAlerts[a]), NoAlert}
               /\ statefulAlerts'[a] \in StatefulAlert
    <3>1. statefulAlerts'[a] \in
            {statefulAlerts[a], Raised(statefulAlerts[a]), NoAlert}
      BY <2>1, SettledCases
    <3> QED BY <3>1, NewAlertTypes DEF Inv
  <2> QED BY <2>1, <2>2
<1>4. /\ oneshotAlerts' \in [Alerts -> OneshotAlert]
      /\ emitNotices' \in [Alerts -> Nat]
  <2>1. /\ oneshotAlerts \in [Alerts -> OneshotAlert]
        /\ emitNotices \in [Alerts -> Nat]
        /\ now \in Date
        /\ NoOneshot \in OneshotAlert
    BY BoundsAssumption DEF Inv, TypeOK, OneshotAlert, NoOneshot, Date, NoDate
  <2>2. PICK S :
          /\ oneshotAlerts' = [a \in Alerts |->
               IF a \in S THEN NoOneshot ELSE oneshotAlerts[a]]
          /\ emitNotices' = [a \in Alerts |-> emitNotices[a] +
               IF a \in S THEN oneshotAlerts[a].count ELSE 0]
    BY <1>1 DEF SettleOneshots
  <2>3. \A a \in Alerts : oneshotAlerts[a].count \in Nat
    BY <2>1 DEF OneshotAlert
  <2>4. oneshotAlerts' \in [Alerts -> OneshotAlert]
    BY <2>1, <2>2
  <2>5. emitNotices' \in [Alerts -> Nat]
    BY <2>1, <2>2, <2>3
  <2> QED BY <2>4, <2>5
<1>5. TypeOK'
  BY <1>1, <1>2, <1>3, <1>4
     DEF Inv, TypeOK, StatefulAlert, OneshotAlert, gridVars
<1>6. \A a \in Alerts :
        Status(a)' \in {"Rising", "MayRise", "Dropping"} =>
          statefulAlerts'[a] = statefulAlerts[a]
  <2> SUFFICES ASSUME NEW a \in Alerts
               PROVE  Status(a)' \in {"Rising", "MayRise", "Dropping"} =>
                        statefulAlerts'[a] = statefulAlerts[a]
    OBVIOUS
  <2>1. statefulAlerts[a] \in StatefulAlert
    BY NewAlertTypes DEF Inv
  <2>2. Raised(statefulAlerts[a]).status = "Raised"
        /\ NoAlert.status = "Nonexistent"
    BY <2>1 DEF Raised, StatefulAlert, NoAlert
  <2> QED BY <1>3, <2>2 DEF Status
<1>7. RiseDelayKept' /\ DropDelayKept' /\ RaisesArePast'
  BY <1>1, <1>6 DEF Inv, RiseDelayKept, DropDelayKept, RaisesArePast, Status, Delay
<1> QED BY <1>5, <1>7 DEF Inv

\* The gridboard thread preserves the invariant.
LEMMA UpdateGridboardsInv ==
  ASSUME Inv, UpdateGridboards
  PROVE  Inv'
<1>1. buffer' \in Seq(Alerts \X AlertStatus) /\ Len(buffer') <= BufferSize
  BY BoundsAssumption DEF UpdateGridboards, Inv, TypeOK
<1>2. boards' \in [Alerts -> {"Unknown", "Ok", "Raised"}]
  BY DEF UpdateGridboards, Inv, TypeOK
<1>3. TypeOK'
  BY <1>1, <1>2 DEF UpdateGridboards, Inv, TypeOK, statefulVars, noticeVars,
                    oneshotVars
<1> QED BY <1>3, SameStatefulKeeps DEF UpdateGridboards, statefulVars

\* Time preserves the invariant: what is past stays past.
LEMMA TickInv ==
  ASSUME Inv, Tick
  PROVE  Inv'
<1>1. /\ now \in Nat /\ now' = now + 1 /\ now' \in 0..MaxTime
      /\ UNCHANGED <<statefulVars, oneshotVars, gridVars, requests>>
  BY BoundsAssumption DEF Tick, Inv, TypeOK
<1>2. TypeOK'
  BY <1>1 DEF Inv, TypeOK, statefulVars, noticeVars, oneshotVars, gridVars
<1>3. RiseDelayKept' /\ DropDelayKept'
  BY <1>1 DEF Inv, RiseDelayKept, DropDelayKept, Status, Delay, statefulVars
<1>4. RaisesArePast'
  <2>1. lastRaise' = lastRaise /\ lastRaise \in [Alerts -> Nat \cup {-1}]
    BY <1>1 DEF Inv, TypeOK, statefulVars, Date, NoDate
  <2>2. \A a \in Alerts : lastRaise[a] <= now
    BY DEF Inv, RaisesArePast
  <2>3. ASSUME NEW a \in Alerts PROVE lastRaise[a] <= now + 1
    BY <1>1, <2>1, <2>2
  <2> QED BY <1>1, <2>1, <2>3 DEF RaisesArePast
<1> QED BY <1>2, <1>3, <1>4 DEF Inv

-----------------------------------------------------------------------------
(* The invariant.                                                          *)

\* The invariant holds when the alerter starts.
LEMMA InitInv == Init => Inv
<1> SUFFICES ASSUME Init PROVE Inv
  OBVIOUS
<1>1. TypeOK
  BY BoundsAssumption
     DEF Init, TypeOK, NoAlert, NoOneshot, NoDate, Date, AlertStatus
<1>2. RiseDelayKept /\ DropDelayKept
  BY DEF Init, RiseDelayKept, DropDelayKept, Status, NoAlert
<1>3. RaisesArePast
  BY DEF Init, RaisesArePast, NoDate
<1> QED BY <1>1, <1>2, <1>3 DEF Inv

\* Every step of the alerter preserves the invariant.
LEMMA StepInv == Inv /\ [Next]_vars => Inv'
<1> SUFFICES ASSUME Inv, [Next]_vars PROVE Inv'
  OBVIOUS
<1>1. ASSUME NEW a \in Alerts, HandleRequest(a)
      PROVE  Inv'
  BY <1>1, RaiseAlertInv, RaiseAlertImmediatelyInv, CancelAlertInv,
     CancelAlertImmediatelyInv, EmitAlertInv, IgnoreAlertInv DEF HandleRequest
<1>2. CASE UNCHANGED vars
  <2>1. TypeOK'
    BY <1>2 DEF Inv, TypeOK, vars, statefulVars, noticeVars, oneshotVars, gridVars
  <2> QED BY <1>2, <2>1, SameStatefulKeeps DEF vars, statefulVars
<1> QED BY <1>1, <1>2, AsyncProcessingInv, UpdateGridboardsInv, TickInv DEF Next

\* The invariant holds in every state the alerter reaches.
LEMMA Invariance == Spec => []Inv
<1>1. Init => Inv
  BY InitInv
<1>2. Inv /\ [Next]_vars => Inv'
  BY StepInv
<1> QED BY <1>1, <1>2, PTL DEF Spec

\* Every variable of the alerter keeps its type, whatever the alerts, the
\* delays, the windows and the size of the buffer.
THEOREM AlerterTypeCorrect == Spec => []TypeOK
<1>1. Inv => TypeOK
  BY DEF Inv
<1> QED BY <1>1, Invariance, PTL

-----------------------------------------------------------------------------
(* What channels see.                                                      *)

channelVars == <<SeenRaised, noticeVars>>

\* A request changes what channels see of its alert only, and tells them so.
LEMMA CommitIsSeen ==
  ASSUME TypeOK, NEW a \in Alerts, NEW s, Commit(a, s),
         \/ /\ UNCHANGED noticeVars
            /\ s.status \in {"Raised", "Dropping"} <=> a \in SeenRaised
         \/ /\ NotifyRaised(a)
            /\ a \notin SeenRaised /\ s.status \in {"Raised", "Dropping"}
         \/ /\ NotifyCanceled(a)
            /\ a \in SeenRaised /\ s.status \notin {"Raised", "Dropping"}
  PROVE  [ChannelView!Next]_channelVars
<1>1. /\ statefulAlerts' = [statefulAlerts EXCEPT ![a] = s]
      /\ DOMAIN statefulAlerts = Alerts
      /\ raiseNotices \in [Alerts -> Nat] /\ cancelNotices \in [Alerts -> Nat]
  BY DEF TypeOK, Commit
<1>2. \A b \in Alerts \ {a} : Status(b)' = Status(b)
  BY <1>1 DEF Status
<1>3. Status(a)' = s.status
  BY <1>1 DEF Status
<1>4. CASE /\ UNCHANGED noticeVars
           /\ s.status \in {"Raised", "Dropping"} <=> a \in SeenRaised
  <2>1. SeenRaised' = SeenRaised
    BY <1>2, <1>3, <1>4 DEF SeenRaised
  <2> QED BY <1>4, <2>1 DEF channelVars
<1>5. CASE NotifyRaised(a) /\ a \notin SeenRaised
           /\ s.status \in {"Raised", "Dropping"}
  <2>1. SeenRaised' = (SeenRaised \cup {a}) \ {}
    BY <1>2, <1>3, <1>5 DEF SeenRaised
  <2>2. ChannelView!Notify({a}, {})
    BY <1>1, <1>5, <2>1 DEF ChannelView!Notify, ChannelView!CountNotices, NotifyRaised
  <2> QED BY <2>2 DEF ChannelView!Next
<1>6. CASE NotifyCanceled(a) /\ a \in SeenRaised
           /\ s.status \notin {"Raised", "Dropping"}
  <2>1. SeenRaised' = (SeenRaised \cup {}) \ {a}
    BY <1>2, <1>3, <1>6 DEF SeenRaised
  <2>2. ChannelView!Notify({}, {a})
    BY <1>1, <1>6, <2>1 DEF ChannelView!Notify, ChannelView!CountNotices, NotifyCanceled
  <2> QED BY <2>2 DEF ChannelView!Next
<1> QED BY <1>4, <1>5, <1>6

\* The status of what each request records.
LEMMA NewStatus ==
  ASSUME Inv, NEW a \in Alerts
  PROVE  /\ Raised(statefulAlerts[a]).status = "Raised"
         /\ Raised(Known(a)).status = "Raised"
         /\ NoLongerCanceled(statefulAlerts[a]).status = "Raised"
         /\ Rising(a).status = "Rising"
         /\ MayRise(a).status = "MayRise"
         /\ Dropping(a).status = "Dropping"
         /\ NoAlert.status = "Nonexistent"
         /\ a \in SeenRaised <=> Status(a) \in {"Raised", "Dropping"}
         /\ Status(a) = statefulAlerts[a].status
<1>1. statefulAlerts[a] \in StatefulAlert /\ Known(a) \in StatefulAlert
  BY NewAlertTypes DEF Inv
<1> QED BY <1>1 DEF Raised, NoLongerCanceled, Rising, MayRise, Dropping, NoAlert,
                    StatefulAlert, SeenRaised, Status

\* A request is a step of what channels see, or leaves it alone.
LEMMA RequestIsSeen ==
  ASSUME Inv, NEW a \in Alerts,
         \/ RaiseAlert(a) \/ RaiseAlertImmediately(a)
         \/ CancelAlert(a) \/ CancelAlertImmediately(a)
  PROVE  [ChannelView!Next]_channelVars
<1>0. TypeOK
  BY DEF Inv
<1>1. CASE RaiseAlert(a)
  BY <1>0, <1>1, CommitIsSeen, NewStatus DEF RaiseAlert
<1>2. CASE RaiseAlertImmediately(a)
  BY <1>0, <1>2, CommitIsSeen, NewStatus DEF RaiseAlertImmediately
<1>3. CASE CancelAlert(a)
  BY <1>0, <1>3, CommitIsSeen, NewStatus DEF CancelAlert
<1>4. CASE CancelAlertImmediately(a)
  BY <1>0, <1>4, CommitIsSeen, NewStatus DEF CancelAlertImmediately
<1> QED BY <1>1, <1>2, <1>3, <1>4

\* A batch tells channels of all the alerts it raises and cancels.
LEMMA BatchIsSeen ==
  ASSUME Inv, AsyncProcessing
  PROVE  [ChannelView!Next]_channelVars
<1>1. PICK skipped \in SUBSET Alerts :
        LET visited == {a \in Alerts : Status(a) # "Nonexistent"} \ skipped
            removed == {a \in visited : Settled(a) = NoAlert}
            risen == {a \in visited : Status(a) # "Raised"
                                      /\ Settled(a).status = "Raised"}
            dropped == {a \in removed : Status(a) = "Dropping"}
        IN  /\ statefulAlerts' =
                 [a \in Alerts |-> IF a \in visited THEN Settled(a)
                                   ELSE statefulAlerts[a]]
            /\ raiseNotices' = [a \in Alerts |->
                 raiseNotices[a] + IF a \in risen THEN 1 ELSE 0]
            /\ cancelNotices' = [a \in Alerts |->
                 cancelNotices[a] + IF a \in dropped THEN 1 ELSE 0]
  BY DEF AsyncProcessing, SettleStateful
<1> DEFINE visited == {a \in Alerts : Status(a) # "Nonexistent"} \ skipped
           removed == {a \in visited : Settled(a) = NoAlert}
           risen == {a \in visited : Status(a) # "Raised"
                                     /\ Settled(a).status = "Raised"}
           dropped == {a \in removed : Status(a) = "Dropping"}
<1>2. raiseNotices \in [Alerts -> Nat] /\ cancelNotices \in [Alerts -> Nat]
  BY DEF Inv, TypeOK
<1>3. \A a \in Alerts : Status(a)' =
        IF a \in visited THEN Settled(a).status ELSE Status(a)
  BY <1>1 DEF Status
<1>4. ASSUME NEW a \in Alerts
      PROVE  /\ Status(a) = "Raised" => Settled(a) = statefulAlerts[a]
             /\ Status(a) = "Dropping" =>
                  Settled(a) \in {statefulAlerts[a], NoAlert}
             /\ Status(a) \in {"Rising", "MayRise"} =>
                  Settled(a).status \notin {"Dropping"}
             /\ Settled(a) = NoAlert => Settled(a).status = "Nonexistent"
             /\ NoAlert # statefulAlerts[a] \/ Status(a) = "Nonexistent"
             /\ Status(a) \in AlertStatus
  <2>1. statefulAlerts[a] \in StatefulAlert
    BY NewAlertTypes DEF Inv
  <2> QED BY <2>1, NewStatus, SettledCases
          DEF Settled, Status, NoAlert, StatefulAlert
<1>5. risen \cap SeenRaised = {}
  BY <1>4, NewStatus DEF SeenRaised, Status
<1>6. dropped \subseteq SeenRaised
  BY DEF SeenRaised
<1>7. SeenRaised' = (SeenRaised \cup risen) \ dropped
  <2>1. ASSUME NEW a \in Alerts
        PROVE  Status(a)' \in {"Raised", "Dropping"}
               <=> a \in (SeenRaised \cup risen) \ dropped
    <3>1. CASE a \notin visited
      BY <1>3, <3>1 DEF SeenRaised
    <3>2. CASE a \in visited /\ Status(a) = "Raised"
      BY <1>3, <1>4, <3>2 DEF SeenRaised, Status
    <3>3. CASE a \in visited /\ Status(a) = "Dropping"
      BY <1>3, <1>4, <3>3 DEF SeenRaised, Status
    <3>4. CASE a \in visited /\ Status(a) \in {"Rising", "MayRise"}
      BY <1>3, <1>4, <3>4 DEF SeenRaised
    <3> QED BY <1>4, <3>1, <3>2, <3>3, <3>4 DEF AlertStatus
  <2> QED BY <2>1 DEF SeenRaised
<1>8. /\ raiseNotices' = ChannelView!CountNotices(raiseNotices, risen)
      /\ cancelNotices' = ChannelView!CountNotices(cancelNotices, dropped)
  <2>1. ASSUME NEW a \in Alerts
        PROVE  /\ raiseNotices'[a] =
                    IF a \in risen THEN raiseNotices[a] + 1 ELSE raiseNotices[a]
               /\ cancelNotices'[a] =
                    IF a \in dropped THEN cancelNotices[a] + 1
                                     ELSE cancelNotices[a]
    BY <1>1, <1>2
  <2> QED BY <1>1, <2>1 DEF ChannelView!CountNotices
<1>9. ChannelView!Notify(risen, dropped)
  BY <1>5, <1>6, <1>7, <1>8 DEF ChannelView!Notify
<1>10. risen \in SUBSET Alerts /\ dropped \in SUBSET Alerts
  OBVIOUS
<1> QED BY <1>9, <1>10 DEF ChannelView!Next

\* Every step of the alerter is a step of what channels see, or leaves it alone.
LEMMA StepIsSeen ==
  ASSUME Inv, [Next]_vars
  PROVE  [ChannelView!Next]_channelVars
<1>1. CASE UNCHANGED statefulVars
  BY <1>1 DEF channelVars, statefulVars, SeenRaised, Status
<1>2. ASSUME NEW a \in Alerts, HandleRequest(a)
      PROVE  [ChannelView!Next]_channelVars
  BY <1>1, <1>2, RequestIsSeen DEF HandleRequest, EmitAlert, IgnoreAlert
<1>3. UpdateGridboards \/ Tick \/ UNCHANGED vars => UNCHANGED statefulVars
  BY DEF UpdateGridboards, Tick, vars
<1> QED BY <1>1, <1>2, <1>3, BatchIsSeen DEF Next

\* Channels see every alert raised and canceled in turn, whatever the requests,
\* the delays and the windows: the alerter implements AlertChannelView.
THEOREM ChannelViewImplemented == Spec => ImplementsChannelView
<1>1. Init => ChannelView!Init
  BY DEF Init, ChannelView!Init, SeenRaised, Status, NoAlert
<1>2. Inv /\ [Next]_vars => [ChannelView!Next]_(ChannelView!vars)
  BY StepIsSeen DEF ChannelView!vars, channelVars, noticeVars
<1> QED BY <1>1, <1>2, Invariance, PTL DEF Spec, ImplementsChannelView, ChannelView!Spec

-----------------------------------------------------------------------------
(* What follows from what channels see.                                    *)

\* A notice of rise is only sent of an alert that channels see as not raised,
\* and one of cancelation of an alert they see as raised.
LEMMA NotifyKeepsBalance ==
  ASSUME TypeOK, NoticesBalance, [ChannelView!Next]_channelVars
  PROVE  NoticesBalance'
<1>1. CASE UNCHANGED channelVars
  BY <1>1 DEF channelVars, noticeVars, NoticesBalance
<1>2. CASE ChannelView!Next
  <2>1. PICK R \in SUBSET Alerts, C \in SUBSET Alerts : ChannelView!Notify(R, C)
    BY <1>2 DEF ChannelView!Next
  <2> SUFFICES ASSUME NEW a \in Alerts
               PROVE  raiseNotices'[a] =
                        cancelNotices'[a] + IF a \in SeenRaised' THEN 1 ELSE 0
    BY DEF NoticesBalance
  <2>2. /\ a \in R => a \notin SeenRaised
        /\ a \in C => a \in SeenRaised
        /\ a \in SeenRaised' <=> (a \in SeenRaised \/ a \in R) /\ a \notin C
        /\ raiseNotices'[a] =
             IF a \in R THEN raiseNotices[a] + 1 ELSE raiseNotices[a]
        /\ cancelNotices'[a] =
             IF a \in C THEN cancelNotices[a] + 1 ELSE cancelNotices[a]
    BY <2>1 DEF ChannelView!Notify, ChannelView!CountNotices
  <2>3. /\ raiseNotices[a] \in Nat /\ cancelNotices[a] \in Nat
        /\ raiseNotices[a] = cancelNotices[a] + IF a \in SeenRaised THEN 1 ELSE 0
    BY DEF TypeOK, NoticesBalance
  <2> QED BY <2>2, <2>3
<1> QED BY <1>1, <1>2

\* The channels were notified of the rise of each alert once more than of its
\* cancelation while it is raised, and as often otherwise.
THEOREM NoticesAreBalanced == Spec => []NoticesBalance
<1>1. Init => NoticesBalance
  BY DEF Init, NoticesBalance, SeenRaised, Status, NoAlert
<1>2. Inv /\ NoticesBalance /\ [Next]_vars => NoticesBalance'
  BY StepIsSeen, NotifyKeepsBalance DEF Inv
<1> QED BY <1>1, <1>2, Invariance, PTL DEF Spec

-----------------------------------------------------------------------------
(* The delays.                                                             *)

\* Only these steps notify of the rise of an alert.
LEMMA RaiseNotices ==
  ASSUME Inv, [Next]_vars, NEW a \in Alerts, raiseNotices'[a] # raiseNotices[a]
  PROVE  \/ RaiseAlertImmediately(a)
         \/ /\ Status(a) \in {"Rising", "MayRise"}
            /\ statefulAlerts[a].visibility <= now
<1>0. raiseNotices \in [Alerts -> Nat]
  BY DEF Inv, TypeOK
<1>1. ASSUME NEW b \in Alerts, NotifyRaised(b)
      PROVE  b = a
  BY <1>0, <1>1 DEF NotifyRaised
<1>2. CASE AsyncProcessing
  <2>1. /\ Status(a) \notin {"Nonexistent", "Raised"}
        /\ Settled(a).status = "Raised"
    BY <1>0, <1>2 DEF AsyncProcessing, SettleStateful
  <2>2. statefulAlerts[a] \in StatefulAlert
    BY NewAlertTypes DEF Inv
  <2> QED BY <2>1, <2>2, NewStatus DEF Settled, Status, StatefulAlert, AlertStatus
<1>3. ASSUME NEW b \in Alerts, HandleRequest(b)
      PROVE  \/ RaiseAlertImmediately(a)
             \/ /\ Status(a) \in {"Rising", "MayRise"}
                /\ statefulAlerts[a].visibility <= now
  <2>1. CASE RaiseAlert(b)
    BY <1>1, <2>1 DEF RaiseAlert, noticeVars
  <2>2. CASE RaiseAlertImmediately(b)
    BY <1>1, <2>2 DEF RaiseAlertImmediately, noticeVars
  <2>3. ~CancelAlert(b) /\ ~CancelAlertImmediately(b)
    BY DEF CancelAlert, CancelAlertImmediately, NotifyCanceled, noticeVars
  <2>4. ~EmitAlert(b) /\ (\A method : ~IgnoreAlert(method, b))
    BY DEF EmitAlert, IgnoreAlert, statefulVars, noticeVars
  <2> QED BY <1>3, <2>1, <2>2, <2>3, <2>4 DEF HandleRequest
<1>4. ~UpdateGridboards /\ ~Tick /\ ~UNCHANGED vars
  BY DEF UpdateGridboards, Tick, vars, statefulVars, noticeVars
<1> QED BY <1>2, <1>3, <1>4 DEF Next

\* Unless an alert is raised immediately, channels are told that it is raised
\* no earlier than its rise delay after it first rose.
THEOREM RaisedInTime == Spec => NeverRaisedEarly
<1> DEFINE InTime ==
      \A a \in Alerts :
        raiseNotices'[a] # raiseNotices[a]
          /\ lastRequest'[a] # "raiseImmediately"
        => statefulAlerts[a].rise + Delay(a, "rise") <= now
<1>1. Inv /\ [Next]_vars => InTime
  <2> SUFFICES ASSUME Inv, [Next]_vars, NEW a \in Alerts,
                      raiseNotices'[a] # raiseNotices[a],
                      lastRequest'[a] # "raiseImmediately"
               PROVE  statefulAlerts[a].rise + Delay(a, "rise") <= now
    OBVIOUS
  <2>1. ~RaiseAlertImmediately(a)
    BY DEF RaiseAlertImmediately, Requested, Inv, TypeOK
  <2>2. /\ Status(a) \in {"Rising", "MayRise"}
        /\ statefulAlerts[a].visibility <= now
    BY <2>1, RaiseNotices
  <2>3. /\ statefulAlerts[a].rise \in 0..now
        /\ statefulAlerts[a].rise + Delay(a, "rise")
           <= statefulAlerts[a].visibility
    BY <2>2 DEF Inv, RiseDelayKept
  <2>4. /\ statefulAlerts[a] \in StatefulAlert
        /\ now \in Nat
        /\ Delay(a, "rise") \in Nat
    <3>1. statefulAlerts[a] \in StatefulAlert
      BY NewAlertTypes DEF Inv
    <3>2. now \in Nat
      BY BoundsAssumption DEF Inv, TypeOK
    <3> QED BY <3>1, <3>2, DelayBounds
  <2>5. statefulAlerts[a].visibility \in Int
    BY <2>4 DEF StatefulAlert, Date, NoDate
  <2> QED BY <2>2, <2>3, <2>4, <2>5
<1> QED BY <1>1, Invariance, PTL DEF Spec, NeverRaisedEarly

\* Only these steps notify of the cancelation of an alert.
LEMMA CancelNotices ==
  ASSUME Inv, [Next]_vars, NEW a \in Alerts, cancelNotices'[a] # cancelNotices[a]
  PROVE  \/ CancelAlertImmediately(a)
         \/ /\ Status(a) = "Dropping"
            /\ statefulAlerts[a].cancellation <= now
<1>0. cancelNotices \in [Alerts -> Nat]
  BY DEF Inv, TypeOK
<1>1. CASE AsyncProcessing
  <2>1. Status(a) = "Dropping" /\ Settled(a) = NoAlert
    BY <1>0, <1>1 DEF AsyncProcessing, SettleStateful
  <2> QED BY <2>1, NewStatus DEF Settled, Status
<1>2. ASSUME NEW b \in Alerts, HandleRequest(b)
      PROVE  CancelAlertImmediately(a)
  <2>1. CASE CancelAlertImmediately(b)
    <3>1. NotifyCanceled(b)
      BY <2>1 DEF CancelAlertImmediately, noticeVars
    <3>2. a = b
      BY <1>0, <3>1 DEF NotifyCanceled
    <3> QED BY <2>1, <3>2
  <2>2. ~RaiseAlert(b) /\ ~RaiseAlertImmediately(b)
    BY DEF RaiseAlert, RaiseAlertImmediately, NotifyRaised, noticeVars
  <2>3. ~CancelAlert(b)
    BY DEF CancelAlert, noticeVars
  <2>4. ~EmitAlert(b) /\ (\A method : ~IgnoreAlert(method, b))
    BY DEF EmitAlert, IgnoreAlert, statefulVars, noticeVars
  <2> QED BY <1>2, <2>1, <2>2, <2>3, <2>4 DEF HandleRequest
<1>3. ~UpdateGridboards /\ ~Tick /\ ~UNCHANGED vars
  BY DEF UpdateGridboards, Tick, vars, statefulVars, noticeVars
<1> QED BY <1>1, <1>2, <1>3 DEF Next

\* Unless an alert is canceled immediately, channels are told that it is
\* canceled no earlier than its drop delay after the last request to raise it.
THEOREM DroppedInTime == Spec => NeverDroppedEarly
<1> DEFINE InTime ==
      \A a \in Alerts :
        cancelNotices'[a] # cancelNotices[a]
          /\ lastRequest'[a] # "cancelImmediately"
        => /\ lastRequest[a] = "cancel"
           /\ lastRaise[a] + Delay(a, "drop") <= now
<1>1. Inv /\ [Next]_vars => InTime
  <2> SUFFICES ASSUME Inv, [Next]_vars, NEW a \in Alerts,
                      cancelNotices'[a] # cancelNotices[a],
                      lastRequest'[a] # "cancelImmediately"
               PROVE  /\ lastRequest[a] = "cancel"
                      /\ lastRaise[a] + Delay(a, "drop") <= now
    OBVIOUS
  <2>1. ~CancelAlertImmediately(a)
    BY DEF CancelAlertImmediately, Requested, Inv, TypeOK
  <2>2. Status(a) = "Dropping" /\ statefulAlerts[a].cancellation <= now
    BY <2>1, CancelNotices
  <2>3. /\ lastRequest[a] = "cancel"
        /\ lastRaise[a] + Delay(a, "drop") <= statefulAlerts[a].cancellation
    BY <2>2 DEF Inv, DropDelayKept
  <2>4. /\ statefulAlerts[a] \in StatefulAlert
        /\ now \in Nat
        /\ Delay(a, "drop") \in Nat
        /\ lastRaise[a] \in Int
    <3>1. statefulAlerts[a] \in StatefulAlert
      BY NewAlertTypes DEF Inv
    <3>2. now \in Nat /\ lastRaise[a] \in Int
      BY BoundsAssumption DEF Inv, TypeOK, Date, NoDate
    <3> QED BY <3>1, <3>2, DelayBounds
  <2>5. statefulAlerts[a].cancellation \in Int
    BY <2>4 DEF StatefulAlert, Date, NoDate
  <2> QED BY <2>2, <2>3, <2>4, <2>5
<1> QED BY <1>1, Invariance, PTL DEF Spec, NeverDroppedEarly

-----------------------------------------------------------------------------
(* One-shot alerts.                                                        *)

\* No step loses or repeats an emission: what was requested is what was
\* notified, and what the record still counts.
THEOREM NoEmissionLost == Spec => []EmissionsAccounted
<1>1. Init => EmissionsAccounted
  BY DEF Init, EmissionsAccounted, NoOneshot
<1>2. Inv /\ EmissionsAccounted /\ [Next]_vars => EmissionsAccounted'
  <2> SUFFICES ASSUME Inv, EmissionsAccounted, [Next]_vars
               PROVE  EmissionsAccounted'
    OBVIOUS
  <2>0. /\ oneshotAlerts \in [Alerts -> OneshotAlert]
        /\ emitNotices \in [Alerts -> Nat] /\ emitted \in [Alerts -> Nat]
        /\ \A a \in Alerts : oneshotAlerts[a].count \in Nat
    BY DEF Inv, TypeOK, OneshotAlert
  <2>1. CASE UNCHANGED oneshotVars
    BY <2>1 DEF EmissionsAccounted, oneshotVars
  <2>2. CASE AsyncProcessing
    <3>1. PICK S :
            /\ oneshotAlerts' = [a \in Alerts |->
                 IF a \in S THEN NoOneshot ELSE oneshotAlerts[a]]
            /\ emitNotices' = [a \in Alerts |-> emitNotices[a] +
                 IF a \in S THEN oneshotAlerts[a].count ELSE 0]
      BY <2>2 DEF AsyncProcessing, SettleOneshots
    <3>2. emitted' = emitted
      BY <2>2 DEF AsyncProcessing
    <3> QED BY <2>0, <3>1, <3>2 DEF EmissionsAccounted, NoOneshot
  <2>3. ASSUME NEW a \in Alerts, EmitAlert(a)
        PROVE  EmissionsAccounted'
    <3>1. emitted' = [emitted EXCEPT ![a] = @ + 1]
      BY <2>3 DEF EmitAlert
    <3> DEFINE count == oneshotAlerts[a].count
    <3>2. \E n, m \in Nat :
            /\ n + m = count + 1
            /\ emitNotices' = [emitNotices EXCEPT ![a] = @ + n]
            /\ oneshotAlerts' = [oneshotAlerts EXCEPT ![a] = oneshotAlerts'[a]]
            /\ oneshotAlerts'[a].count = m
      <4>1. ASSUME NEW n \in Nat, Record(a, n)
            PROVE  /\ oneshotAlerts' = [oneshotAlerts EXCEPT ![a] = oneshotAlerts'[a]]
                   /\ oneshotAlerts'[a].count = n
        BY <2>0, <4>1 DEF Record
      <4>2. emitNotices = [emitNotices EXCEPT ![a] = @ + 0]
        BY <2>0
      <4>3. CASE NotifyEmitted(a, count + 1) /\ Record(a, 0)
        <5>1. emitNotices' = [emitNotices EXCEPT ![a] = @ + (count + 1)]
          BY <4>3 DEF NotifyEmitted
        <5>2. count + 1 \in Nat /\ 0 \in Nat /\ (count + 1) + 0 = count + 1
          BY <2>0
        <5>3. /\ oneshotAlerts' = [oneshotAlerts EXCEPT ![a] = oneshotAlerts'[a]]
              /\ oneshotAlerts'[a].count = 0
          BY <4>1, <4>3
        <5> HIDE DEF count
        <5> QED BY <5>1, <5>2, <5>3
      <4>4. CASE oneshotAlerts[a] = NoOneshot /\ Record(a, 1)
                 /\ UNCHANGED emitNotices
        <5>1. count = 0
          BY <4>4 DEF NoOneshot
        <5> QED BY <4>1, <4>2, <4>4, <5>1
      <4>5. CASE Aggregate(a) /\ UNCHANGED emitNotices
        <5>1. /\ oneshotAlerts' = [oneshotAlerts EXCEPT ![a] = oneshotAlerts'[a]]
              /\ oneshotAlerts'[a].count = count + 1
          BY <2>0, <4>5 DEF Aggregate, OneshotAlert
        <5>2. 0 \in Nat /\ count + 1 \in Nat /\ 0 + (count + 1) = count + 1
          BY <2>0
        <5> HIDE DEF count
        <5> QED BY <4>2, <4>5, <5>1, <5>2
      <4> QED BY <2>3, <4>3, <4>4, <4>5 DEF EmitAlert
    <3>3. PICK n \in Nat, m \in Nat :
            /\ n + m = count + 1
            /\ emitNotices' = [emitNotices EXCEPT ![a] = @ + n]
            /\ oneshotAlerts' = [oneshotAlerts EXCEPT ![a] = oneshotAlerts'[a]]
            /\ oneshotAlerts'[a].count = m
      BY <3>2
    <3>4. emitted[a] = emitNotices[a] + count
      BY DEF EmissionsAccounted
    <3>5. emitted'[a] = emitNotices'[a] + oneshotAlerts'[a].count
      BY <2>0, <3>1, <3>3, <3>4
    <3>6. ASSUME NEW b \in Alerts, b # a
          PROVE  emitted'[b] = emitNotices'[b] + oneshotAlerts'[b].count
      <4>1. /\ emitted'[b] = emitted[b]
            /\ emitNotices'[b] = emitNotices[b]
            /\ oneshotAlerts'[b] = oneshotAlerts[b]
        BY <2>0, <3>1, <3>3, <3>6
      <4> QED BY <4>1 DEF EmissionsAccounted
    <3> QED BY <3>5, <3>6 DEF EmissionsAccounted
  <2>4. ASSUME NEW a \in Alerts, HandleRequest(a), ~EmitAlert(a)
        PROVE  UNCHANGED oneshotVars
    BY <2>4 DEF HandleRequest, RaiseAlert, RaiseAlertImmediately, CancelAlert,
       CancelAlertImmediately, IgnoreAlert, Requested, oneshotVars
  <2>5. UpdateGridboards \/ Tick \/ UNCHANGED vars => UNCHANGED oneshotVars
    BY DEF UpdateGridboards, Tick, vars, oneshotVars
  <2> QED BY <2>1, <2>2, <2>3, <2>4, <2>5 DEF Next
<1> QED BY <1>1, <1>2, Invariance, PTL DEF Spec

-----------------------------------------------------------------------------
(* Gridboards.                                                             *)

ShownRaised == {"Raised", "Rising"}

\* The last item of the buffer on an alert, or what the gridboards show when
\* there is none, is right when it shows the alert as raised.
BoardsFollow ==
  \A a \in Alerts \ unread :
    /\ \A i \in 1..Len(buffer) :
         /\ buffer[i][1] = a /\ \A j \in 1..Len(buffer) : j > i => buffer[j][1] # a
         /\ buffer[i][2] \in ShownRaised
         => Status(a) \in ShownRaised
    /\ (\A i \in 1..Len(buffer) : buffer[i][1] # a) /\ boards[a] = "Raised"
         => Status(a) \in ShownRaised

\* A request puts the new status of its alert in the buffer, or marks it unread.
LEMMA CommitFollows ==
  ASSUME TypeOK, BoardsFollow, NEW a \in Alerts, NEW s, Commit(a, s),
         UNCHANGED boards
  PROVE  BoardsFollow'
<1>1. /\ \A b \in Alerts \ {a} : Status(b)' = Status(b)
      /\ Status(a)' = s.status
  BY DEF TypeOK, Commit, Status
<1>2. CASE buffer' = buffer /\ unread' = unread \cup {a}
  BY <1>1, <1>2 DEF BoardsFollow
<1>3. CASE buffer' = Append(buffer, <<a, s.status>>) /\ unread' = unread \ {a}
  <2> DEFINE n == Len(buffer)
             change == <<a, s.status>>
  <2>1. change[1] = a /\ change[2] = s.status
    OBVIOUS
  <2> HIDE DEF change
  <2>2. /\ n \in Nat /\ Len(buffer') = n + 1
        /\ \A i \in 1..n : buffer'[i] = buffer[i]
        /\ buffer'[n + 1] = change
    BY <1>3 DEF TypeOK, change
  <2> HIDE DEF n
  <2> SUFFICES ASSUME NEW b \in Alerts \ unread'
               PROVE
    /\ \A i \in 1..Len(buffer') :
         /\ buffer'[i][1] = b
         /\ \A j \in 1..Len(buffer') : j > i => buffer'[j][1] # b
         /\ buffer'[i][2] \in ShownRaised
         => Status(b)' \in ShownRaised
    /\ (\A i \in 1..Len(buffer') : buffer'[i][1] # b) /\ boards'[b] = "Raised"
         => Status(b)' \in ShownRaised
    BY DEF BoardsFollow, ShownRaised
  <2>3. CASE b = a
    BY <1>1, <2>1, <2>2, <2>3
  <2>4. CASE b # a
    <3>1. b \in Alerts \ unread /\ Status(b)' = Status(b)
      BY <1>1, <1>3, <2>4
    <3>2. ASSUME NEW i \in 1..(n + 1), buffer'[i][1] = b,
                 \A j \in 1..(n + 1) : j > i => buffer'[j][1] # b,
                 buffer'[i][2] \in ShownRaised
          PROVE  Status(b) \in ShownRaised
      <4>1. i \in 1..n
        BY <2>1, <2>2, <2>4, <3>2
      <4>2. \A j \in 1..n : j > i => buffer[j][1] # b
        BY <2>2, <3>2
      <4> QED BY <2>2, <3>1, <3>2, <4>1, <4>2 DEF BoardsFollow, n
    <3>3. ASSUME \A i \in 1..(n + 1) : buffer'[i][1] # b, boards'[b] = "Raised"
          PROVE  Status(b) \in ShownRaised
      <4>1. \A i \in 1..n : buffer[i][1] # b
        BY <2>2, <3>3
      <4> QED BY <3>1, <3>3, <4>1 DEF BoardsFollow, n
    <3> QED BY <2>2, <3>1, <3>2, <3>3
  <2> QED BY <2>3, <2>4
<1> QED BY <1>2, <1>3 DEF Commit

\* The gridboard thread shows what it removes from the buffer.
LEMMA UpdateFollows ==
  ASSUME TypeOK, BoardsFollow, UpdateGridboards
  PROVE  BoardsFollow'
<1> DEFINE n == Len(buffer)
<1>1. /\ n \in Nat \ {0} /\ Len(buffer') = n - 1
      /\ \A i \in 1..(n - 1) : buffer'[i] = buffer[i + 1]
      /\ buffer[1] = Head(buffer)
      /\ buffer[1] \in Alerts \X AlertStatus
  BY DEF UpdateGridboards, TypeOK
<1>2. /\ UNCHANGED <<statefulAlerts, unread>>
      /\ boards' = [boards EXCEPT ![buffer[1][1]] =
                      IF buffer[1][2] \in {"Raised", "Rising"}
                      THEN "Raised" ELSE "Ok"]
      /\ DOMAIN boards = Alerts
  BY <1>1 DEF UpdateGridboards, statefulVars, TypeOK
<1> HIDE DEF n
<1> SUFFICES ASSUME NEW a \in Alerts \ unread
             PROVE
  /\ \A i \in 1..(n - 1) :
       /\ buffer'[i][1] = a
       /\ \A j \in 1..(n - 1) : j > i => buffer'[j][1] # a
       /\ buffer'[i][2] \in ShownRaised
       => Status(a) \in ShownRaised
  /\ (\A i \in 1..(n - 1) : buffer'[i][1] # a) /\ boards'[a] = "Raised"
       => Status(a) \in ShownRaised
  BY <1>1, <1>2 DEF BoardsFollow, ShownRaised, Status
<1>3. ASSUME NEW i \in 1..(n - 1), buffer'[i][1] = a,
             \A j \in 1..(n - 1) : j > i => buffer'[j][1] # a,
             buffer'[i][2] \in ShownRaised
      PROVE  Status(a) \in ShownRaised
  <2>1. i + 1 \in 1..n /\ buffer[i + 1] = buffer'[i]
    BY <1>1
  <2>2. ASSUME NEW j \in 1..n, j > i + 1
        PROVE  buffer[j][1] # a
    <3>1. j - 1 \in 1..(n - 1) /\ j - 1 > i /\ buffer[j] = buffer'[j - 1]
      BY <1>1, <2>2
    <3> QED BY <1>3, <3>1
  <2> QED BY <1>3, <2>1, <2>2 DEF BoardsFollow, n
<1>4. ASSUME \A i \in 1..(n - 1) : buffer'[i][1] # a, boards'[a] = "Raised"
      PROVE  Status(a) \in ShownRaised
  <2>1. ASSUME NEW j \in 1..n, j > 1
        PROVE  buffer[j][1] # a
    <3>1. j - 1 \in 1..(n - 1) /\ buffer[j] = buffer'[j - 1]
      BY <1>1, <2>1
    <3> QED BY <1>4, <3>1
  <2>2. 1 \in 1..n
    BY <1>1
  <2>3. CASE buffer[1][1] = a
    <3>1. buffer[1][2] \in ShownRaised
      BY <1>2, <1>4, <2>3 DEF ShownRaised
    <3> QED BY <2>1, <2>2, <2>3, <3>1 DEF BoardsFollow, n
  <2>4. CASE buffer[1][1] # a
    <3>1. boards[a] = "Raised"
      BY <1>2, <1>4, <2>4
    <3>2. \A j \in 1..n : buffer[j][1] # a
      BY <1>1, <2>1, <2>4
    <3> QED BY <3>1, <3>2 DEF BoardsFollow, n
  <2> QED BY <2>3, <2>4
<1> QED BY <1>3, <1>4

\* No step makes gridboards, or the buffer, wrong about a raised alert.
LEMMA StepFollows ==
  ASSUME Inv, BoardsFollow, [Next]_vars
  PROVE  BoardsFollow'
<1>0. TypeOK
  BY DEF Inv
<1>1. ASSUME UNCHANGED gridVars,
             \A a \in Alerts : Status(a) \in ShownRaised => Status(a)' \in ShownRaised
      PROVE  BoardsFollow'
  BY <1>1 DEF BoardsFollow, gridVars, ShownRaised
<1>2. CASE AsyncProcessing
  <2>1. UNCHANGED gridVars
    BY <1>2 DEF AsyncProcessing
  <2>2. ASSUME NEW a \in Alerts, Status(a) \in ShownRaised
        PROVE  Status(a)' \in ShownRaised
    <3>1. Settled(a) \in {statefulAlerts[a], Raised(statefulAlerts[a])}
      BY <2>2 DEF Settled, Status, ShownRaised
    <3>2. statefulAlerts'[a] \in {Settled(a), statefulAlerts[a]}
      BY <1>2 DEF AsyncProcessing, SettleStateful
    <3> QED BY <2>2, <3>1, <3>2, NewStatus DEF Status, ShownRaised
  <2> QED BY <1>1, <2>1, <2>2
<1>3. ASSUME NEW a \in Alerts, HandleRequest(a)
      PROVE  BoardsFollow'
  <2>1. CASE EmitAlert(a) \/ \E method : IgnoreAlert(method, a)
    <3>1. UNCHANGED <<gridVars, statefulAlerts>>
      BY <2>1 DEF EmitAlert, IgnoreAlert, statefulVars
    <3> QED BY <1>1, <3>1 DEF Status
  <2>2. CASE RaiseAlert(a) \/ RaiseAlertImmediately(a)
             \/ CancelAlert(a) \/ CancelAlertImmediately(a)
    <3>1. UNCHANGED boards
      BY <2>2 DEF RaiseAlert, RaiseAlertImmediately, CancelAlert,
                  CancelAlertImmediately, Requested
    <3>2. \E s : Commit(a, s)
      BY <2>2 DEF RaiseAlert, RaiseAlertImmediately, CancelAlert,
                  CancelAlertImmediately
    <3> QED BY <1>0, <3>1, <3>2, CommitFollows
  <2> QED BY <1>3, <2>1, <2>2 DEF HandleRequest
<1>4. CASE Tick \/ UNCHANGED vars
  <2>1. UNCHANGED <<gridVars, statefulAlerts>>
    BY <1>4 DEF Tick, vars, statefulVars
  <2> QED BY <1>1, <2>1 DEF Status
<1> QED BY <1>0, <1>2, <1>3, <1>4, UpdateFollows DEF Next

\* Whatever the size of the buffer, gridboards that have read it show an alert
\* as raised only if it rises or is raised, or its last change was lost.
THEOREM BoardsAreRight == Spec => []NoGhostOnBoards
<1>1. Init => BoardsFollow
  BY DEF Init, BoardsFollow
<1>2. Inv /\ BoardsFollow /\ [Next]_vars => BoardsFollow'
  BY StepFollows
<1>3. BoardsFollow => NoGhostOnBoards
  <2> SUFFICES ASSUME BoardsFollow, NEW a \in Alerts, buffer = <<>>, a \notin unread,
                      boards[a] = "Raised"
               PROVE  Status(a) \in {"Rising", "Raised"}
    BY DEF NoGhostOnBoards
  <2>1. Len(buffer) = 0
    OBVIOUS
  <2> QED BY <2>1 DEF BoardsFollow, ShownRaised
<1> QED BY <1>1, <1>2, <1>3, Invariance, PTL DEF Spec

-----------------------------------------------------------------------------
\* Whatever the alerts, delays and windows, channels are told once of each rise,
\* of each cancelation and of each emission.
THEOREM NothingIsLost == Spec => []NothingLost
BY NoticesAreBalanced, NoEmissionLost, PTL DEF NothingLost

\* Whatever the alerts, delays and windows, they are told of none too early.
THEOREM InTime == Spec => TransitionsInTime
BY RaisedInTime, DroppedInTime DEF TransitionsInTime
=============================================================================
