-------------------------- MODULE AlertChannelView --------------------------
(***************************************************************************)
(* What the alerter promises to its channels about stateful alerts: a      *)
(* channel only ever sees an alert raised, then canceled, then raised      *)
(* again, and is told once of each change, however the alert rises, drops  *)
(* or wavers inside the alerter.                                           *)
(***************************************************************************)
EXTENDS Naturals

CONSTANT Alerts

VARIABLES
  raised,         \* the alerts a channel sees as raised
  raiseNotices,   \* how many times each alert was notified as raised
  cancelNotices   \* and as canceled

vars == <<raised, raiseNotices, cancelNotices>>

Init ==
  /\ raised = {}
  /\ raiseNotices = [a \in Alerts |-> 0]
  /\ cancelNotices = [a \in Alerts |-> 0]

\* One more notice for each of the alerts of S.
CountNotices(notices, S) ==
  [a \in Alerts |-> IF a \in S THEN notices[a] + 1 ELSE notices[a]]

\* The alerter raises the alerts of R and cancels those of C.
Notify(R, C) ==
  /\ R \cap raised = {}
  /\ C \subseteq raised
  /\ raised' = (raised \cup R) \ C
  /\ raiseNotices' = CountNotices(raiseNotices, R)
  /\ cancelNotices' = CountNotices(cancelNotices, C)

Next == \E R, C \in SUBSET Alerts : Notify(R, C)

Spec == Init /\ [][Next]_vars
=============================================================================
