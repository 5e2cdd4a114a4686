-------------------------------- MODULE MCMail --------------------------------
(***************************************************************************)
(* Instances of the mail channel.                                          *)
(***************************************************************************)
EXTENDS MailProperties

Sub(addresses, emit, cancel, reminder) ==
  [addresses |-> addresses, emit |-> emit, cancel |-> cancel, reminder |-> reminder]

Config(subs) ==
  [subscriptions |-> subs, minDelayBetweenSend |-> 2, delayBeforeFirstSend |-> 1,
   remindPeriod |-> 2]

Both == Config([a \in Alerts |-> Sub(<<"admin", "oncall">>, TRUE, TRUE, a \notin OneShot)])
One == Config([a \in Alerts |-> Sub(<<"admin">>, TRUE, FALSE, a \notin OneShot)])
TwoConfigs == {Both, One}
=============================================================================
