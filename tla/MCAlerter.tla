----------------------------- MODULE MCAlerter ------------------------------
(* Small configurations of the alerter for TLC.                            *)
EXTENDS AlerterProperties

MCAlerts == {"a", "b"}

Dates == 0..Horizon
Always == [t \in Dates |-> t]
Even == [t \in Dates |-> t + (t % 2)]

MCDefault == [rise |-> 2, mayrise |-> 1, drop |-> 1, duplicateEmit |-> 1]
Unset == [rise |-> 0, mayrise |-> 0, drop |-> 0, duplicateEmit |-> 0]

\* a has the delays of the configuration; b has its own, and windows.
MCSettings ==
  [x \in MCAlerts |->
     IF x = "a"
     THEN [delays |-> Unset, visibleFrom |-> Always, acceptable |-> Dates]
     ELSE [delays |-> [Unset EXCEPT !.rise = 1, !.mayrise = 2],
           visibleFrom |-> Even, acceptable |-> {0, 1, 3}]]

StatefulMethods == {"raise", "raiseImmediately", "cancel", "cancelImmediately"}

AllRequests == {<<m, "a">> : m \in StatefulMethods}
               \cup {<<m, "b">> : m \in {"raise", "cancel", "emit"}}
=============================================================================
