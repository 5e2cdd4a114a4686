----------------------------- MODULE MCGridboard -----------------------------
(***************************************************************************)
(* Alerts such as host.down.http.$host.$port: two of them are two trees,   *)
(* which the third one joins; a configuration evaluates another value for   *)
(* the same dimension ids, and another one has another pattern.            *)
(***************************************************************************)
EXTENDS GridboardProperties, TLC

CONSTANTS host1, host2, port1, port2, host, port

MCAlerts == {<<host1, port1>>, <<host2, port2>>, <<host1, port2>>}

MCConfigs ==
  {[pattern |-> MCAlerts, ids |-> <<host, port>>, values |-> [a \in MCAlerts |-> a], warningDelay |-> 1],
   [pattern |-> MCAlerts, ids |-> <<host, port>>,
    values |-> [a \in MCAlerts |-> IF a = <<host1, port2>> THEN <<host1, port1>> ELSE a],
    warningDelay |-> 1],
   [pattern |-> {<<host1, port1>>, <<host2, port2>>}, ids |-> <<host, port>>,
    values |-> [a \in MCAlerts |-> a], warningDelay |-> 0]}

Addresses == Permutations(Roots)
=============================================================================
