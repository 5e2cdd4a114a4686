---------------------------- MODULE RepositoryView ----------------------------
(***************************************************************************)
(* What a configuration repository promises: a set of configurations, one  *)
(* of which may be active and cannot be removed, that only changes by whole*)
(* operations, one at a time, and that no crash or restart changes.  Files *)
(* may be added while it is stopped.  They may hold copies, which a start  *)
(* may tidy up, and which outlive the removal of their configuration.      *)
(***************************************************************************)
CONSTANTS Configs, NoConfig

VARIABLES
  stored,   \* the configurations on disk
  copied,   \* those of which a copy has another name
  active,
  phase     \* "stopped", "starting", "ready" or "busy" with an operation

Init == stored = {} /\ copied = {} /\ active = NoConfig /\ phase = "stopped"

\* A file is added by hand.
Drop(c) ==
  /\ phase = "stopped"
  /\ stored' = stored \cup {c} /\ copied' \in {copied, copied \cup {c}}
  /\ UNCHANGED <<active, phase>>

Start == phase = "stopped" /\ phase' = "starting" /\ UNCHANGED <<stored, copied, active>>

Tidy ==
  /\ phase = "starting"
  /\ copied' \subseteq copied
  /\ UNCHANGED <<stored, active, phase>>

Add(c) == stored' = stored \cup {c} /\ UNCHANGED <<copied, active>>

Activate(c) == c \in stored /\ active' = c /\ UNCHANGED <<stored, copied>>

Remove(c) ==
  /\ c \in stored \ {active}
  /\ stored' = (stored \ {c}) \cup (copied \cap {c})
  /\ UNCHANGED <<copied, active>>

Operate ==
  /\ phase = "ready" /\ phase' = "busy"
  /\ \E c \in Configs : Add(c) \/ Activate(c) \/ Remove(c)

\* The start or the operation ends.
Return ==
  /\ phase \in {"starting", "busy"} /\ phase' = "ready"
  /\ UNCHANGED <<stored, copied, active>>

Crash == phase # "stopped" /\ phase' = "stopped" /\ UNCHANGED <<stored, copied, active>>

Next == (\E c \in Configs : Drop(c)) \/ Start \/ Tidy \/ Operate \/ Return \/ Crash

Spec == Init /\ [][Next]_<<stored, copied, active, phase>>
=============================================================================
