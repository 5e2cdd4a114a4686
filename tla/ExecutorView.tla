---------------------------- MODULE ExecutorView ----------------------------
(***************************************************************************)
(* What an executor promises to the scheduler: it executes the instances   *)
(* it is given one at a time, and tells once, of each, that it has         *)
(* stopped, whatever the tries, the aborts and the ends of processes that  *)
(* it takes.                                                               *)
(***************************************************************************)
EXTENDS Naturals

CONSTANTS Instances, NoInstance

VARIABLES
  current,   \* the instance being executed
  told,      \* the instances told to have stopped
  stops      \* how many times an instance was told to have stopped

vars == <<current, told, stops>>

Init ==
  /\ current = NoInstance
  /\ told = {}
  /\ stops = 0

Begin(i) ==
  /\ current = NoInstance
  /\ i \notin told
  /\ current' = i
  /\ UNCHANGED <<told, stops>>

End ==
  /\ current # NoInstance
  /\ told' = told \cup {current}
  /\ stops' = stops + 1
  /\ current' = NoInstance

Next ==
  \/ \E i \in Instances : Begin(i)
  \/ End

Spec == Init /\ [][Next]_vars
=============================================================================
