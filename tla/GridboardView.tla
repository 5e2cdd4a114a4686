---------------------------- MODULE GridboardView ----------------------------
(***************************************************************************)
(* What a gridboard promises to its readers: the last status of the alerts *)
(* of each pair of coordinates, and when it came, whatever the trees that  *)
(* hold them.                                                              *)
(***************************************************************************)
EXTENDS Integers

CONSTANTS Coordinates, Statuses

VARIABLES now, shown

Nothing == [c \in {} |-> {}]

Init == now = 0 /\ shown = Nothing

Show(c, s) ==
  /\ shown' = [x \in DOMAIN shown \cup {c} |->
                IF x = c THEN [status |-> s, timestamp |-> now] ELSE shown[x]]
  /\ UNCHANGED now

Clear == shown' = Nothing /\ UNCHANGED now

Tick == now' = now + 1 /\ UNCHANGED shown

Next ==
  \/ \E c \in Coordinates, s \in Statuses : Show(c, s)
  \/ Clear
  \/ Tick

Spec == Init /\ [][Next]_<<now, shown>>
=============================================================================
