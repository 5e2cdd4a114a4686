------------------------------- MODULE MCHerd -------------------------------
(* Workflows of the scheduler, of which diagrams are drawn.                *)
EXTENDS MCScheduler, HerdDiagram

\* What goes on without operators.
Undisturbed ==
  /\ ~crashed
  /\ \/ Step
     \/ HandleEvent
     \/ \E i \in Ids : ExecutorStop(i)
     \/ \E a \in Requests : RequestTask(a)

\* Bound: operators give no command once a diagram is drawn, and none is drawn once
\* an instance was canceled, the configuration changed, or a shutdown began.  Policies
\* do not change what is drawn, but that herders may end before their herd or not.
Undrawn == drawing.pass = "none"

BoundedNext ==
  \/ Undrawn /\ Next /\ UNCHANGED drawing
  \/ ~Undrawn /\ Undisturbed /\ UNCHANGED drawing
  \/ /\ Undrawn => config = FirstConfig /\ ~shutingDown /\ finish \subseteq start
     /\ \E i \in Created : info[i].task \in {"NoWait", "AllSuccess"}
     /\ Draw /\ UNCHANGED vars

BoundedDrawing == Init /\ drawing = NotDrawn /\ [][BoundedNext]_drawingVars
=============================================================================
