----------------------------- MODULE HerdDiagram -----------------------------
(***************************************************************************)
(* The diagram of a herd of instances: a node for each instance, an edge   *)
(* from each instance to those it planned, and an edge to each instance    *)
(* from those its queuewhen condition awaits.                              *)
(*                                                                         *)
(* It is drawn by a thread of the user interface while the scheduler goes  *)
(* on.  That thread copies the list of the herd, then reads that list again*)
(* to evaluate the condition of each instance it selected, then reads the  *)
(* children of each one: instances may be planned between two reads.  All  *)
(* the instances ever planned are still in _allTasks, what is read of them *)
(* does not change once they are in the list of their herd, and every      *)
(* option of the diagram is set.                                           *)
(***************************************************************************)
EXTENDS SchedulerProperties, Functions

VARIABLE drawing   \* what that thread has read so far

drawingVars == <<vars, drawing>>

\* appendToHerd(), appendToChildren(): the instances planned while the herder
\* was not finished, which have kept a condition, and those planned by one.
HerdList(h) == {i \in Created \ {h} : info[i].herdid = h /\ info[i].queuewhen # ""}
Children(parent) == {i \in Created : info[i].parentid = parent}

\* Mutant: the instances of the herd that are finished are not selected.
SelectedUnfinished(h) ==
  LET herd == {h} \cup (HerdList(h) \ finish)
  IN  herd \cup ({info[i].parentid : i \in herd} \ {0})

\* The herder, its herd, and the instances that planned them.
Selected(h) ==
  LET herd == {h} \cup HerdList(h)
  IN  herd \cup ({info[i].parentid : i \in herd} \ {0})

\* The instances that the expression of its condition stands for, evaluated for
\* the herder, even when it is about the parent of the instance itself.
Prerequisites(i, selected) ==
  LET h == info[i].herdid
  IN  IF info[i].queuewhen = "" \/ h \notin selected THEN {}
      ELSE IF info[i].watch = {} THEN {info[h].parentid} \ {0}
      ELSE {j \in HerdList(h) : info[j].task \in info[i].watch}

First(ids) == CHOOSE i \in ids : \A j \in ids : i <= j

NotDrawn ==
  [pass |-> "none", herder |-> 0, before |-> {}, instances |-> <<>>,
   prerequisites |-> <<>>, todo |-> {}]

Drawn == drawing.pass = "children" /\ drawing.todo = {}

\* findRelatedTasks() selects instances.
SelectHerd(h) ==
  /\ drawing.pass = "none" \/ Drawn
  /\ drawing' =
       [pass |-> "prerequisites", herder |-> h, before |-> Created,
        instances |-> [id \in Selected(h) |-> id],
        prerequisites |-> [i \in Selected(h) |-> {}], todo |-> Selected(h)]

\* It evaluates the condition of each of them.
EvaluateCondition ==
  /\ drawing.pass = "prerequisites" /\ drawing.todo # {}
  /\ LET i == First(drawing.todo)
     IN drawing' =
          [drawing EXCEPT
             !.prerequisites = [@ EXCEPT ![i] = Prerequisites(i, DOMAIN drawing.instances)],
             !.todo = @ \ {i}]

\* A prerequisite that was not selected is given the instance that awaits it.
AddPrerequisites ==
  /\ drawing.pass = "prerequisites" /\ drawing.todo = {}
  /\ LET selected == DOMAIN drawing.instances
         awaited(i) == drawing.prerequisites[i] \ selected
         known == selected \cup UNION {awaited(i) : i \in selected}
     IN drawing' =
          [drawing EXCEPT
             !.pass = "children",
             !.instances =
                [id \in known |-> IF id \in selected THEN id
                                  ELSE First({i \in selected : id \in awaited(i)})],
             !.todo = known]

\* The children of the instance found under each id are added.
AddChildren ==
  /\ drawing.pass = "children" /\ drawing.todo # {}
  /\ LET instances == drawing.instances
         id == First(drawing.todo)
         added == Children(instances[id]) \ DOMAIN instances
     IN drawing' =
          [drawing EXCEPT
             !.instances = [i \in DOMAIN instances \cup added |->
                              IF i \in added THEN i ELSE instances[i]],
             !.todo = @ \ {id}]

Draw ==
  \/ \E h \in Created : IsHerder(h) /\ SelectHerd(h)
  \/ EvaluateCondition
  \/ AddPrerequisites
  \/ AddChildren

DrawingNext ==
  \/ Next /\ UNCHANGED drawing
  \/ Draw /\ UNCHANGED vars

DrawingSpec == Init /\ drawing = NotDrawn /\ [][DrawingNext]_drawingVars

\* herdInstanceDiagram(): the instances drawn, and the edges.
Shown == Range(drawing.instances)
Causes ==
  {<<drawing.instances[info[i].parentid], i>> :
     i \in {i \in Shown : info[i].parentid \in DOMAIN drawing.instances}}
Conditions ==
  UNION {drawing.prerequisites[i] \X {i} : i \in DOMAIN drawing.prerequisites}

-----------------------------------------------------------------------------
(* Properties.                                                             *)

\* The instances that the diagram tells i awaits.
AwaitedBy(i) == {edge[1] : edge \in {edge \in Conditions : edge[2] = i}}

\* Whatever the herd has become while its diagram was drawn, the diagram shows each
\* instance of it that was planned before and is not finished, and each edge starts
\* from the instance that planned the other or is awaited by it.  It joins what it
\* shows, but that it may not show an instance that is awaited and was planned since.
\* As long as the herder is not finished, it tells of each instance that waits for
\* named tasks all those its condition watched before, and none that it does not
\* watch now (findRelatedTasks, TaskWaitConditionData::evaluateIds).
HerdDiagramIsFaithful ==
  Drawn =>
    LET h == drawing.herder
        before == drawing.before
    IN  /\ HerdedTasks(h) \cap before \subseteq Shown
        /\ Causes \subseteq Shown \X Shown
        /\ \A edge \in Causes : edge[1] = info[edge[2]].parentid
        /\ Conditions \subseteq (Shown \cup (Created \ before)) \X Shown
        /\ h \notin finish => \A i \in Herd(h) \cap before : info[i].watch # {} =>
             /\ WatchedIds(i) \cap before \subseteq AwaitedBy(i)
             /\ AwaitedBy(i) \subseteq WatchedIds(i)
=============================================================================
