------------------------------ MODULE Gridboard ------------------------------
(***************************************************************************)
(* A gridboard of libqron: the statuses of the alerts that match a pattern,*)
(* laid out along two dimensions computed from their ids.                  *)
(*                                                                         *)
(* The items are kept in a forest, one tree per set of items connected by  *)
(* shared dimension values, with an index by dimension from each value to  *)
(* the root of its tree.  The gridboard thread updates it, the alerter     *)
(* thread changes its configuration, and any thread clears or copies it,   *)
(* all under a lock; a copy, rendered later without the lock, has its own  *)
(* list of trees but shares the trees themselves.                          *)
(***************************************************************************)
EXTENDS Integers, Sequences, FiniteSets

CONSTANTS
  Alerts,        \* ids of alerts
  Configs,       \* the configurations of this gridboard, see Config
  Received,      \* the statuses of the alerts read from the buffer
  Roots,         \* addresses of trees
  MaxTime        \* bound on the time

Dimensions == 1..2

\* A pattern is the set of the alerts that match it; ids are the dimension ids,
\* values gives the two dimension values evaluated for each alert.
IsConfig(c) ==
  /\ c.pattern \subseteq Alerts
  /\ DOMAIN c.ids = Dimensions
  /\ DOMAIN c.values = Alerts
  /\ \A a \in Alerts : c.values[a] = <<c.values[a][1], c.values[a][2]>>
  /\ c.warningDelay \in Nat

AlertStatus == {"Nonexistent", "Rising", "MayRise", "Raised", "Dropping", "Canceled"}

ASSUME ConfigsAssumption == \A c \in Configs : IsConfig(c)
ASSUME InputsAssumption == Received \subseteq AlertStatus /\ MaxTime \in Nat

VARIABLES
  now,
  config,        \* the configuration of the gridboard, NoConfig when it is removed
  components,    \* _dataComponents
  indexes,       \* _dataIndexesByDimension
  componentsCount, itemsCount,
  trees,         \* the trees in memory, by root
  copy           \* what a reader got from gridboard()

boardVars == <<config, components, indexes, componentsCount, itemsCount>>
vars == <<now, boardVars, trees, copy>>

NoConfig == [pattern |-> {}, ids |-> <<>>, values |-> <<>>, warningDelay |-> 0]
NoCopy == [warningDelay |-> 0, components |-> {}]
Empty == [x \in {} |-> {}]
NoDate == -1

StatusOf(alertStatus) == IF alertStatus \in {"Raised", "Rising"} THEN "Raised" ELSE "Ok"

\* A tree maps the path of each of its nodes to its data.
TreeItem(status, timestamp) == [status |-> status, timestamp |-> timestamp]
NewItem == TreeItem("Unknown", NoDate)
NewTree == [p \in {<<>>} |-> NewItem]

\* Mutants: the first level only is merged; source takes the place of target.
MergeFirstLevel(target, source) ==
  [p \in {q \in DOMAIN source : Len(q) < 2} \cup DOMAIN target |->
    IF p \in DOMAIN source /\ Len(p) < 2 THEN source[p] ELSE target[p]]
MergeReplacing(target, source) == source

\* What is in source takes the place of what is in target.
Merge(target, source) ==
  [p \in DOMAIN source \cup DOMAIN target |->
    IF p \in DOMAIN source THEN source[p] ELSE target[p]]

\* A map once a value is inserted.
Inserted(map, key, value) ==
  [k \in DOMAIN map \cup {key} |-> IF k = key THEN value ELSE map[k]]

Leaves(tree) == {p \in DOMAIN tree : Len(p) = Cardinality(Dimensions)}

\* Trees are freed with the last list that holds them.
Held(memory, inBoard, inCopy) == [r \in inBoard \cup inCopy |-> memory[r]]

\* Mutant: the indexes still lead to the merged tree.
NotRedirected(index, source, target) == index

Redirected(index, source, target) ==
  [v \in DOMAIN index |-> IF index[v] = source THEN target ELSE index[v]]

\* The state of the forest once source is merged in target.
MergeComponents(target, source) ==
  [components |-> components \ {source},
   indexes |-> [i \in Dimensions |-> Redirected(indexes[i], source, target)],
   tree |-> Merge(trees[target], trees[source])]

-----------------------------------------------------------------------------

Init ==
  /\ now = 0
  /\ config \in Configs
  /\ components = {}
  /\ indexes = [i \in Dimensions |-> Empty]
  /\ componentsCount = 0
  /\ itemsCount = 0
  /\ trees = Empty
  /\ copy = NoCopy

\* The forest once the trees of the values are merged, or with a new tree when
\* there is none; the set of roots is unordered, so either may be the target.
Gathered(values, root, found) ==
  IF found = {}
  THEN [components |-> components \cup {root},
        indexes |-> [indexes EXCEPT ![1] = Inserted(@, values[1], root)],
        tree |-> NewTree]
  ELSE IF found = {root}
  THEN [components |-> components, indexes |-> indexes, tree |-> trees[root]]
  ELSE MergeComponents(root, CHOOSE r \in found : r # root)

Update(alert, alertStatus) ==
  LET values == config.values[alert]
      path(i) == SubSeq(values, 1, i)
      found == {indexes[i][values[i]] : i \in {j \in Dimensions : values[j] \in DOMAIN indexes[j]}}
      candidates == IF found = {} THEN Roots \ DOMAIN trees ELSE found
  IN /\ config # NoConfig
     /\ alert \in config.pattern
     /\ \E root \in candidates :
          LET forest == Gathered(values, root, found)
              created == {i \in Dimensions : path(i) \notin DOMAIN forest.tree}
              nodes == Merge(forest.tree, [p \in {path(i) : i \in created} |-> NewItem])
              tree == Inserted(nodes, values, TreeItem(StatusOf(alertStatus), now))
          IN /\ components' = forest.components
             /\ indexes' = [i \in Dimensions |->
                             IF i \in created THEN Inserted(forest.indexes[i], values[i], root)
                                              ELSE forest.indexes[i]]
             /\ componentsCount' = componentsCount
                  + (IF found = {} THEN 1 ELSE 1 - Cardinality(found))
             /\ itemsCount' = IF 2 \in created THEN itemsCount + 1 ELSE itemsCount
             /\ trees' = Held(Inserted(trees, root, tree), forest.components, copy.components)
     /\ UNCHANGED <<now, config, copy>>

Cleared ==
  /\ components' = {}
  /\ indexes' = [i \in Dimensions |-> Empty]
  /\ componentsCount' = 0
  /\ itemsCount' = 0
  /\ trees' = Held(trees, {}, copy.components)

ClearGridboard == config # NoConfig /\ Cleared /\ UNCHANGED <<now, config, copy>>

\* The alerter gets a configuration where the gridboard is, is no longer, or is
\* a new one; an item is kept when the pattern and the dimension ids are.
SetConfig(new) ==
  /\ config' = new
  /\ IF new.pattern = config.pattern /\ new.ids = config.ids
     THEN UNCHANGED <<components, indexes, componentsCount, itemsCount, trees>>
     ELSE Cleared
  /\ UNCHANGED <<now, copy>>

GetGridboard ==
  /\ config # NoConfig
  /\ copy' = [warningDelay |-> config.warningDelay, components |-> components]
  /\ trees' = Held(trees, components, components)
  /\ UNCHANGED <<now, boardVars>>

DropCopy ==
  /\ copy' = NoCopy
  /\ trees' = Held(trees, components, {})
  /\ UNCHANGED <<now, boardVars>>

Tick == now < MaxTime /\ now' = now + 1 /\ UNCHANGED <<boardVars, trees, copy>>

Next ==
  \/ \E a \in Alerts, s \in Received : Update(a, s)
  \/ ClearGridboard
  \/ \E c \in Configs \cup {NoConfig} : SetConfig(c)
  \/ GetGridboard
  \/ DropCopy
  \/ Tick

Spec == Init /\ [][Next]_vars

-----------------------------------------------------------------------------
\* Rendering

StatusShown(item, warningDelay) ==
  IF item.status = "Ok" /\ warningDelay > 0 /\ now - item.timestamp > warningDelay
  THEN "Long" ELSE item.status

\* The table of a tree: a row for each first value, a column for each second one.
Table(tree, warningDelay) ==
  LET rows == {p[1] : p \in {q \in DOMAIN tree : Len(q) = 1}}
      columns == {p[2] : p \in Leaves(tree)}
  IN [cell \in rows \X columns |->
       IF cell \in DOMAIN tree THEN StatusShown(tree[cell], warningDelay) ELSE "Unknown"]

ToHtml(roots, warningDelay) == [r \in roots |-> Table(trees[r], warningDelay)]
=============================================================================
