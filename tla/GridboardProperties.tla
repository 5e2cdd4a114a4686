------------------------- MODULE GridboardProperties -------------------------
EXTENDS Gridboard

Items == UNION {Leaves(trees[r]) : r \in components}

Linked(p, q) == \E i \in Dimensions : p[i] = q[i]

\* Every value of a tree leads to its root by the index of its dimension, an
\* index has no other value and leads to no other tree, and the counters shown
\* to the user count the trees and their items (Gridboard::update, clear).
IndexesExact ==
  /\ \A i \in Dimensions :
       /\ DOMAIN indexes[i] = {p[i] : p \in Items}
       /\ \A r \in components : \A p \in Leaves(trees[r]) : indexes[i][p[i]] = r
  /\ componentsCount = Cardinality(components)
  /\ itemsCount = Cardinality(Items)

\* There is one tree per connected component (gridboard.cpp:168-187): items of
\* two trees share no value, and the items of a tree cannot be told in two
\* groups that share none.
OneTreePerComponent ==
  /\ \A r, s \in components : r # s =>
       \A p \in Leaves(trees[r]), q \in Leaves(trees[s]) : ~Linked(p, q)
  /\ \A r \in components : \A group \in (SUBSET Leaves(trees[r])) \ {{}, Leaves(trees[r])} :
       \E p \in group, q \in Leaves(trees[r]) \ group : Linked(p, q)

\* Whatever is merged, the gridboard shows the last status of each pair of
\* coordinates and its date, until it is cleared (Gridboard::update).
Shown ==
  [p \in Items |-> trees[CHOOSE r \in components : p \in Leaves(trees[r])][p]]

View == INSTANCE GridboardView WITH
  Coordinates <- {c.values[a] : c \in Configs, a \in Alerts}, Statuses <- {"Ok", "Raised"},
  shown <- Shown

ImplementsGridboardView == View!Spec

\* The tables are a faithful picture: each item has one cell, in one table only,
\* and a cell that is not an item is unknown (Gridboard::toHtml).
Rendered(p, table) == p \in DOMAIN table /\ table[p] # "Unknown"
EveryItemRenderedOnce ==
  LET html == ToHtml(components, 1)
  IN \A c \in Configs, a \in Alerts :
       LET p == c.values[a]
       IN Cardinality({r \in components : Rendered(p, html[r])}) = (IF p \in Items THEN 1 ELSE 0)

\* However trees are merged, cleared and reordered, the forest is the one its
\* comment describes, is found by its indexes and is shown whole.
ForestIsExact == IndexesExact /\ OneTreePerComponent /\ EveryItemRenderedOnce

\* A copy is rendered without the lock while the gridboard goes on: an item that
\* it had never disappears from it, though its tree may be merged or cleared
\* (Alerter::gridboard, mergeComponents).
CopiedItems == UNION {Leaves(trees[r]) : r \in copy.components}
CopyKeepsItsItems == [][copy' = copy => CopiedItems \subseteq CopiedItems']_vars
=============================================================================
