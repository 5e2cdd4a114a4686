--------------------------- MODULE GridboardProofs ---------------------------
(***************************************************************************)
(* Proofs about a gridboard, for any alerts, configurations, addresses and *)
(* bound on the time.                                                      *)
(*                                                                         *)
(* The inductive invariant says what a tree is, that indexes lead to the   *)
(* trees, and that each tree is connected.  An update is proved to do the  *)
(* same thing whether it creates a tree, finds it or merges two.           *)
(***************************************************************************)
EXTENDS GridboardProperties, FiniteSetTheorems, SequenceTheorems, TLAPS

Value == {c.values[a][i] : c \in Configs, a \in Alerts, i \in Dimensions}

Coordinates == {c.values[a] : c \in Configs, a \in Alerts}

Path == {<<>>} \cup {<<x>> : x \in Value} \cup (Value \X Value)

Connected(leaves) ==
  \A group \in (SUBSET leaves) \ {{}, leaves} :
    \E p \in group, q \in leaves \ group : Linked(p, q)

\* Each node of the first level has a child, and each leaf a parent.
IsForest(tree) ==
  /\ DOMAIN tree \subseteq Path
  /\ \A p \in Leaves(tree) : tree[p] \in [status : {"Ok", "Raised"}, timestamp : Nat]
  /\ \A x \in Value : <<x>> \in DOMAIN tree <=> \E p \in Leaves(tree) : p[1] = x

IsTree(tree) == IsForest(tree) /\ Leaves(tree) # {}

Types ==
  /\ now \in Nat /\ config \in Configs \cup {NoConfig}
  /\ DOMAIN indexes = Dimensions /\ DOMAIN trees = components \cup copy.components
  /\ IsFiniteSet(components) /\ IsFiniteSet(Items)

TreesConnected == \A r \in components : Connected(Leaves(trees[r]))

Inv ==
  /\ Types /\ \A r \in DOMAIN trees : IsTree(trees[r])
  /\ IndexesExact /\ TreesConnected

-----------------------------------------------------------------------------
(* Paths.                                                                  *)

LEMMA TwoDimensions == Cardinality(Dimensions) = 2 /\ Dimensions = {1, 2}
<1>1. Dimensions = {1, 2}
  BY DEF Dimensions
<1>2. Cardinality({1}) = 1 /\ IsFiniteSet({1})
  BY FS_Singleton
<1>3. Cardinality({1} \cup {2}) = 1 + 1
  BY <1>2, FS_AddElement
<1>4. {1, 2} = {1} \cup {2}
  OBVIOUS
<1> QED BY <1>1, <1>3, <1>4

LEMMA PathForms ==
  /\ \A p \in Value \X Value :
       p \in Path /\ Len(p) = 2 /\ p[1] \in Value /\ p[2] \in Value /\ p = <<p[1], p[2]>>
  /\ \A x \in Value : <<x>> \in Path /\ Len(<<x>>) = 1 /\ <<x>>[1] = x
  /\ \A p \in Path : Len(p) = 2 => p \in Value \X Value
  /\ \A p \in Path : Len(p) = 1 => \E x \in Value : p = <<x>>
BY DEF Path

LEMMA LeavesArePairs ==
  ASSUME NEW tree, DOMAIN tree \subseteq Path
  PROVE  Leaves(tree) = DOMAIN tree \cap (Value \X Value)
BY TwoDimensions, PathForms DEF Leaves

LEMMA CoordinatesForm ==
  ASSUME NEW v \in Coordinates
  PROVE  /\ v \in Value \X Value /\ v = <<v[1], v[2]>>
         /\ SubSeq(v, 1, 1) = <<v[1]>> /\ SubSeq(v, 1, 2) = v
<1>1. PICK c \in Configs, a \in Alerts : v = c.values[a]
  BY DEF Coordinates
<1>2. v = <<v[1], v[2]>>
  BY <1>1, ConfigsAssumption DEF IsConfig
<1>3. v[1] \in Value /\ v[2] \in Value
  BY <1>1, TwoDimensions DEF Value
<1>4. v \in Seq(Value) /\ Len(v) = 2
  BY <1>2, <1>3
<1>5. SubSeq(v, 1, 1) = <<v[1]>>
  <2>1. \A i \in 1..1 : v[i] \in Value
    BY <1>3
  <2>2. /\ SubSeq(v, 1, 1) \in Seq(Value)
        /\ Len(SubSeq(v, 1, 1)) = IF 1 <= 1 THEN 1 - 1 + 1 ELSE 0
        /\ \A i \in 1..(1 - 1 + 1) : SubSeq(v, 1, 1)[i] = v[1 + i - 1]
    BY <2>1, SubSeqProperties
  <2>3. Len(SubSeq(v, 1, 1)) = 1 /\ SubSeq(v, 1, 1)[1] = v[1]
    BY <2>2
  <2>4. <<v[1]>> \in Seq(Value) /\ Len(<<v[1]>>) = 1 /\ <<v[1]>>[1] = v[1]
    BY <1>3
  <2>5. \A i \in 1..Len(SubSeq(v, 1, 1)) : SubSeq(v, 1, 1)[i] = <<v[1]>>[i]
    BY <2>3
  <2> QED BY <2>2, <2>3, <2>4, <2>5, SeqEqual
<1>6. SubSeq(v, 1, 2) = v
  <2>1. /\ SubSeq(v, 1, 2) \in Seq(Value) /\ Len(SubSeq(v, 1, 2)) = 2
        /\ SubSeq(v, 1, 2)[1] = v[1] /\ SubSeq(v, 1, 2)[2] = v[2]
    BY <1>4, SubSeqProperties
  <2> QED BY <2>1, <1>4
<1> QED BY <1>2, <1>3, <1>5, <1>6

-----------------------------------------------------------------------------
(* Connected sets of leaves.                                               *)

LEMMA SingletonConnected ==
  ASSUME NEW p
  PROVE  Connected({p})
<1>1. (SUBSET {p}) \ {{}, {p}} = {}
  OBVIOUS
<1> QED BY <1>1 DEF Connected

\* Two connected sets that meet make a connected set.
LEMMA JoinConnected ==
  ASSUME NEW A, NEW B, Connected(A), Connected(B), A \cap B # {}
  PROVE  Connected(A \cup B)
<1> SUFFICES ASSUME NEW group \in (SUBSET (A \cup B)) \ {{}, A \cup B}
             PROVE  \E p \in group, q \in (A \cup B) \ group : Linked(p, q)
  BY DEF Connected
<1>1. CASE group \cap A \notin {{}, A}
  <2>1. group \cap A \in (SUBSET A) \ {{}, A}
    BY <1>1
  <2>2. \E p \in group \cap A, q \in A \ (group \cap A) : Linked(p, q)
    BY <2>1 DEF Connected
  <2> QED BY <2>2
<1>2. CASE group \cap B \notin {{}, B}
  <2>1. group \cap B \in (SUBSET B) \ {{}, B}
    BY <1>2
  <2>2. \E p \in group \cap B, q \in B \ (group \cap B) : Linked(p, q)
    BY <2>1 DEF Connected
  <2> QED BY <2>2
<1>3. CASE group \cap A \in {{}, A} /\ group \cap B \in {{}, B}
  <2>1. PICK y : y \in A /\ y \in B
    OBVIOUS
  <2>2. CASE y \in group
    BY <1>3, <2>1, <2>2
  <2>3. CASE y \notin group
    BY <1>3, <2>1, <2>3
  <2> QED BY <2>2, <2>3
<1> QED BY <1>1, <1>2, <1>3

LEMMA AddConnected ==
  ASSUME NEW A, Connected(A), NEW x, NEW y \in A, Linked(x, y), Linked(y, x)
  PROVE  Connected(A \cup {x})
<1> SUFFICES ASSUME NEW group \in (SUBSET (A \cup {x})) \ {{}, A \cup {x}}
             PROVE  \E p \in group, q \in (A \cup {x}) \ group : Linked(p, q)
  BY DEF Connected
<1>1. CASE group \cap A \notin {{}, A}
  <2>1. group \cap A \in (SUBSET A) \ {{}, A}
    BY <1>1
  <2>2. \E p \in group \cap A, q \in A \ (group \cap A) : Linked(p, q)
    BY <2>1 DEF Connected
  <2> QED BY <2>2
<1>2. CASE group \cap A = {}
  <2>1. x \in group
    BY <1>2
  <2> QED BY <1>2, <2>1
<1>3. CASE group \cap A = A
  <2>1. y \in group
    BY <1>3
  <2>2. x \notin group
    BY <1>3
  <2> QED BY <2>1, <2>2
<1> QED BY <1>1, <1>2, <1>3

-----------------------------------------------------------------------------
(* Indexes.                                                                *)

\* The trees that the indexes find for the values of an alert.
Found(v) == {indexes[i][v[i]] : i \in {j \in Dimensions : v[j] \in DOMAIN indexes[j]}}

LEMMA IndexesMean ==
  ASSUME IndexesExact, NEW i \in Dimensions
  PROVE  /\ \A x \in DOMAIN indexes[i] :
              /\ indexes[i][x] \in components
              /\ \E p \in Leaves(trees[indexes[i][x]]) : p[i] = x
         /\ \A r \in components : \A p \in Leaves(trees[r]) :
              p[i] \in DOMAIN indexes[i] /\ indexes[i][p[i]] = r
<1>1. DOMAIN indexes[i] = {p[i] : p \in Items}
  BY DEF IndexesExact
<1>2. \A r \in components : \A p \in Leaves(trees[r]) : indexes[i][p[i]] = r
  BY DEF IndexesExact
<1>3. ASSUME NEW x \in DOMAIN indexes[i]
      PROVE  /\ indexes[i][x] \in components
             /\ \E p \in Leaves(trees[indexes[i][x]]) : p[i] = x
  <2>1. PICK p \in Items : x = p[i]
    BY <1>1
  <2>2. PICK r \in components : p \in Leaves(trees[r])
    BY DEF Items
  <2>3. indexes[i][x] = r
    BY <1>2, <2>1, <2>2
  <2> QED BY <2>1, <2>2, <2>3
<1>4. ASSUME NEW r \in components, NEW p \in Leaves(trees[r])
      PROVE  p[i] \in DOMAIN indexes[i] /\ indexes[i][p[i]] = r
  <2>1. p \in Items
    BY DEF Items
  <2> QED BY <1>1, <1>2, <2>1
<1> QED BY <1>3, <1>4

LEMMA FoundMeans ==
  ASSUME IndexesExact, NEW v
  PROVE  /\ Found(v) \subseteq components
         /\ \A i \in Dimensions : v[i] \in DOMAIN indexes[i] => indexes[i][v[i]] \in Found(v)
         /\ \A r \in Found(v) : \E p \in Leaves(trees[r]) : Linked(p, v) /\ Linked(v, p)
         /\ \A r \in components : \A p \in Leaves(trees[r]) : Linked(p, v) => r \in Found(v)
<1>1. Found(v) \subseteq components
  BY IndexesMean DEF Found
<1>2. \A i \in Dimensions : v[i] \in DOMAIN indexes[i] => indexes[i][v[i]] \in Found(v)
  BY DEF Found
<1>3. ASSUME NEW r \in Found(v)
      PROVE  \E p \in Leaves(trees[r]) : Linked(p, v) /\ Linked(v, p)
  <2>1. PICK i \in Dimensions : v[i] \in DOMAIN indexes[i] /\ r = indexes[i][v[i]]
    BY DEF Found
  <2>2. PICK p \in Leaves(trees[r]) : p[i] = v[i]
    BY <2>1, IndexesMean
  <2> QED BY <2>2 DEF Linked
<1>4. ASSUME NEW r \in components, NEW p \in Leaves(trees[r]), Linked(p, v)
      PROVE  r \in Found(v)
  <2>1. PICK i \in Dimensions : p[i] = v[i]
    BY <1>4 DEF Linked
  <2>2. v[i] \in DOMAIN indexes[i] /\ indexes[i][v[i]] = r
    BY <2>1, IndexesMean
  <2> QED BY <1>2, <2>2
<1> QED BY <1>1, <1>2, <1>3, <1>4

\* No two trees have a leaf in common.
LEMMA LeavesApart ==
  ASSUME IndexesExact, NEW r \in components, NEW s \in components,
         NEW p \in Leaves(trees[r]), p \in Leaves(trees[s])
  PROVE  r = s
BY TwoDimensions, IndexesMean

LEMMA FoundAtMostTwo ==
  ASSUME NEW v, NEW root \in Found(v), Found(v) # {root}
  PROVE  \E r : r # root /\ Found(v) = {root, r}
<1>1. PICK r \in Found(v) : r # root
  OBVIOUS
<1>2. Found(v) \subseteq {indexes[1][v[1]], indexes[2][v[2]]}
  BY TwoDimensions DEF Found
<1> QED BY <1>1, <1>2

-----------------------------------------------------------------------------
(* An update.                                                              *)

\* The trees that are found, if any, are now one forest under a root, to which
\* the indexes lead.
Gathers(forest, v, root) ==
  /\ forest.components = (components \ Found(v)) \cup {root}
  /\ IsForest(forest.tree)
  /\ Leaves(forest.tree) = UNION {Leaves(trees[r]) : r \in Found(v)}
  /\ \A r \in Found(v) : \A p \in Leaves(trees[r]) : forest.tree[p] = trees[r][p]
  /\ \A i \in Dimensions :
       /\ DOMAIN indexes[i] \subseteq DOMAIN forest.indexes[i]
       /\ DOMAIN forest.indexes[i] \subseteq DOMAIN indexes[i] \cup {v[i]}
       /\ \A x \in DOMAIN forest.indexes[i] :
            forest.indexes[i][x] = IF x \in DOMAIN indexes[i] /\ indexes[i][x] \notin Found(v)
                                   THEN indexes[i][x] ELSE root

LEMMA MergedForest ==
  ASSUME NEW source, NEW target, IsForest(source), IsForest(target)
  PROVE  /\ IsForest(Merge(target, source))
         /\ Leaves(Merge(target, source)) = Leaves(target) \cup Leaves(source)
         /\ \A p \in Leaves(source) : Merge(target, source)[p] = source[p]
         /\ \A p \in Leaves(target) \ Leaves(source) : Merge(target, source)[p] = target[p]
<1> DEFINE tree == Merge(target, source)
<1>1. /\ DOMAIN tree = DOMAIN source \cup DOMAIN target
      /\ \A p \in DOMAIN tree : tree[p] = IF p \in DOMAIN source THEN source[p] ELSE target[p]
  BY DEF Merge
<1> HIDE DEF tree
<1>2. /\ DOMAIN tree \subseteq Path /\ Leaves(tree) = DOMAIN tree \cap (Value \X Value)
      /\ Leaves(source) = DOMAIN source \cap (Value \X Value)
      /\ Leaves(target) = DOMAIN target \cap (Value \X Value)
  <2>1. DOMAIN tree \subseteq Path /\ DOMAIN source \subseteq Path /\ DOMAIN target \subseteq Path
    BY <1>1 DEF IsForest
  <2> QED BY <2>1, LeavesArePairs
<1>3. Leaves(tree) = Leaves(target) \cup Leaves(source)
  BY <1>1, <1>2
<1>4. \A p \in Leaves(tree) :
        tree[p] = IF p \in Leaves(source) THEN source[p] ELSE target[p]
  BY <1>1, <1>2
<1>5. \A p \in Leaves(tree) : tree[p] \in [status : {"Ok", "Raised"}, timestamp : Nat]
  BY <1>3, <1>4 DEF IsForest
<1>6. \A x \in Value : <<x>> \in DOMAIN tree <=> \E p \in Leaves(tree) : p[1] = x
  BY <1>1, <1>3 DEF IsForest
<1>7. IsForest(tree)
  BY <1>2, <1>5, <1>6 DEF IsForest
<1> QED BY <1>3, <1>4, <1>7 DEF tree

LEMMA GatheredForest ==
  ASSUME Inv, NEW v \in Coordinates, NEW root, Found(v) # {} => root \in Found(v)
  PROVE  Gathers(Gathered(v, root, Found(v)), v, root)
<1> DEFINE forest == Gathered(v, root, Found(v))
<1>1. /\ Found(v) \subseteq components /\ DOMAIN indexes = Dimensions /\ Dimensions = {1, 2}
      /\ \A i \in Dimensions : v[i] \in DOMAIN indexes[i] => indexes[i][v[i]] \in Found(v)
      /\ \A r \in components : IsForest(trees[r])
  BY FoundMeans, TwoDimensions DEF Inv, Types, IsTree
<1>2. CASE Found(v) = {}
  <2>1. forest = [components |-> components \cup {root},
                  indexes |-> [indexes EXCEPT ![1] = Inserted(@, v[1], root)],
                  tree |-> NewTree]
    BY <1>2 DEF Gathered
  <2>2. DOMAIN NewTree = {<<>>} /\ <<>> \in Path /\ <<>> \notin Value \X Value
    BY DEF NewTree, Path
  <2>3. Leaves(NewTree) = {}
    BY <2>2, LeavesArePairs
  <2>4. IsForest(NewTree)
    <3>1. \A x \in Value : <<x>> \notin DOMAIN NewTree
      BY <2>2
    <3> QED BY <2>2, <2>3, <3>1 DEF IsForest
  <2>5. /\ DOMAIN indexes[1] \cup {v[1]} = DOMAIN forest.indexes[1]
        /\ \A x \in DOMAIN forest.indexes[1] :
             forest.indexes[1][x] = IF x = v[1] THEN root ELSE indexes[1][x]
        /\ forest.indexes[2] = indexes[2]
    BY <1>1, <2>1 DEF Inserted
  <2>6. v[1] \notin DOMAIN indexes[1]
    BY <1>1, <1>2
  <2>7. ASSUME NEW i \in Dimensions
        PROVE  /\ DOMAIN indexes[i] \subseteq DOMAIN forest.indexes[i]
               /\ DOMAIN forest.indexes[i] \subseteq DOMAIN indexes[i] \cup {v[i]}
               /\ \A x \in DOMAIN forest.indexes[i] :
                    forest.indexes[i][x] =
                      IF x \in DOMAIN indexes[i] /\ indexes[i][x] \notin Found(v)
                      THEN indexes[i][x] ELSE root
    <3>1. CASE i = 1
      BY <1>2, <2>5, <2>6, <3>1
    <3>2. CASE i = 2
      BY <1>2, <2>5, <3>2
    <3> QED BY <1>1, <3>1, <3>2
  <2>8. forest.components = (components \ Found(v)) \cup {root} /\ forest.tree = NewTree
    BY <1>2, <2>1
  <2> HIDE DEF forest
  <2>9. Gathers(forest, v, root)
    BY <1>2, <2>3, <2>4, <2>7, <2>8 DEF Gathers
  <2> QED BY <2>9 DEF forest
<1>3. CASE Found(v) = {root}
  <2>1. forest = [components |-> components, indexes |-> indexes, tree |-> trees[root]]
    BY <1>3 DEF Gathered
  <2>2. root \in components /\ Leaves(trees[root]) = UNION {Leaves(trees[r]) : r \in Found(v)}
    BY <1>1, <1>3
  <2> QED BY <1>1, <1>3, <2>1, <2>2 DEF Gathers
<1>4. CASE Found(v) # {} /\ Found(v) # {root}
  <2>1. PICK other : other # root /\ Found(v) = {root, other}
    BY <1>4, FoundAtMostTwo
  <2> DEFINE source == CHOOSE r \in Found(v) : r # root
  <2>2. source = other
    BY <2>1
  <2>3. forest = [components |-> components \ {source},
                  indexes |-> [i \in Dimensions |-> Redirected(indexes[i], source, root)],
                  tree |-> Merge(trees[root], trees[source])]
    BY <1>4 DEF Gathered, MergeComponents
  <2> HIDE DEF source
  <2>4. root \in components /\ source \in components /\ root # source
    BY <1>1, <2>1, <2>2
  <2>5. /\ IsForest(forest.tree)
        /\ Leaves(forest.tree) = Leaves(trees[root]) \cup Leaves(trees[source])
        /\ \A p \in Leaves(trees[source]) : forest.tree[p] = trees[source][p]
        /\ \A p \in Leaves(trees[root]) \ Leaves(trees[source]) :
             forest.tree[p] = trees[root][p]
    BY <1>1, <2>3, <2>4, MergedForest
  <2>6. \A p \in Leaves(trees[root]) : p \notin Leaves(trees[source])
    BY <2>4, LeavesApart DEF Inv
  <2>7. Leaves(forest.tree) = UNION {Leaves(trees[r]) : r \in Found(v)}
    BY <2>1, <2>2, <2>5
  <2>8. \A r \in Found(v) : \A p \in Leaves(trees[r]) : forest.tree[p] = trees[r][p]
    BY <2>1, <2>2, <2>5, <2>6
  <2>9. forest.components = (components \ Found(v)) \cup {root}
    BY <2>1, <2>2, <2>3, <2>4
  <2>10. ASSUME NEW i \in Dimensions
         PROVE  /\ DOMAIN indexes[i] = DOMAIN forest.indexes[i]
                /\ \A x \in DOMAIN forest.indexes[i] :
                     forest.indexes[i][x] =
                       IF indexes[i][x] \notin Found(v) THEN indexes[i][x] ELSE root
    <3>1. forest.indexes[i] = [x \in DOMAIN indexes[i] |->
                                IF indexes[i][x] = source THEN root ELSE indexes[i][x]]
      BY <2>3 DEF Redirected
    <3> QED BY <2>1, <2>2, <3>1
  <2> HIDE DEF forest
  <2>11. Gathers(forest, v, root)
    BY <2>5, <2>7, <2>8, <2>9, <2>10 DEF Gathers
  <2> QED BY <2>11 DEF forest
<1> QED BY <1>2, <1>3, <1>4

\* What an update does: the values of the alert are one more leaf of the tree at
\* the root, that holds the leaves of those that were found.
Updates(v, status, root) ==
  /\ IF Found(v) = {} THEN root \notin DOMAIN trees ELSE root \in Found(v)
  /\ components' = (components \ Found(v)) \cup {root}
  /\ DOMAIN trees' = components' \cup copy.components
  /\ \A r \in DOMAIN trees' \ {root} : r \in DOMAIN trees /\ trees'[r] = trees[r]
  /\ IsForest(trees'[root])
  /\ Leaves(trees'[root]) = (UNION {Leaves(trees[r]) : r \in Found(v)}) \cup {v}
  /\ trees'[root][v] = TreeItem(status, now)
  /\ \A r \in Found(v) : \A p \in Leaves(trees[r]) \ {v} : trees'[root][p] = trees[r][p]
  /\ DOMAIN indexes' = Dimensions
  /\ \A i \in Dimensions :
       /\ DOMAIN indexes'[i] = DOMAIN indexes[i] \cup {v[i]}
       /\ \A x \in DOMAIN indexes'[i] :
            indexes'[i][x] =
              IF x \in DOMAIN indexes[i] /\ indexes[i][x] \notin Found(v)
              THEN indexes[i][x] ELSE root
  /\ componentsCount' = componentsCount
       + (IF Found(v) = {} THEN 1 ELSE 1 - Cardinality(Found(v)))
  /\ itemsCount' = IF v \in Items THEN itemsCount ELSE itemsCount + 1
  /\ UNCHANGED <<now, config, copy>>


LEMMA UpdateUpdates ==
  ASSUME Inv, NEW alert \in Alerts, NEW status \in Received, Update(alert, status)
  PROVE  \E v \in Coordinates : \E root : Updates(v, StatusOf(status), root)
<1> DEFINE v == config.values[alert]
           path(i) == SubSeq(v, 1, i)
           item == TreeItem(StatusOf(status), now)
           candidates == IF Found(v) = {} THEN Roots \ DOMAIN trees ELSE Found(v)
<1>1. v \in Coordinates
  <2>1. config # NoConfig
    BY DEF Update
  <2>2. config \in Configs
    BY <2>1 DEF Inv, Types
  <2> QED BY <2>2 DEF Coordinates
<1>2. PICK root \in candidates :
        LET forest == Gathered(v, root, Found(v))
            created == {i \in Dimensions : path(i) \notin DOMAIN forest.tree}
            nodes == Merge(forest.tree, [p \in {path(i) : i \in created} |-> NewItem])
            tree == Inserted(nodes, v, item)
        IN /\ components' = forest.components
           /\ indexes' = [i \in Dimensions |->
                           IF i \in created THEN Inserted(forest.indexes[i], v[i], root)
                                            ELSE forest.indexes[i]]
           /\ componentsCount' = componentsCount
                + (IF Found(v) = {} THEN 1 ELSE 1 - Cardinality(Found(v)))
           /\ itemsCount' = IF 2 \in created THEN itemsCount + 1 ELSE itemsCount
           /\ trees' = Held(Inserted(trees, root, tree), forest.components, copy.components)
  BY DEF Update, Found
<1>3. UNCHANGED <<now, config, copy>>
  BY DEF Update
<1> DEFINE forest == Gathered(v, root, Found(v))
           created == {i \in Dimensions : path(i) \notin DOMAIN forest.tree}
           nodes == Merge(forest.tree, [p \in {path(i) : i \in created} |-> NewItem])
           tree == Inserted(nodes, v, item)
<1>4. /\ components' = forest.components
      /\ indexes' = [i \in Dimensions |->
                      IF i \in created THEN Inserted(forest.indexes[i], v[i], root)
                                       ELSE forest.indexes[i]]
      /\ componentsCount' = componentsCount
           + (IF Found(v) = {} THEN 1 ELSE 1 - Cardinality(Found(v)))
      /\ itemsCount' = IF 2 \in created THEN itemsCount + 1 ELSE itemsCount
      /\ trees' = Held(Inserted(trees, root, tree), forest.components, copy.components)
  BY <1>2
<1>5. IF Found(v) = {} THEN root \notin DOMAIN trees ELSE root \in Found(v)
  BY <1>2
<1>6. Gathers(forest, v, root)
  BY <1>1, <1>5, GatheredForest
<1>7. /\ item \in [status : {"Ok", "Raised"}, timestamp : Nat]
      /\ Dimensions = {1, 2} /\ v \in Value \X Value /\ v[1] \in Value
      /\ path(1) = <<v[1]>> /\ path(2) = v
  BY <1>1, CoordinatesForm, TwoDimensions DEF Inv, Types, TreeItem, StatusOf
<1> HIDE DEF v, item, candidates, path
<1>8. /\ Found(v) \subseteq components
      /\ \A i \in Dimensions : v[i] \in DOMAIN indexes[i] => indexes[i][v[i]] \in Found(v)
      /\ \A r \in components : \A p \in Leaves(trees[r]) : Linked(p, v) => r \in Found(v)
  BY FoundMeans DEF Inv
<1>9. /\ DOMAIN forest.tree \subseteq Path
      /\ Leaves(forest.tree) = DOMAIN forest.tree \cap (Value \X Value)
      /\ \A p \in Leaves(forest.tree) :
           forest.tree[p] \in [status : {"Ok", "Raised"}, timestamp : Nat]
      /\ \A x \in Value : <<x>> \in DOMAIN forest.tree <=> \E p \in Leaves(forest.tree) : p[1] = x
  <2> HIDE DEF forest
  <2>1. IsForest(forest.tree)
    BY <1>6 DEF Gathers
  <2> QED BY <2>1, LeavesArePairs DEF IsForest
<1> HIDE DEF forest
<1>10. 1 \in created <=> <<v[1]>> \notin DOMAIN forest.tree
  BY <1>7
<1>11. 2 \in created <=> v \notin DOMAIN forest.tree
  BY <1>7
\* The tree.
<1>12. DOMAIN tree = DOMAIN forest.tree \cup {<<v[1]>>, v}
  <2>1. DOMAIN tree = DOMAIN forest.tree \cup {path(i) : i \in created} \cup {v}
    BY DEF Inserted, Merge
  <2> QED BY <1>7, <2>1
<1>13. \A p \in DOMAIN tree : tree[p] = IF p = v THEN item
                                        ELSE IF p \in DOMAIN forest.tree THEN forest.tree[p]
                                        ELSE NewItem
  BY DEF Inserted, Merge
<1> HIDE DEF tree
<1>14. /\ DOMAIN tree \subseteq Path
       /\ Leaves(tree) = Leaves(forest.tree) \cup {v}
  <2>1. DOMAIN tree \subseteq Path
    BY <1>7, <1>9, <1>12, PathForms
  <2>2. Leaves(tree) = DOMAIN tree \cap (Value \X Value)
    BY <2>1, LeavesArePairs
  <2>3. <<v[1]>> \notin Value \X Value
    BY <1>7, PathForms
  <2> QED BY <1>7, <1>9, <1>12, <2>1, <2>2, <2>3
<1>15. \A p \in Leaves(tree) : tree[p] = IF p = v THEN item ELSE forest.tree[p]
  <2>1. Leaves(tree) \subseteq DOMAIN tree
    BY DEF Leaves
  <2> QED BY <1>9, <1>13, <1>14, <2>1
<1>16. IsForest(tree)
  <2>1. \A p \in Leaves(tree) : tree[p] \in [status : {"Ok", "Raised"}, timestamp : Nat]
    BY <1>7, <1>9, <1>14, <1>15
  <2>2. ASSUME NEW x \in Value
        PROVE  <<x>> \in DOMAIN tree <=> \E p \in Leaves(tree) : p[1] = x
    <3>1. <<x>> # v
      BY <1>7, PathForms
    <3>2. <<x>> = <<v[1]>> <=> x = v[1]
      OBVIOUS
    <3> QED BY <1>9, <1>12, <1>14, <3>1, <3>2
  <2> QED BY <1>14, <2>1, <2>2 DEF IsForest
\* The indexes.
<1>17. ASSUME NEW i \in Dimensions, i \notin created
       PROVE  v[i] \in DOMAIN indexes[i]
  <2>1. PICK p \in Leaves(forest.tree) : p[i] = v[i]
    <3>1. CASE i = 1
      BY <1>7, <1>9, <1>10, <1>17, <3>1
    <3>2. CASE i = 2
      BY <1>7, <1>9, <1>11, <1>17, <3>2
    <3> QED BY <1>7, <3>1, <3>2
  <2>2. PICK r \in Found(v) : p \in Leaves(trees[r])
    BY <1>6 DEF Gathers
  <2> QED BY <1>8, <2>1, <2>2, IndexesMean DEF Inv
<1>18. ASSUME NEW i \in Dimensions
       PROVE  /\ DOMAIN indexes'[i] = DOMAIN indexes[i] \cup {v[i]}
              /\ \A x \in DOMAIN indexes'[i] :
                   indexes'[i][x] =
                     IF x \in DOMAIN indexes[i] /\ indexes[i][x] \notin Found(v)
                     THEN indexes[i][x] ELSE root
  <2>1. /\ DOMAIN indexes[i] \subseteq DOMAIN forest.indexes[i]
        /\ DOMAIN forest.indexes[i] \subseteq DOMAIN indexes[i] \cup {v[i]}
        /\ \A x \in DOMAIN forest.indexes[i] :
             forest.indexes[i][x] =
               IF x \in DOMAIN indexes[i] /\ indexes[i][x] \notin Found(v)
               THEN indexes[i][x] ELSE root
    BY <1>6 DEF Gathers
  <2>2. CASE i \in created
    <3>1. indexes'[i] = [k \in DOMAIN forest.indexes[i] \cup {v[i]} |->
                          IF k = v[i] THEN root ELSE forest.indexes[i][k]]
      BY <1>4, <2>2 DEF Inserted
    <3> HIDE DEF created
    <3> QED BY <1>8, <2>1, <3>1
  <2>3. CASE i \notin created
    <3>1. indexes'[i] = forest.indexes[i]
      BY <1>4, <2>3
    <3>2. v[i] \in DOMAIN indexes[i]
      BY <1>17, <2>3
    <3> HIDE DEF created
    <3> QED BY <2>1, <3>1, <3>2
  <2> QED BY <2>2, <2>3
<1>19. 2 \in created <=> v \notin Items
  <2>1. v \in DOMAIN forest.tree <=> v \in Leaves(forest.tree)
    BY <1>7, <1>9
  <2>2. Linked(v, v)
    BY <1>7 DEF Linked
  <2>3. v \in Leaves(forest.tree) <=> \E r \in Found(v) : v \in Leaves(trees[r])
    BY <1>6 DEF Gathers
  <2>4. v \in Items <=> \E r \in Found(v) : v \in Leaves(trees[r])
    BY <1>8, <2>2 DEF Items
  <2> QED BY <1>11, <2>1, <2>3, <2>4
<1>20. /\ forest.components = (components \ Found(v)) \cup {root}
       /\ Leaves(forest.tree) = UNION {Leaves(trees[r]) : r \in Found(v)}
       /\ \A r \in Found(v) : \A p \in Leaves(trees[r]) : forest.tree[p] = trees[r][p]
  BY <1>6 DEF Gathers
\* The memory.
<1>21. /\ DOMAIN trees' = components' \cup copy.components
       /\ root \in DOMAIN trees' /\ trees'[root] = tree
       /\ \A r \in DOMAIN trees' \ {root} : r \in DOMAIN trees /\ trees'[r] = trees[r]
  <2>1. trees' = [r \in components' \cup copy.components |-> Inserted(trees, root, tree)[r]]
    BY <1>4 DEF Held
  <2>2. Inserted(trees, root, tree) = [r \in DOMAIN trees \cup {root} |->
                                        IF r = root THEN tree ELSE trees[r]]
    BY DEF Inserted
  <2>3. components' \cup copy.components \subseteq DOMAIN trees \cup {root}
    BY <1>4, <1>20 DEF Inv, Types
  <2>4. root \in components'
    BY <1>4, <1>20
  <2> QED BY <2>1, <2>2, <2>3, <2>4
<1>22. /\ components' = (components \ Found(v)) \cup {root}
       /\ IsForest(trees'[root])
       /\ Leaves(trees'[root]) = (UNION {Leaves(trees[r]) : r \in Found(v)}) \cup {v}
       /\ trees'[root][v] = item
       /\ \A r \in Found(v) : \A p \in Leaves(trees[r]) \ {v} : trees'[root][p] = trees[r][p]
  BY <1>4, <1>14, <1>15, <1>16, <1>20, <1>21
<1>23. DOMAIN indexes' = Dimensions
  BY <1>4
<1>24. itemsCount' = IF v \in Items THEN itemsCount ELSE itemsCount + 1
  BY <1>4, <1>19
<1>25. componentsCount' = componentsCount
         + (IF Found(v) = {} THEN 1 ELSE 1 - Cardinality(Found(v)))
  BY <1>4
<1>26. item = TreeItem(StatusOf(status), now)
  BY DEF item
<1> HIDE DEF created, nodes
<1>27. Updates(v, StatusOf(status), root)
  BY <1>3, <1>5, <1>18, <1>21, <1>22, <1>23, <1>24, <1>25, <1>26 DEF Updates
<1> QED BY <1>1, <1>27

\* The leaves of the tree at the root, when there were none, one or two trees.
LEMMA UpdatedTree ==
  ASSUME Inv, NEW v \in Coordinates, NEW status \in {"Ok", "Raised"}, NEW root,
         Updates(v, status, root)
  PROVE  IsTree(trees'[root]) /\ Connected(Leaves(trees'[root]))
<1> DEFINE leaves == Leaves(trees'[root])
<1>1. /\ Found(v) \subseteq components
      /\ \A r \in Found(v) : \E p \in Leaves(trees[r]) : Linked(p, v) /\ Linked(v, p)
  BY FoundMeans DEF Inv
<1>2. \A r \in components : Connected(Leaves(trees[r]))
  BY DEF Inv, TreesConnected
<1>3. leaves = (UNION {Leaves(trees[r]) : r \in Found(v)}) \cup {v} /\ IsForest(trees'[root])
  BY DEF Updates
<1> HIDE DEF leaves
<1>4. ASSUME NEW r \in Found(v)
      PROVE  Connected(Leaves(trees[r]) \cup {v})
  <2>1. PICK p \in Leaves(trees[r]) : Linked(p, v) /\ Linked(v, p)
    BY <1>1
  <2>2. Connected(Leaves(trees[r]))
    BY <1>1, <1>2
  <2> QED BY <2>1, <2>2, AddConnected
<1>5. Connected(leaves)
  <2>1. CASE Found(v) = {}
    <3>1. leaves = {v}
      BY <1>3, <2>1
    <3> QED BY <3>1, SingletonConnected
  <2>2. CASE Found(v) = {root}
    <3>1. leaves = Leaves(trees[root]) \cup {v}
      BY <1>3, <2>2
    <3> QED BY <1>4, <2>2, <3>1
  <2>3. CASE Found(v) # {} /\ Found(v) # {root}
    <3>1. root \in Found(v)
      BY <2>3 DEF Updates
    <3>2. PICK other : other # root /\ Found(v) = {root, other}
      BY <2>3, <3>1, FoundAtMostTwo
    <3> DEFINE A == Leaves(trees[root]) \cup {v}
               B == Leaves(trees[other]) \cup {v}
    <3>3. leaves = A \cup B /\ v \in A /\ v \in B
      BY <1>3, <3>2
    <3>4. Connected(A) /\ Connected(B)
      BY <1>4, <3>2
    <3> HIDE DEF A, B
    <3>5. Connected(A \cup B)
      BY <3>3, <3>4, JoinConnected
    <3> QED BY <3>3, <3>5
  <2> QED BY <2>1, <2>2, <2>3
<1>6. v \in leaves
  BY <1>3
<1> QED BY <1>3, <1>5, <1>6 DEF IsTree, leaves

\* The other trees are left alone.
LEMMA OtherTrees ==
  ASSUME Inv, NEW v, NEW status, NEW root, Updates(v, status, root)
  PROVE  /\ root \in components' /\ root \in DOMAIN trees'
         /\ components' \subseteq DOMAIN trees'
         /\ components' \ {root} = components \ (Found(v) \cup {root})
         /\ \A r \in components' \ {root} : trees'[r] = trees[r] /\ r \in components
         /\ root \notin Found(v) => root \notin components
         /\ Items' = Items \cup {v}
<1>1. /\ IF Found(v) = {} THEN root \notin DOMAIN trees ELSE root \in Found(v)
      /\ components' = (components \ Found(v)) \cup {root}
      /\ DOMAIN trees' = components' \cup copy.components
      /\ \A r \in DOMAIN trees' \ {root} : r \in DOMAIN trees /\ trees'[r] = trees[r]
      /\ Leaves(trees'[root]) = (UNION {Leaves(trees[r]) : r \in Found(v)}) \cup {v}
  BY DEF Updates
<1>2. DOMAIN trees = components \cup copy.components /\ Found(v) \subseteq components
  BY FoundMeans DEF Inv, Types
<1>3. \A r \in components' \ {root} : trees'[r] = trees[r] /\ r \in components
  BY <1>1, <1>2
<1>4. ASSUME NEW p
      PROVE  p \in Items' <=> p \in Items \cup {v}
  <2>1. p \in Items' <=> \E r \in components' : p \in Leaves(trees'[r])
    BY DEF Items
  <2>2. p \in Items <=> \E r \in components : p \in Leaves(trees[r])
    BY DEF Items
  <2>3. p \in Leaves(trees'[root]) <=> p = v \/ \E r \in Found(v) : p \in Leaves(trees[r])
    BY <1>1
  <2> QED BY <1>1, <1>2, <1>3, <2>1, <2>2, <2>3
<1>5. Items' = Items \cup {v}
  BY <1>4
<1> QED BY <1>1, <1>2, <1>3, <1>5

LEMMA UpdatedIndexes ==
  ASSUME Inv, NEW v \in Coordinates, NEW status, NEW root, Updates(v, status, root),
         NEW i \in Dimensions
  PROVE  /\ DOMAIN indexes'[i] = {p[i] : p \in Items'}
         /\ \A r \in components' : \A p \in Leaves(trees'[r]) : indexes'[i][p[i]] = r
<1>1. /\ DOMAIN indexes'[i] = DOMAIN indexes[i] \cup {v[i]}
      /\ \A x \in DOMAIN indexes'[i] :
           indexes'[i][x] = IF x \in DOMAIN indexes[i] /\ indexes[i][x] \notin Found(v)
                            THEN indexes[i][x] ELSE root
      /\ Leaves(trees'[root]) = (UNION {Leaves(trees[r]) : r \in Found(v)}) \cup {v}
  BY DEF Updates
<1>2. DOMAIN indexes[i] = {p[i] : p \in Items}
  BY DEF Inv, IndexesExact
<1>3. /\ Found(v) \subseteq components
      /\ v[i] \in DOMAIN indexes[i] => indexes[i][v[i]] \in Found(v)
      /\ \A r \in components : \A p \in Leaves(trees[r]) :
           p[i] \in DOMAIN indexes[i] /\ indexes[i][p[i]] = r
  BY FoundMeans, IndexesMean DEF Inv
<1>4. DOMAIN indexes'[i] = {p[i] : p \in Items'}
  <2>1. Items' = Items \cup {v}
    BY OtherTrees
  <2> QED BY <1>1, <1>2, <2>1
<1>5. ASSUME NEW p \in Leaves(trees'[root])
      PROVE  indexes'[i][p[i]] = root
  <2>1. CASE p = v
    BY <1>1, <1>3, <2>1
  <2>2. CASE p # v
    <3>1. PICK r \in Found(v) : p \in Leaves(trees[r])
      BY <1>1, <2>2
    <3> QED BY <1>1, <1>3, <3>1
  <2> QED BY <2>1, <2>2
<1>6. ASSUME NEW r \in components' \ {root}, NEW p \in Leaves(trees'[r])
      PROVE  indexes'[i][p[i]] = r
  <2>1. r \in components /\ r \notin Found(v) /\ trees'[r] = trees[r]
    BY OtherTrees
  <2> QED BY <1>1, <1>3, <2>1
<1> QED BY <1>4, <1>5, <1>6

LEMMA UpdatedCounts ==
  ASSUME Inv, NEW v \in Coordinates, NEW status, NEW root, Updates(v, status, root)
  PROVE  /\ IsFiniteSet(components') /\ componentsCount' = Cardinality(components')
         /\ IsFiniteSet(Items') /\ itemsCount' = Cardinality(Items')
<1>1. /\ IF Found(v) = {} THEN root \notin DOMAIN trees ELSE root \in Found(v)
      /\ components' = (components \ Found(v)) \cup {root}
      /\ componentsCount' = componentsCount
           + (IF Found(v) = {} THEN 1 ELSE 1 - Cardinality(Found(v)))
      /\ itemsCount' = IF v \in Items THEN itemsCount ELSE itemsCount + 1
  BY DEF Updates
<1>2. /\ IsFiniteSet(components) /\ Found(v) \subseteq components
      /\ componentsCount = Cardinality(components) /\ itemsCount = Cardinality(Items)
      /\ components \subseteq DOMAIN trees /\ Cardinality(components) \in Nat
  BY FoundMeans, FS_CardinalityType DEF Inv, Types, IndexesExact
<1>3. IsFiniteSet(components') /\ componentsCount' = Cardinality(components')
  <2>1. CASE Found(v) = {}
    <3>1. components' = components \cup {root} /\ root \notin components
      BY <1>1, <1>2, <2>1
    <3> QED BY <1>1, <1>2, <2>1, <3>1, FS_AddElement
  <2>2. CASE Found(v) = {root}
    <3>1. components' = components
      BY <1>1, <1>2, <2>2
    <3>2. Cardinality({root}) = 1
      BY FS_Singleton
    <3>3. componentsCount' = Cardinality(components) + (1 - 1)
      BY <1>1, <1>2, <2>2, <3>2
    <3> QED BY <1>2, <3>1, <3>3
  <2>3. CASE Found(v) # {} /\ Found(v) # {root}
    <3>1. PICK other : other # root /\ Found(v) = {root, other}
      BY <1>1, <2>3, FoundAtMostTwo
    <3>2. components' = components \ {other} /\ other \in components
      BY <1>1, <1>2, <3>1
    <3>3. Cardinality(Found(v)) = 2
      <4>1. Cardinality({root}) = 1 /\ IsFiniteSet({root})
        BY FS_Singleton
      <4>2. Cardinality({root} \cup {other}) = 1 + 1
        BY <3>1, <4>1, FS_AddElement
      <4>3. Found(v) = {root} \cup {other}
        BY <3>1
      <4> QED BY <4>2, <4>3
    <3>4. componentsCount' = Cardinality(components) + (1 - 2)
      BY <1>1, <1>2, <2>3, <3>3
    <3>5. /\ IsFiniteSet(components \ {other})
          /\ Cardinality(components \ {other}) = Cardinality(components) - 1
      BY <1>2, <3>2, FS_RemoveElement
    <3> QED BY <1>2, <3>2, <3>4, <3>5
  <2> QED BY <2>1, <2>2, <2>3
<1>4. IsFiniteSet(Items)
  BY DEF Inv, Types
<1>5. IsFiniteSet(Items') /\ itemsCount' = Cardinality(Items')
  <2>1. Items' = Items \cup {v}
    BY OtherTrees
  <2> QED BY <1>1, <1>2, <1>4, <2>1, FS_AddElement
<1> QED BY <1>3, <1>5

-----------------------------------------------------------------------------
(* The inductive invariant.                                                *)

LEMMA InitInv == Init => Inv
<1> SUFFICES ASSUME Init PROVE Inv
  OBVIOUS
<1>1. /\ now = 0 /\ config \in Configs /\ components = {} /\ componentsCount = 0
      /\ itemsCount = 0 /\ indexes = [i \in Dimensions |-> Empty] /\ trees = Empty
      /\ copy.components = {}
  BY DEF Init, NoCopy
<1>2. DOMAIN Empty = {}
  BY DEF Empty
<1>3. Items = {}
  BY <1>1 DEF Items
<1>4. Types
  BY <1>1, <1>2, <1>3, FS_EmptySet DEF Types
<1>5. IndexesExact
  <2>1. \A i \in Dimensions : DOMAIN indexes[i] = {p[i] : p \in Items}
    BY <1>1, <1>2, <1>3
  <2> QED BY <1>1, <1>3, <2>1, FS_EmptySet DEF IndexesExact
<1> QED BY <1>1, <1>2, <1>4, <1>5 DEF Inv, TreesConnected

\* A gridboard that is cleared is as it began; a copy keeps its trees.
LEMMA ClearedInv ==
  ASSUME Inv, Cleared, UNCHANGED <<now, copy>>, config' \in Configs \cup {NoConfig}
  PROVE  Inv'
<1>1. /\ components' = {} /\ indexes' = [i \in Dimensions |-> Empty]
      /\ componentsCount' = 0 /\ itemsCount' = 0 /\ copy' = copy /\ now' = now
      /\ DOMAIN trees' = copy.components
      /\ \A r \in DOMAIN trees' : trees'[r] = trees[r] /\ r \in DOMAIN trees
  BY DEF Inv, Types, Cleared, Held
<1>2. DOMAIN Empty = {}
  BY DEF Empty
<1>4. Items' = {}
  BY <1>1 DEF Items
<1>3. Types'
  BY <1>1, <1>4, FS_EmptySet DEF Inv, Types
<1>5. IndexesExact'
  <2>1. \A i \in Dimensions : DOMAIN indexes'[i] = {p[i] : p \in Items'}
    BY <1>1, <1>2, <1>4
  <2> QED BY <1>1, <1>4, <2>1, FS_EmptySet DEF IndexesExact
<1>6. \A r \in DOMAIN trees' : IsTree(trees'[r])
  BY <1>1 DEF Inv
<1>7. TreesConnected'
  BY <1>1 DEF TreesConnected
<1> QED BY <1>3, <1>5, <1>6, <1>7 DEF Inv

\* A step that keeps the forest, and frees at most trees that it does not hold.
LEMMA ForestKeptInv ==
  ASSUME Inv, UNCHANGED <<components, indexes, componentsCount, itemsCount>>,
         now' \in Nat, config' \in Configs \cup {NoConfig},
         DOMAIN trees' = components \cup copy'.components,
         \A r \in DOMAIN trees' : r \in DOMAIN trees /\ trees'[r] = trees[r]
  PROVE  Inv' /\ Items' = Items
<1>1. \A r \in components : trees'[r] = trees[r]
  OBVIOUS
<1>2. Items' = Items
  BY <1>1 DEF Items
<1>3. Types'
  BY <1>2 DEF Inv, Types
<1>4. IndexesExact'
  BY <1>1, <1>2 DEF Inv, IndexesExact
<1>5. \A r \in DOMAIN trees' : IsTree(trees'[r])
  BY DEF Inv
<1>6. TreesConnected'
  BY <1>1 DEF Inv, TreesConnected
<1> QED BY <1>2, <1>3, <1>4, <1>5, <1>6 DEF Inv

LEMMA UpdateInv ==
  ASSUME Inv, NEW v \in Coordinates, NEW status \in {"Ok", "Raised"}, NEW root,
         Updates(v, status, root)
  PROVE  Inv'
<1>1. /\ DOMAIN trees' = components' \cup copy.components
      /\ \A r \in DOMAIN trees' \ {root} : r \in DOMAIN trees /\ trees'[r] = trees[r]
      /\ DOMAIN indexes' = Dimensions /\ UNCHANGED <<now, config, copy>>
  BY DEF Updates
<1>2. Types'
  BY <1>1, UpdatedCounts DEF Inv, Types
<1>3. \A r \in DOMAIN trees' : IsTree(trees'[r])
  BY <1>1, UpdatedTree DEF Inv
<1>4. IndexesExact'
  BY UpdatedIndexes, UpdatedCounts DEF IndexesExact
<1>5. TreesConnected'
  BY UpdatedTree, OtherTrees DEF Inv, TreesConnected
<1> QED BY <1>2, <1>3, <1>4, <1>5 DEF Inv

\* A step that leaves the trees alone, but for those that it frees.
TreesKept ==
  /\ UNCHANGED components
  /\ \A r \in DOMAIN trees' : r \in DOMAIN trees /\ trees'[r] = trees[r]
  /\ copy' = copy => copy.components \subseteq DOMAIN trees'

LEMMA ReadInv ==
  ASSUME Inv, GetGridboard \/ DropCopy
  PROVE  Inv' /\ TreesKept /\ UNCHANGED now
<1>1. /\ DOMAIN trees = components \cup copy.components
      /\ now \in Nat /\ config \in Configs \cup {NoConfig}
  BY DEF Inv, Types
<1>2. /\ UNCHANGED <<components, indexes, componentsCount, itemsCount>>
      /\ UNCHANGED <<now, config>>
  BY DEF GetGridboard, DropCopy, boardVars
<1>3. /\ DOMAIN trees' = components \cup copy'.components
      /\ \A r \in DOMAIN trees' : r \in DOMAIN trees /\ trees'[r] = trees[r]
  <2>1. CASE GetGridboard
    BY <1>1, <2>1 DEF GetGridboard, Held
  <2>2. CASE DropCopy
    <3>1. copy'.components = {}
      BY <2>2 DEF DropCopy, NoCopy
    <3> QED BY <1>1, <2>2, <3>1 DEF DropCopy, Held
  <2> QED BY <2>1, <2>2
<1>4. now' \in Nat /\ config' \in Configs \cup {NoConfig}
  BY <1>1, <1>2
<1>5. Inv'
  BY <1>2, <1>3, <1>4, ForestKeptInv
<1>6. TreesKept
  BY <1>2, <1>3 DEF TreesKept
<1> QED BY <1>2, <1>5, <1>6

\* What each step does.
Step ==
  \/ \E v \in Coordinates, status \in {"Ok", "Raised"} : \E root : Updates(v, status, root)
  \/ Cleared /\ UNCHANGED <<now, copy>>
  \/ TreesKept /\ (now' = now \/ now' = now + 1)

LEMMA NextStep ==
  ASSUME Inv, [Next]_vars
  PROVE  Inv' /\ Step
<1>1. ASSUME NEW alert \in Alerts, NEW status \in Received, Update(alert, status)
      PROVE  Inv' /\ Step
  <2>1. PICK v \in Coordinates : \E root : Updates(v, StatusOf(status), root)
    BY <1>1, UpdateUpdates
  <2>2. StatusOf(status) \in {"Ok", "Raised"}
    BY DEF StatusOf
  <2>3. Inv'
    BY <2>1, <2>2, UpdateInv
  <2> QED BY <2>1, <2>2, <2>3 DEF Step
<1>2. CASE ClearGridboard
  <2>1. Cleared /\ UNCHANGED <<now, copy>> /\ config' \in Configs \cup {NoConfig}
    BY <1>2 DEF ClearGridboard, Inv, Types
  <2>2. Inv'
    BY <2>1, ClearedInv
  <2> QED BY <2>1, <2>2 DEF Step
<1>3. ASSUME NEW c \in Configs \cup {NoConfig}, SetConfig(c)
      PROVE  Inv' /\ Step
  <2>1. UNCHANGED <<now, copy>> /\ config' \in Configs \cup {NoConfig}
    BY <1>3 DEF SetConfig
  <2>2. CASE Cleared
    <3>1. Inv'
      BY <2>1, <2>2, ClearedInv
    <3> QED BY <2>1, <2>2, <3>1 DEF Step
  <2>3. CASE UNCHANGED <<components, indexes, componentsCount, itemsCount, trees>>
    <3>1. /\ now' \in Nat /\ DOMAIN trees' = components \cup copy'.components
          /\ \A r \in DOMAIN trees' : r \in DOMAIN trees /\ trees'[r] = trees[r]
      BY <2>1, <2>3 DEF Inv, Types
    <3>2. Inv'
      BY <2>1, <2>3, <3>1, ForestKeptInv
    <3>3. TreesKept
      BY <2>1, <2>3, <3>1 DEF TreesKept
    <3> QED BY <2>1, <3>2, <3>3 DEF Step
  <2> QED BY <1>3, <2>2, <2>3 DEF SetConfig
<1>4. CASE GetGridboard \/ DropCopy
  <2>1. Inv' /\ TreesKept /\ UNCHANGED now
    BY <1>4, ReadInv
  <2> QED BY <2>1 DEF Step
<1>5. CASE Tick \/ UNCHANGED vars
  <2>1. /\ UNCHANGED <<components, indexes, componentsCount, itemsCount>>
        /\ UNCHANGED <<config, trees, copy>> /\ (now' = now \/ now' = now + 1)
    BY <1>5 DEF Tick, vars, boardVars
  <2>2. /\ now' \in Nat /\ config' \in Configs \cup {NoConfig}
        /\ DOMAIN trees' = components \cup copy'.components
        /\ \A r \in DOMAIN trees' : r \in DOMAIN trees /\ trees'[r] = trees[r]
    BY <2>1 DEF Inv, Types
  <2>3. Inv'
    BY <2>1, <2>2, ForestKeptInv
  <2>4. TreesKept
    BY <2>1, <2>2 DEF TreesKept
  <2> QED BY <2>1, <2>3, <2>4 DEF Step
<1> QED BY <1>1, <1>2, <1>3, <1>4, <1>5 DEF Next

LEMMA InvAlways == Spec => []Inv
<1>1. Init => Inv
  BY InitInv
<1>2. Inv /\ [Next]_vars => Inv'
  BY NextStep
<1> QED BY <1>1, <1>2, PTL DEF Spec

-----------------------------------------------------------------------------
(* What readers get.                                                       *)

\* The table of a tree has a cell for each of its items, and says nothing of others.
LEMMA TableShowsItems ==
  ASSUME now \in Nat, NEW tree, IsTree(tree), NEW p \in Coordinates
  PROVE  Rendered(p, Table(tree, 1)) <=> p \in Leaves(tree)
<1> DEFINE rows == {q[1] : q \in {x \in DOMAIN tree : Len(x) = 1}}
           columns == {q[2] : q \in Leaves(tree)}
           table == Table(tree, 1)
<1>1. table = [cell \in rows \X columns |->
                IF cell \in DOMAIN tree THEN StatusShown(tree[cell], 1) ELSE "Unknown"]
  BY DEF Table
<1>2. p \in Value \X Value /\ p = <<p[1], p[2]>> /\ p[1] \in Value
  BY CoordinatesForm
<1>3. /\ p \in Leaves(tree) <=> p \in DOMAIN tree
      /\ \A x \in Value : <<x>> \in DOMAIN tree <=> \E q \in Leaves(tree) : q[1] = x
      /\ \A q \in Leaves(tree) : tree[q] \in [status : {"Ok", "Raised"}, timestamp : Nat]
  BY <1>2, LeavesArePairs DEF IsTree, IsForest
<1>4. ASSUME p \in Leaves(tree)
      PROVE  p \in rows \X columns /\ StatusShown(tree[p], 1) # "Unknown"
  <2>1. <<p[1]>> \in DOMAIN tree /\ Len(<<p[1]>>) = 1 /\ <<p[1]>>[1] = p[1]
    BY <1>2, <1>3, <1>4, PathForms
  <2>2. p[1] \in rows /\ p[2] \in columns
    BY <1>4, <2>1
  <2>3. p \in rows \X columns
    BY <1>2, <2>2
  <2>4. tree[p].status \in {"Ok", "Raised"}
    BY <1>3, <1>4
  <2> QED BY <2>3, <2>4 DEF StatusShown
<1> HIDE DEF rows, columns
<1>5. Rendered(p, table) <=>
        /\ p \in rows \X columns
        /\ (IF p \in DOMAIN tree THEN StatusShown(tree[p], 1) ELSE "Unknown") # "Unknown"
  BY <1>1 DEF Rendered
<1> QED BY <1>3, <1>4, <1>5

\* For any alerts, configurations and addresses, whatever is merged, cleared and
\* copied: there is one tree for each connected component, found by the indexes
\* and shown whole, and the counters are exact (Gridboard::update, clear, toHtml).
THEOREM ForestAlwaysExact == Spec => []ForestIsExact
<1>1. ASSUME Inv
      PROVE  OneTreePerComponent
  <2>1. ASSUME NEW r \in components, NEW s \in components, r # s,
               NEW p \in Leaves(trees[r]), NEW q \in Leaves(trees[s]), Linked(p, q)
        PROVE  FALSE
    <3>1. PICK i \in Dimensions : p[i] = q[i]
      BY <2>1 DEF Linked
    <3> QED BY <1>1, <2>1, <3>1, IndexesMean DEF Inv
  <2> QED BY <1>1, <2>1 DEF OneTreePerComponent, Inv, TreesConnected, Connected
<1>2. ASSUME Inv
      PROVE  EveryItemRenderedOnce
  <2> DEFINE html == ToHtml(components, 1)
  <2>1. SUFFICES ASSUME NEW p \in Coordinates
                 PROVE  Cardinality({r \in components : Rendered(p, html[r])})
                          = IF p \in Items THEN 1 ELSE 0
    BY DEF EveryItemRenderedOnce, Coordinates
  <2>2. \A r \in components : html[r] = Table(trees[r], 1)
    BY DEF ToHtml
  <2> HIDE DEF html
  <2>3. now \in Nat /\ \A r \in components : IsTree(trees[r])
    BY <1>2 DEF Inv, Types
  <2>4. \A r \in components : Rendered(p, html[r]) <=> p \in Leaves(trees[r])
    BY <2>2, <2>3, TableShowsItems
  <2> DEFINE holders == {r \in components : Rendered(p, html[r])}
  <2>5. CASE p \in Items
    <3>1. PICK r \in components : p \in Leaves(trees[r])
      BY <2>5 DEF Items
    <3>2. holders = {r}
      BY <1>2, <2>4, <3>1, LeavesApart DEF Inv
    <3> HIDE DEF holders
    <3>3. Cardinality(holders) = 1
      BY <3>2, FS_Singleton
    <3> QED BY <2>5, <3>3 DEF holders
  <2>6. CASE p \notin Items
    <3>1. holders = {}
      BY <2>4, <2>6 DEF Items
    <3> HIDE DEF holders
    <3>2. Cardinality(holders) = 0
      BY <3>1, FS_EmptySet
    <3> QED BY <2>6, <3>2 DEF holders
  <2> QED BY <2>5, <2>6
<1>3. Inv => ForestIsExact
  BY <1>1, <1>2 DEF ForestIsExact, Inv
<1> QED BY <1>3, InvAlways, PTL

\* For any alerts, configurations and addresses: while the gridboard goes on, no
\* item disappears from a copy that is rendered without the lock (Alerter::gridboard).
THEOREM CopiesKeepItems == Spec => CopyKeepsItsItems
<1>1. ASSUME Inv, [Next]_vars, copy' = copy
      PROVE  CopiedItems \subseteq CopiedItems'
  <2>1. DOMAIN trees = components \cup copy.components
    BY <1>1 DEF Inv, Types
  <2>2. CopiedItems' = UNION {Leaves(trees'[r]) : r \in copy.components}
    BY <1>1 DEF CopiedItems
  <2>3. ASSUME NEW r \in copy.components
        PROVE  Leaves(trees[r]) \subseteq Leaves(trees'[r])
    <3>1. ASSUME NEW v, NEW status, NEW root, Updates(v, status, root)
          PROVE  Leaves(trees[r]) \subseteq Leaves(trees'[r])
      <4>1. CASE r = root
        BY <2>1, <3>1, <4>1 DEF Updates
      <4>2. CASE r # root
        BY <3>1, <4>2 DEF Updates
      <4> QED BY <4>1, <4>2
    <3>2. CASE Cleared
      BY <3>2 DEF Cleared, Held
    <3>3. CASE TreesKept
      BY <1>1, <3>3 DEF TreesKept
    <3> QED BY <1>1, <3>1, <3>2, <3>3, NextStep DEF Step
  <2> QED BY <2>2, <2>3 DEF CopiedItems
<1>2. Inv /\ [Next]_vars => [copy' = copy => CopiedItems \subseteq CopiedItems']_vars
  BY <1>1
<1> QED BY <1>2, InvAlways, PTL DEF Spec, CopyKeepsItsItems

\* What is shown of an item is what its only tree says.
LEMMA ShownMeans ==
  ASSUME NEW roots, NEW memory,
         \A r, s \in roots : \A p \in Leaves(memory[r]) : p \in Leaves(memory[s]) => r = s,
         NEW r \in roots, NEW p \in Leaves(memory[r])
  PROVE  memory[CHOOSE s \in roots : p \in Leaves(memory[s])][p] = memory[r][p]
<1> DEFINE other == CHOOSE s \in roots : p \in Leaves(memory[s])
<1>1. other \in roots /\ p \in Leaves(memory[other])
  OBVIOUS
<1> HIDE DEF other
<1>2. other = r
  BY <1>1
<1> QED BY <1>2 DEF other

\* In every reachable state, and in the next one.
LEMMA ShownNow ==
  ASSUME Inv
  PROVE  /\ Shown = [p \in Items |-> Shown[p]]
         /\ \A p \in Items : \E r \in components : p \in Leaves(trees[r])
         /\ \A r \in components : \A p \in Leaves(trees[r]) :
              p \in Items /\ Shown[p] = trees[r][p]
<1>1. \A r, s \in components : \A p \in Leaves(trees[r]) : p \in Leaves(trees[s]) => r = s
  BY LeavesApart DEF Inv
<1>2. ASSUME NEW r \in components, NEW p \in Leaves(trees[r])
      PROVE  p \in Items /\ Shown[p] = trees[r][p]
  <2>1. p \in Items
    BY DEF Items
  <2>2. Shown[p] = trees[CHOOSE s \in components : p \in Leaves(trees[s])][p]
    BY <2>1 DEF Shown
  <2> QED BY <1>1, <2>1, <2>2, ShownMeans
<1> QED BY <1>2 DEF Shown, Items

LEMMA ShownNext ==
  ASSUME Inv'
  PROVE  /\ Shown' = [p \in Items' |-> Shown'[p]]
         /\ \A p \in Items' : \E r \in components' : p \in Leaves(trees'[r])
         /\ \A r \in components' : \A p \in Leaves(trees'[r]) :
              p \in Items' /\ Shown'[p] = trees'[r][p]
<1>1. \A r, s \in components' : \A p \in Leaves(trees'[r]) : p \in Leaves(trees'[s]) => r = s
  <2>1. \A r \in components' : \A p \in Leaves(trees'[r]) : indexes'[1][p[1]] = r
    BY TwoDimensions DEF Inv, IndexesExact
  <2> QED BY <2>1
<1>2. ASSUME NEW r \in components', NEW p \in Leaves(trees'[r])
      PROVE  p \in Items' /\ Shown'[p] = trees'[r][p]
  <2>1. p \in Items'
    BY DEF Items
  <2>2. Shown'[p] = trees'[CHOOSE s \in components' : p \in Leaves(trees'[s])][p]
    BY <2>1 DEF Shown
  <2> QED BY <1>1, <2>1, <2>2, ShownMeans
<1> QED BY <1>2 DEF Shown, Items

LEMMA UpdateShows ==
  ASSUME Inv, Inv', NEW v \in Coordinates, NEW status, NEW root, Updates(v, status, root)
  PROVE  View!Show(v, status)
<1> DEFINE item == [status |-> status, timestamp |-> now]
           next == [x \in Items \cup {v} |-> IF x = v THEN item ELSE Shown[x]]
<1>1. DOMAIN Shown = Items /\ Items' = Items \cup {v} /\ DOMAIN Shown' = Items'
  BY ShownNow, ShownNext, OtherTrees
<1>2. ASSUME NEW x \in Items'
      PROVE  Shown'[x] = IF x = v THEN item ELSE Shown[x]
  <2>1. PICK r \in components' : x \in Leaves(trees'[r])
    BY ShownNext
  <2>2. Shown'[x] = trees'[r][x]
    BY <2>1, ShownNext
  <2>3. root \in components' /\ v \in Leaves(trees'[root]) /\ trees'[root][v] = item
    BY OtherTrees DEF Updates, TreeItem
  <2>4. CASE x = v
    BY <2>3, <2>4, ShownNext
  <2>5. CASE x # v /\ r = root
    <3>1. PICK s \in Found(v) : x \in Leaves(trees[s])
      BY <2>1, <2>5 DEF Updates
    <3>2. s \in components
      BY FoundMeans DEF Inv
    <3>3. trees'[root][x] = trees[s][x]
      BY <2>5, <3>1 DEF Updates
    <3> QED BY <2>2, <2>5, <3>1, <3>2, <3>3, ShownNow
  <2>6. CASE x # v /\ r # root
    <3>1. r \in components /\ trees'[r] = trees[r]
      BY <2>6, OtherTrees
    <3> QED BY <2>1, <2>2, <2>6, <3>1, ShownNow
  <2> QED BY <2>4, <2>5, <2>6
<1>3. Shown' = next
  BY <1>1, <1>2, ShownNext
<1>4. now' = now
  BY DEF Updates
<1> QED BY <1>1, <1>3, <1>4 DEF View!Show

\* For any alerts, configurations and addresses: whatever trees are created, merged
\* and freed, a gridboard shows the last status of each pair of coordinates, and
\* when it came, until it is cleared (Gridboard).
THEOREM GridboardViewImplemented == Spec => ImplementsGridboardView
<1>1. Init => View!Init
  <2> SUFFICES ASSUME Init PROVE View!Init
    OBVIOUS
  <2>1. Items = {} /\ now = 0
    BY DEF Init, Items
  <2>2. Shown = [c \in {} |-> {}]
    BY <2>1 DEF Shown
  <2> QED BY <2>1, <2>2 DEF View!Init, View!Nothing
<1>2. Inv /\ [Next]_vars => [View!Next]_<<now, Shown>>
  <2> SUFFICES ASSUME Inv, [Next]_vars PROVE View!Next \/ UNCHANGED <<now, Shown>>
    OBVIOUS
  <2>1. Inv' /\ Step
    BY NextStep
  <2>2. ASSUME NEW v \in Coordinates, NEW status \in {"Ok", "Raised"}, NEW root,
               Updates(v, status, root)
        PROVE  View!Next
    <3>1. View!Show(v, status)
      BY <2>1, <2>2, UpdateShows
    <3> QED BY <3>1 DEF View!Next, Coordinates
  <2>3. CASE Cleared /\ UNCHANGED <<now, copy>>
    <3>1. Items' = {}
      BY <2>3 DEF Cleared, Items
    <3>2. Shown' = [c \in {} |-> {}]
      BY <3>1 DEF Shown
    <3> QED BY <2>3, <3>2 DEF View!Next, View!Clear, View!Nothing
  <2>4. CASE TreesKept /\ (now' = now \/ now' = now + 1)
    <3>1. components' = components /\ \A r \in components : trees'[r] = trees[r]
      BY <2>1, <2>4 DEF TreesKept, Inv, Types
    <3>2. Items' = Items
      BY <3>1 DEF Items
    <3>3. \A p \in Items : Shown'[p] = Shown[p]
      BY <2>1, <3>1, ShownNow, ShownNext
    <3>4. Shown' = Shown
      BY <2>1, <3>2, <3>3, ShownNow, ShownNext
    <3> QED BY <2>4, <3>4 DEF View!Next, View!Tick
  <2> QED BY <2>1, <2>2, <2>3, <2>4 DEF Step
<1> QED BY <1>1, <1>2, InvAlways, PTL DEF Spec, ImplementsGridboardView, View!Spec
=============================================================================
