--------------------------- MODULE RepositoryProofs ---------------------------
(***************************************************************************)
(* Proofs about the repository of configurations, for any configurations,  *)
(* names of files and length of the history log, when no configuration was *)
(* edited in memory since it was parsed.                                   *)
(*                                                                         *)
(* The inductive invariant says, for each step of an operation, by what    *)
(* memory and files still differ, copies apart, and for each step of a     *)
(* start, that what was read is in memory and still on disk.               *)
(*                                                                         *)
(* And proofs about the triggers of the configurations that are activated, *)
(* for any configurations, expressions, calendars and lengths of the units *)
(* of time.  The inductive invariant says that the state of the triggers   *)
(* is good after each check of one of them: the next date is the first one *)
(* after the last, and the date announced for a task has a timer.          *)
(***************************************************************************)
EXTENDS ConfigRepository, TriggeringProperties, FiniteSetTheorems, SequenceTheorems,
        NaturalsInduction, WellFoundedInduction, TLAPS

-----------------------------------------------------------------------------
(* Induction over the natural numbers, for a set of them.                  *)

\* A set of natural numbers that holds zero and the successor of each of its
\* elements holds them all.
LEMMA Induction ==
  ASSUME NEW S, 0 \in S, \A n \in Nat : n \in S => n + 1 \in S
  PROVE  Nat \subseteq S
<1> SUFFICES ASSUME ~(Nat \subseteq S) PROVE FALSE
  OBVIOUS
<1> DEFINE T == Nat \ S
<1>1. T # {} /\ T \subseteq Nat
  OBVIOUS
<1>2. \E x \in T : \A y \in T : ~ (<<y, x>> \in OpToRel(<, Nat))
  BY <1>1, NatLessThanWellFounded, WFMin
<1>3. PICK x \in T : \A y \in T : ~ (<<y, x>> \in OpToRel(<, Nat))
  BY <1>2
<1>4. x # 0 /\ x \in Nat
  OBVIOUS
<1>5. x - 1 \in Nat /\ x - 1 < x /\ (x - 1) + 1 = x
  BY <1>4
<1>6. <<x - 1, x>> \in OpToRel(<, Nat)
  BY <1>4, <1>5 DEF OpToRel
<1> QED BY <1>3, <1>4, <1>5, <1>6

-----------------------------------------------------------------------------
(* The rows of ConfigsModel.                                               *)

\* The row that comes after those of a prefix of the list.
Step(list, c, k, i) == IF list[i] = c THEN k ELSE Append(k, list[i])

\* The loop is defined for every number of rows.
LEMMA LoopExists ==
  ASSUME NEW list, Len(list) \in Nat, NEW c
  PROVE  \E f : f = [i \in 0..Len(list) |->
                       IF i = 0 THEN <<>> ELSE Step(list, c, f[i - 1], i)]
<1> DEFINE Loop(n) == \E f : f = [i \in 0..n |->
                        IF i = 0 THEN <<>> ELSE Step(list, c, f[i - 1], i)]
           S == {n \in Nat : Loop(n)}
<1>1. 0 \in S
  <2> DEFINE g == [i \in 0..0 |-> <<>>]
  <2>1. g = [i \in 0..0 |-> IF i = 0 THEN <<>> ELSE Step(list, c, g[i - 1], i)]
    OBVIOUS
  <2> QED BY <2>1
<1>2. ASSUME NEW n \in Nat, n \in S
      PROVE  n + 1 \in S
  <2>1. PICK f : f = [i \in 0..n |->
                       IF i = 0 THEN <<>> ELSE Step(list, c, f[i - 1], i)]
    BY <1>2
  <2> DEFINE g == [i \in 0..(n + 1) |->
                     IF i = n + 1 THEN Step(list, c, f[n], i) ELSE f[i]]
             h == [i \in 0..(n + 1) |->
                     IF i = 0 THEN <<>> ELSE Step(list, c, g[i - 1], i)]
  <2>2. ASSUME NEW i \in 0..(n + 1)
        PROVE  g[i] = h[i]
    <3>1. CASE i = n + 1
      <4>1. i # 0 /\ i - 1 = n /\ n \in 0..(n + 1) /\ n # n + 1
        BY <3>1
      <4> QED BY <3>1, <4>1
    <3>2. CASE i \in 0..n /\ i # 0
      <4>1. i - 1 \in 0..(n + 1) /\ i - 1 # n + 1 /\ i # n + 1
        BY <3>2
      <4>2. f[i] = Step(list, c, f[i - 1], i)
        BY <2>1, <3>2
      <4> QED BY <3>2, <4>1, <4>2
    <3>3. CASE i = 0
      <4>1. f[0] = <<>> /\ i # n + 1
        BY <2>1, <3>3
      <4> QED BY <3>3, <4>1
    <3> QED BY <3>1, <3>2, <3>3
  <2>3. g = h
    BY <2>2
  <2>4. Loop(n + 1)
    BY <2>3
  <2> QED BY <2>4
<1> HIDE DEF S
<1>3. Nat \subseteq S
  BY <1>1, <1>2, Induction
<1>4. Loop(Len(list))
  BY <1>3 DEF S
<1> QED BY <1>4

\* A list without duplicates.
Distinct(list) == \A i, j \in 1..Len(list) : list[i] = list[j] => i = j

Elements(list) == {list[i] : i \in 1..Len(list)}

\* configRemoved() removes every row of a configuration and keeps the others, each
\* of them once if it was there once.
LEMMA RemovedProperties ==
  ASSUME NEW S, NEW list \in Seq(S), NEW c, Distinct(list)
  PROVE  /\ Removed(list, c) \in Seq(S)
         /\ Elements(Removed(list, c)) = Elements(list) \ {c}
         /\ Distinct(Removed(list, c))
<1> DEFINE Loop(f) == f = [i \in 0..Len(list) |->
                        IF i = 0 THEN <<>> ELSE Step(list, c, f[i - 1], i)]
           kept == CHOOSE f : Loop(f)
           Prefix(i) == {list[j] : j \in 1..i}
           Kept(i) == /\ kept[i] \in Seq(S)
                      /\ Elements(kept[i]) = Prefix(i) \ {c}
                      /\ Distinct(kept[i])
           T == {i \in Nat : i <= Len(list) => Kept(i)}
<1>1. Len(list) \in Nat
  OBVIOUS
<1>2. Loop(kept)
  BY <1>1, LoopExists
<1>3. Removed(list, c) = kept[Len(list)]
  BY DEF Removed, Step
<1> HIDE DEF kept
<1>4. kept[0] = <<>>
  BY <1>1, <1>2
<1>5. ASSUME NEW i \in Nat, i + 1 <= Len(list)
      PROVE  kept[i + 1] = Step(list, c, kept[i], i + 1)
  <2>1. i + 1 \in 0..Len(list) /\ i + 1 # 0 /\ (i + 1) - 1 = i
    BY <1>1, <1>5
  <2> QED BY <1>2, <2>1
<1> HIDE DEF Loop
<1>6. 0 \in T
  <2>1. Kept(0)
    BY <1>4 DEF Elements, Distinct
  <2> QED BY <2>1
<1>7. ASSUME NEW i \in Nat, i \in T
      PROVE  i + 1 \in T
  <2> SUFFICES ASSUME i + 1 <= Len(list) PROVE Kept(i + 1)
    OBVIOUS
  <2>1. Kept(i)
    BY <1>1, <1>7
  <2>2. kept[i + 1] = Step(list, c, kept[i], i + 1)
    BY <1>5
  <2> DEFINE k == kept[i]
             e == list[i + 1]
  <2>3. Prefix(i + 1) = Prefix(i) \cup {e}
    <3>1. 1..(i + 1) = (1..i) \cup {i + 1}
      OBVIOUS
    <3> QED BY <3>1
  <2>4. e \in S /\ e \notin Prefix(i)
    <3>1. i + 1 \in 1..Len(list)
      BY <1>1
    <3>2. ASSUME NEW j \in 1..i
          PROVE  list[j] # e
      <4>1. j \in 1..Len(list) /\ j # i + 1
        BY <1>1
      <4> QED BY <3>1, <4>1 DEF Distinct
    <3> QED BY <3>1, <3>2
  <2>5. CASE e = c
    <3>1. kept[i + 1] = k
      BY <2>2, <2>5 DEF Step
    <3> QED BY <2>1, <2>3, <2>5, <3>1
  <2>6. CASE e # c
    <3>1. kept[i + 1] = Append(k, e)
      BY <2>2, <2>6 DEF Step
    <3>2. k \in Seq(S) /\ Elements(k) = Prefix(i) \ {c} /\ Distinct(k)
      BY <2>1
    <3> HIDE DEF Prefix, k, e, Kept
    <3>3. /\ Append(k, e) \in Seq(S) /\ Len(k) \in Nat
          /\ Len(Append(k, e)) = Len(k) + 1
          /\ \A j \in 1..Len(k) : Append(k, e)[j] = k[j]
          /\ Append(k, e)[Len(k) + 1] = e
      BY <2>4, <3>2, AppendProperties
    <3>4. 1..(Len(k) + 1) = (1..Len(k)) \cup {Len(k) + 1}
      BY <3>3
    <3>5. Elements(Append(k, e)) = Elements(k) \cup {e}
      BY <3>3, <3>4 DEF Elements
    <3>6. Distinct(Append(k, e))
      <4>1. ASSUME NEW j \in 1..Len(k)
            PROVE  k[j] # e
        BY <2>4, <3>2 DEF Elements
      <4> QED BY <3>2, <3>3, <3>4, <4>1 DEF Distinct
    <3>7. Elements(Append(k, e)) = Prefix(i + 1) \ {c}
      BY <2>3, <2>6, <3>2, <3>5
    <3> QED BY <3>1, <3>3, <3>6, <3>7 DEF Kept
  <2> QED BY <2>5, <2>6
<1>8. Len(list) \in T
  <2> HIDE DEF T
  <2> QED BY <1>1, <1>6, <1>7, Induction
<1>9. Kept(Len(list))
  BY <1>1, <1>8
<1>10. Prefix(Len(list)) = Elements(list)
  BY DEF Elements
<1> QED BY <1>3, <1>9, <1>10

\* A list without duplicates is as long as the set of its elements is large.
LEMMA LengthOfDistinct ==
  ASSUME NEW S, NEW list \in Seq(S), Distinct(list)
  PROVE  Len(list) = Cardinality(Elements(list))
<1> DEFINE n == Len(list)
<1>1. n \in Nat /\ IsFiniteSet(1..n) /\ Cardinality(1..n) = n
  <2>1. n \in Nat /\ 1 \in Int /\ n \in Int
    OBVIOUS
  <2>2. IsFiniteSet(1..n) /\ Cardinality(1..n) = IF 1 > n THEN 0 ELSE n - 1 + 1
    BY <2>1, FS_Interval
  <2> QED BY <2>1, <2>2
<1> DEFINE f == [i \in 1..Len(list) |-> list[i]]
<1>2. f \in Bijection(1..Len(list), Elements(list))
  BY DEF Distinct, Elements, Bijection, Injection, Surjection, IsInjective
<1> HIDE DEF f
<1>3. Cardinality(Elements(list)) = Cardinality(1..n)
  BY <1>1, <1>2, FS_Bijection DEF ExistsBijection
<1> QED BY <1>1, <1>3

\* configAdded() puts the configuration in front of the others.
LEMMA AddedProperties ==
  ASSUME NEW S, NEW list \in Seq(S), NEW c \in S, Distinct(list)
  PROVE  /\ Added(list, c) \in Seq(S)
         /\ Elements(Added(list, c)) = Elements(list) \cup {c}
         /\ Distinct(Added(list, c))
<1> DEFINE r == Removed(list, c)
           a == <<c>> \o r
<1>1. r \in Seq(S) /\ Elements(r) = Elements(list) \ {c} /\ Distinct(r)
  BY RemovedProperties
<1>2. Added(list, c) = a
  BY DEF Added
<1> HIDE DEF r
<1>3. Len(r) \in Nat /\ a \in Seq(S) /\ Len(a) = Len(r) + 1 /\ a[1] = c
      /\ \A i \in 1..Len(r) : a[i + 1] = r[i]
  BY <1>1
<1> HIDE DEF a
<1>4. \A i \in 1..Len(a) : i = 1 \/ (i - 1 \in 1..Len(r) /\ a[i] = r[i - 1])
  <2> TAKE i \in 1..Len(a)
  <2>1. CASE i # 1
    <3>1. i - 1 \in 1..Len(r) /\ (i - 1) + 1 = i
      BY <1>3, <2>1
    <3> QED BY <1>3, <3>1
  <2> QED BY <2>1
<1>5. \A i \in 1..Len(r) : r[i] # c
  BY <1>1 DEF Elements
<1>6. Elements(a) = Elements(r) \cup {c}
  <2>1. Elements(a) \subseteq Elements(r) \cup {c}
    BY <1>3, <1>4 DEF Elements
  <2>2. c \in Elements(a)
    <3>1. 1 \in 1..Len(a)
      BY <1>3
    <3> QED BY <1>3, <3>1 DEF Elements
  <2>3. ASSUME NEW i \in 1..Len(r)
        PROVE  r[i] \in Elements(a)
    <3>1. i + 1 \in 1..Len(a)
      BY <1>3
    <3> QED BY <1>3, <3>1 DEF Elements
  <2> QED BY <2>1, <2>2, <2>3 DEF Elements
<1>7. Distinct(a)
  <2> SUFFICES ASSUME NEW i \in 1..Len(a), NEW j \in 1..Len(a), a[i] = a[j]
               PROVE  i = j
    BY DEF Distinct
  <2>1. CASE i = 1 /\ j # 1
    BY <1>3, <1>4, <1>5, <2>1
  <2>2. CASE j = 1 /\ i # 1
    BY <1>3, <1>4, <1>5, <2>2
  <2>3. CASE i # 1 /\ j # 1
    <3>1. i - 1 \in 1..Len(r) /\ j - 1 \in 1..Len(r) /\ r[i - 1] = r[j - 1]
      BY <1>4, <2>3
    <3>2. i - 1 = j - 1
      BY <1>1, <3>1 DEF Distinct
    <3> QED BY <3>2
  <2> QED BY <2>1, <2>2, <2>3
<1>8. Elements(a) = Elements(list) \cup {c}
  BY <1>1, <1>6
<1> QED BY <1>2, <1>3, <1>7, <1>8
-----------------------------------------------------------------------------
(* The inductive invariant.                                                *)

HistoryRows == {Torn} \cup (Events \X Configs)

Steps == {"stopped", "opening", "renaming", "ready", "recorded"} \cup Events

TypeOK ==
  /\ files \in [Names -> Contents \cup {NoFile}]
  /\ activeFile \in Configs \cup {NoConfig}
  /\ history \in Seq(HistoryRows)
  /\ configs \subseteq Configs
  /\ activeConfigId \in Configs \cup {NoConfig}
  /\ op \in [step : Steps, name : Names \cup {NoConfig}]
  /\ todo \subseteq Names
  /\ rows \in Seq(Configs)
  /\ shownActive \in Configs \cup {NoConfig}

\* A file that has the name of a configuration does not hold another one.
FilesHoldTheirNames == \A c \in Configs : files[c] \in {c, Invalid, Unreadable, NoFile}

\* The active file names a configuration that some file holds.
ActiveIsStored == activeFile \in Stored \cup {NoConfig}

\* The model of the user interface lists each configuration in memory once.
RowsAreConfigs == Distinct(rows) /\ Elements(rows) = configs

\* The configurations whose file has their name.
Named == {c \in Configs : files[c] = c}

StoppedForgets ==
  op.step = "stopped" =>
    /\ op = Stopped
    /\ configs = {} /\ todo = {} /\ activeConfigId = NoConfig /\ shownActive = NoConfig

\* When it starts, the repository holds what it has read, which is still on disk.
OpeningReads ==
  op.step \in {"opening", "renaming"} =>
    /\ activeConfigId = NoConfig /\ shownActive = NoConfig
    /\ \A n \in Names \ todo : files[n] \in Configs => files[n] \in configs
    /\ configs \subseteq Stored

RenamesMisnamed ==
  op.step = "renaming" =>
    /\ op.name \in OtherNames \cap todo
    /\ files[op.name] \in Configs

\* The operation that has changed a file and not yet the memory.
Pending == IF op.step = "recorded" THEN history[Len(history)][1] ELSE op.step

\* The configurations in memory once it is done.
Expected ==
  IF Pending = "addConfig" THEN configs \cup {op.name}
  ELSE IF Pending = "removeConfig" THEN configs \ {op.name}
  ELSE configs

\* But for copies, memory and files only differ by the pending operation.
OperationsDiffer ==
  op.step \in {"ready", "recorded"} \cup Events =>
    /\ todo = {}
    /\ shownActive = activeConfigId
    /\ Pending \in {"ready"} \cup Events
    /\ op.step = "recorded" => Pending # "ready"
    /\ Pending # "ready" => op.name \in Configs
    /\ Named \subseteq Expected /\ Expected \subseteq Stored
    /\ Pending = "activateConfig" => op.name \in configs
    /\ Pending = "removeConfig" => op.name # activeFile
    /\ activeFile = IF Pending = "activateConfig" THEN op.name ELSE activeConfigId
    /\ activeFile \in configs \cup {NoConfig}

Inv ==
  /\ TypeOK /\ FilesHoldTheirNames /\ ActiveIsStored /\ RowsAreConfigs
  /\ StoppedForgets /\ OpeningReads /\ RenamesMisnamed /\ OperationsDiffer

-----------------------------------------------------------------------------
(* Each step keeps the invariant, and is one of the view or a stutter.     *)

\* What a step may keep of the abstract repository.
DiskUnchanged == Stored' = Stored /\ Copied' = Copied /\ StoredActive' = StoredActive

\* Names and special values are distinct.
LEMMA NamesDiffer ==
  /\ NoConfig \notin Configs /\ Invalid \notin Configs /\ Unreadable \notin Configs
  /\ NoFile \notin Configs /\ Configs \cap OtherNames = {} /\ NoConfig \notin OtherNames
  /\ Invalid # NoFile /\ Unreadable # NoFile /\ Invalid # Unreadable
  /\ Names = Configs \cup OtherNames
  /\ Contents = Configs \cup {Invalid, Unreadable}
BY NamesAssumption DEF Names, Contents

\* A configuration is stored under its own name or another one.
LEMMA StoredNames ==
  /\ FilesHoldTheirNames => Stored = Named \cup Copied
  /\ FilesHoldTheirNames' => Stored' = Named' \cup Copied'
BY NamesDiffer DEF FilesHoldTheirNames, Stored, Named, Copied

\* Files that do not change leave the repository as it is.
LEMMA SameFiles ==
  ASSUME UNCHANGED <<files, activeFile>>
  PROVE  /\ DiskUnchanged /\ Named' = Named
         /\ FilesHoldTheirNames => FilesHoldTheirNames'
         /\ ActiveIsStored => ActiveIsStored'
BY DEF DiskUnchanged, Stored, Copied, Named, StoredActive, FilesHoldTheirNames,
       ActiveIsStored

\* Neither does moving a file that holds no configuration that no other file holds.
LEMMA Tidied ==
  ASSUME Inv, NEW n \in Names,
         files[n] \in Configs => \E m \in Names \ {n} : files[m] = files[n],
         files' \in {files, [files EXCEPT ![n] = NoFile]}, activeFile' = activeFile
  PROVE  /\ files' \in [Names -> Contents \cup {NoFile}]
         /\ \A m \in Names \ {n} : files'[m] = files[m]
         /\ files'[n] \in {files[n], NoFile}
         /\ Stored' = Stored /\ Copied' \subseteq Copied /\ StoredActive' = StoredActive
         /\ FilesHoldTheirNames' /\ ActiveIsStored'
<1>1. files \in [Names -> Contents \cup {NoFile}]
  BY DEF Inv, TypeOK
<1>2. /\ files' \in [Names -> Contents \cup {NoFile}]
      /\ \A m \in Names \ {n} : files'[m] = files[m]
      /\ files'[n] \in {files[n], NoFile}
  BY <1>1
<1>3. Stored' = Stored
  BY <1>2, NamesDiffer DEF Stored
<1>4. Copied' \subseteq Copied
  BY <1>2, NamesDiffer DEF Copied
<1>5. FilesHoldTheirNames'
  BY <1>2, NamesDiffer DEF Inv, FilesHoldTheirNames
<1> QED BY <1>2, <1>3, <1>4, <1>5 DEF Inv, ActiveIsStored, StoredActive

LEMMA InitInv ==
  Init => /\ Inv /\ Stored = {} /\ Copied = {} /\ StoredActive = NoConfig
          /\ Phase = "stopped"
<1> SUFFICES ASSUME Init
             PROVE  /\ Inv /\ Stored = {} /\ Copied = {} /\ StoredActive = NoConfig
                    /\ Phase = "stopped"
  OBVIOUS
<1>1. TypeOK
  BY NamesDiffer DEF Init, TypeOK, Stopped, Operation, HistoryRows, Steps
<1>2. Stored = {} /\ Copied = {}
  BY NamesDiffer DEF Init, Stored, Copied
<1>3. RowsAreConfigs
  BY DEF Init, RowsAreConfigs, Distinct, Elements
<1>4. FilesHoldTheirNames /\ ActiveIsStored
  BY NamesDiffer DEF Init, FilesHoldTheirNames, ActiveIsStored
<1>5. StoppedForgets /\ OpeningReads /\ RenamesMisnamed /\ OperationsDiffer
  BY DEF Init, Stopped, Operation, StoppedForgets, OpeningReads,
         RenamesMisnamed, OperationsDiffer, Events
<1> QED BY <1>1, <1>2, <1>3, <1>4, <1>5
        DEF Inv, StoredActive, Init, Phase, Stopped, Operation

LEMMA DropFileStep ==
  ASSUME Inv, NEW name \in Names, NEW content \in Contents, DropFile(name, content)
  PROVE  /\ Inv'
         /\ \/ DiskUnchanged /\ Phase' = Phase
            \/ \E c \in Configs : View!Drop(c)
<1>1. /\ op = Stopped /\ op.step = "stopped" /\ files[name] = NoFile
      /\ content \in Configs => name \in OtherNames \cup {content}
      /\ files' = [files EXCEPT ![name] = content]
      /\ UNCHANGED <<activeFile, history, configs, activeConfigId, todo, rows,
                     shownActive, op>>
  BY DEF DropFile, memory, model, Stopped, Operation
<1>2. files \in [Names -> Contents \cup {NoFile}]
  BY DEF Inv, TypeOK
<1>3. files'[name] = content /\ \A n \in Names \ {name} : files'[n] = files[n]
  BY <1>1, <1>2
<1>4. TypeOK'
  <2>1. files' \in [Names -> Contents \cup {NoFile}]
    BY <1>1, <1>2
  <2> QED BY <1>1, <2>1 DEF Inv, TypeOK
<1>5. FilesHoldTheirNames'
  BY <1>1, <1>3, NamesDiffer DEF Inv, FilesHoldTheirNames
<1>6. Stored' = Stored \cup ({content} \cap Configs)
  BY <1>1, <1>3, NamesDiffer DEF Stored
<1>7. Copied' \in {Copied, Copied \cup ({content} \cap Configs)}
  <2>1. CASE name \in OtherNames
    <3>1. Copied' = Copied \cup ({content} \cap Configs)
      BY <1>1, <1>3, <2>1, NamesDiffer DEF Copied
    <3> QED BY <3>1
  <2>2. CASE name \notin OtherNames
    <3>1. Copied' = Copied
      BY <1>3, <2>2, NamesDiffer DEF Copied
    <3> QED BY <3>1
  <2> QED BY <2>1, <2>2
<1>8. ActiveIsStored' /\ StoredActive' = StoredActive
  BY <1>1, <1>6, NamesDiffer DEF Inv, ActiveIsStored, StoredActive
<1>9. RowsAreConfigs'
  BY <1>1 DEF Inv, RowsAreConfigs, Distinct, Elements
<1>10. StoppedForgets' /\ OpeningReads' /\ RenamesMisnamed' /\ OperationsDiffer'
  BY <1>1 DEF Inv, StoppedForgets, OpeningReads, RenamesMisnamed,
              OperationsDiffer, Events
<1>11. Inv'
  BY <1>4, <1>5, <1>8, <1>9, <1>10 DEF Inv
<1>12. Phase = "stopped" /\ Phase' = Phase
  BY <1>1 DEF Phase
<1>13. CASE content \in Configs
  <2>1. View!Drop(content)
    BY <1>6, <1>7, <1>8, <1>12, <1>13 DEF View!Drop
  <2> QED BY <1>11, <1>13, <2>1
<1>14. CASE content \notin Configs
  BY <1>6, <1>7, <1>8, <1>11, <1>12, <1>14 DEF DiskUnchanged
<1> QED BY <1>13, <1>14

LEMMA OpenRepositoryStep ==
  ASSUME Inv, OpenRepository
  PROVE  Inv' /\ View!Start
<1>1. /\ op.step = "stopped" /\ op' = Opening /\ op'.step = "opening"
      /\ configs' = {} /\ activeConfigId' = NoConfig
      /\ todo' = {n \in Names : files[n] # NoFile}
      /\ UNCHANGED <<files, activeFile, history, rows, shownActive>>
  BY DEF OpenRepository, disk, model, Stopped, Opening, Operation
<1>2. configs = {} /\ shownActive = NoConfig
  BY <1>1 DEF Inv, StoppedForgets
<1>3. DiskUnchanged /\ FilesHoldTheirNames' /\ ActiveIsStored'
  BY <1>1, SameFiles DEF Inv
<1>4. TypeOK'
  BY <1>1 DEF Inv, TypeOK, Opening, Operation, Steps
<1>5. RowsAreConfigs'
  <2>1. configs' = configs /\ rows' = rows
    BY <1>1, <1>2
  <2> QED BY <2>1 DEF Inv, RowsAreConfigs, Distinct, Elements
<1>6. OpeningReads'
  BY <1>1, <1>2, NamesDiffer DEF OpeningReads
<1>7. StoppedForgets' /\ RenamesMisnamed' /\ OperationsDiffer'
  BY <1>1 DEF StoppedForgets, RenamesMisnamed, OperationsDiffer, Events
<1>8. Inv'
  BY <1>3, <1>4, <1>5, <1>6, <1>7 DEF Inv
<1> QED BY <1>1, <1>3, <1>8 DEF View!Start, DiskUnchanged, Phase

LEMMA SkipFileStep ==
  ASSUME Inv, NEW name \in Names, SkipFile(name)
  PROVE  Inv' /\ View!Tidy
<1>1. /\ op.step = "opening" /\ name \in todo /\ files[name] \in {Unreadable, NoFile}
      /\ todo' = todo \ {name}
      /\ UNCHANGED <<files, activeFile, history, configs, activeConfigId, rows,
                     shownActive, op>>
  BY DEF SkipFile, disk, model, Opening, Operation
<1>2. DiskUnchanged /\ FilesHoldTheirNames' /\ ActiveIsStored'
  BY <1>1, SameFiles DEF Inv
<1>3. TypeOK'
  BY <1>1 DEF Inv, TypeOK
<1>4. RowsAreConfigs'
  BY <1>1 DEF Inv, RowsAreConfigs, Distinct, Elements
<1>5. OpeningReads'
  BY <1>1, <1>2, NamesDiffer DEF Inv, OpeningReads, DiskUnchanged
<1>6. StoppedForgets' /\ RenamesMisnamed' /\ OperationsDiffer'
  BY <1>1 DEF StoppedForgets, RenamesMisnamed, OperationsDiffer, Events
<1>7. Inv'
  BY <1>2, <1>3, <1>4, <1>5, <1>6 DEF Inv
<1> QED BY <1>1, <1>2, <1>7 DEF View!Tidy, DiskUnchanged, Phase

LEMMA OpenIncorrectFileStep ==
  ASSUME Inv, NEW name \in Names, OpenIncorrectFile(name)
  PROVE  Inv' /\ View!Tidy
<1>1. /\ op.step = "opening" /\ name \in todo /\ files[name] = Invalid
      /\ files' \in {files, [files EXCEPT ![name] = NoFile]}
      /\ todo' = todo \ {name}
      /\ UNCHANGED <<activeFile, history, configs, activeConfigId, rows,
                     shownActive, op>>
  BY DEF OpenIncorrectFile, model, Opening, Operation
<1>2. files[name] \notin Configs
  BY <1>1, NamesDiffer
<1>3. /\ files' \in [Names -> Contents \cup {NoFile}]
      /\ \A m \in Names \ {name} : files'[m] = files[m]
      /\ files'[name] \in {files[name], NoFile}
      /\ Stored' = Stored /\ Copied' \subseteq Copied /\ StoredActive' = StoredActive
      /\ FilesHoldTheirNames' /\ ActiveIsStored'
  BY <1>1, <1>2, Tidied
<1>4. TypeOK'
  BY <1>1, <1>3 DEF Inv, TypeOK
<1>5. RowsAreConfigs'
  BY <1>1 DEF Inv, RowsAreConfigs, Distinct, Elements
<1>6. OpeningReads'
  <2>1. \A n \in Names \ todo' : files'[n] \in Configs => files'[n] \in configs
    BY <1>1, <1>2, <1>3, NamesDiffer DEF Inv, OpeningReads
  <2> QED BY <1>1, <1>3, <2>1 DEF Inv, OpeningReads
<1>7. StoppedForgets' /\ RenamesMisnamed' /\ OperationsDiffer'
  BY <1>1 DEF StoppedForgets, RenamesMisnamed, OperationsDiffer, Events
<1>8. Inv'
  BY <1>3, <1>4, <1>5, <1>6, <1>7 DEF Inv
<1> QED BY <1>1, <1>3, <1>8 DEF View!Tidy, Phase

\* Loading a configuration adds it to the model, once.
LEMMA LoadProperties ==
  ASSUME TypeOK, RowsAreConfigs, NEW c \in Configs, Load(c)
  PROVE  configs' = configs \cup {c} /\ rows' \in Seq(Configs) /\ RowsAreConfigs'
<1>1. configs' = configs \cup {c}
  BY DEF Load
<1>2. CASE c \in configs
  <2>1. rows' = rows /\ configs' = configs
    BY <1>1, <1>2 DEF Load
  <2>2. RowsAreConfigs'
    BY <2>1 DEF RowsAreConfigs, Distinct, Elements
  <2> QED BY <1>1, <2>1, <2>2 DEF TypeOK
<1>3. CASE c \notin configs
  <2>1. rows' = Added(rows, c) /\ rows \in Seq(Configs)
    BY <1>3 DEF Load, TypeOK
  <2>2. /\ rows' \in Seq(Configs)
        /\ Elements(rows') = Elements(rows) \cup {c}
        /\ Distinct(rows')
    BY <2>1, AddedProperties DEF RowsAreConfigs
  <2> QED BY <1>1, <2>2 DEF RowsAreConfigs, Elements, Distinct
<1> QED BY <1>2, <1>3

LEMMA OpenFileStep ==
  ASSUME Inv, NEW name \in Names, OpenFile(name)
  PROVE  Inv' /\ View!Tidy
<1> DEFINE c == files[name]
<1>1. /\ op.step = "opening" /\ name \in todo /\ c \in Configs
      /\ Load(c)
      /\ todo' = todo \ {name}
      /\ UNCHANGED <<files, activeFile, history, activeConfigId, shownActive, op>>
  BY DEF OpenFile, disk, Opening, Operation
<1>2. configs' = configs \cup {c} /\ rows' \in Seq(Configs) /\ RowsAreConfigs'
  BY <1>1, LoadProperties DEF Inv
<1>3. DiskUnchanged /\ FilesHoldTheirNames' /\ ActiveIsStored'
  BY <1>1, SameFiles DEF Inv
<1>4. c \in Stored
  BY <1>1 DEF Stored
<1>5. TypeOK'
  BY <1>1, <1>2 DEF Inv, TypeOK
<1>6. OpeningReads'
  BY <1>1, <1>2, <1>3, <1>4 DEF Inv, OpeningReads, DiskUnchanged
<1>7. StoppedForgets' /\ RenamesMisnamed' /\ OperationsDiffer'
  BY <1>1 DEF StoppedForgets, RenamesMisnamed, OperationsDiffer, Events
<1>8. Inv'
  BY <1>2, <1>3, <1>5, <1>6, <1>7 DEF Inv
<1> QED BY <1>1, <1>3, <1>8 DEF View!Tidy, DiskUnchanged, Phase

LEMMA OpenMisnamedFileStep ==
  ASSUME Inv, NEW name \in Names, OpenMisnamedFile(name)
  PROVE  Inv' /\ View!Tidy
<1> DEFINE c == files[name]
<1>1. /\ op.step = "opening" /\ name \in todo /\ c \in Configs /\ BaseName[name] # c
      /\ files' \in {files, [files EXCEPT ![c] = NoFile]}
      /\ op' = Operation("renaming", name)
      /\ op'.step = "renaming" /\ op'.name = name
      /\ UNCHANGED <<activeFile, history, configs, activeConfigId, todo, rows,
                     shownActive>>
  BY DEF OpenMisnamedFile, memory, model, Opening, Operation
<1>2. name \in OtherNames /\ c \in Names /\ name # c
  <2>1. name \notin Configs
    BY <1>1, NamesDiffer, NamesAssumption DEF Inv, FilesHoldTheirNames
  <2> QED BY <1>1, <2>1, NamesDiffer
<1>3. files[c] \in Configs => \E m \in Names \ {c} : files[m] = files[c]
  BY <1>1, <1>2, NamesDiffer DEF Inv, FilesHoldTheirNames
<1>4. /\ files' \in [Names -> Contents \cup {NoFile}]
      /\ \A m \in Names \ {c} : files'[m] = files[m]
      /\ files'[c] \in {files[c], NoFile}
      /\ Stored' = Stored /\ Copied' \subseteq Copied /\ StoredActive' = StoredActive
      /\ FilesHoldTheirNames' /\ ActiveIsStored'
  BY <1>1, <1>2, <1>3, Tidied
<1>5. TypeOK'
  BY <1>1, <1>2, <1>4 DEF Inv, TypeOK, Operation, Steps
<1>6. RowsAreConfigs'
  BY <1>1 DEF Inv, RowsAreConfigs, Distinct, Elements
<1>7. OpeningReads'
  <2>1. \A n \in Names \ todo' : files'[n] \in Configs => files'[n] \in configs
    BY <1>1, <1>4, NamesDiffer DEF Inv, OpeningReads
  <2> QED BY <1>1, <1>4, <2>1 DEF Inv, OpeningReads
<1>8. RenamesMisnamed'
  BY <1>1, <1>2, <1>4 DEF RenamesMisnamed
<1>9. StoppedForgets' /\ OperationsDiffer'
  BY <1>1 DEF StoppedForgets, OperationsDiffer, Events
<1>10. Inv'
  BY <1>4, <1>5, <1>6, <1>7, <1>8, <1>9 DEF Inv
<1> QED BY <1>1, <1>4, <1>10 DEF View!Tidy, Phase

LEMMA RenameFileStep ==
  ASSUME Inv, NEW name \in Names, RenameFile(name)
  PROVE  Inv' /\ View!Tidy
<1> DEFINE c == files[name]
<1>1. /\ op.step = "renaming" /\ op.name = name
      /\ \/ UNCHANGED files
         \/ files[c] = NoFile /\ files' = [files EXCEPT ![c] = c, ![name] = NoFile]
      /\ Load(c)
      /\ todo' = todo \ {name}
      /\ op' = Opening /\ op'.step = "opening"
      /\ UNCHANGED <<activeFile, history, activeConfigId, shownActive>>
  BY DEF RenameFile, Opening, Operation
<1>2. name \in OtherNames /\ name \in todo /\ c \in Configs /\ c \in Names /\ name # c
  BY <1>1, NamesDiffer DEF Inv, RenamesMisnamed
<1>3. files \in [Names -> Contents \cup {NoFile}]
  BY DEF Inv, TypeOK
<1>4. files' \in [Names -> Contents \cup {NoFile}]
  BY <1>1, <1>2, <1>3, NamesDiffer
<1>5. /\ \A n \in Names \ {c, name} : files'[n] = files[n]
      /\ files'[name] \in {c, NoFile} /\ files'[c] \in {c, files[c]}
      /\ files'[name] = c \/ files'[c] = c
  BY <1>1, <1>2, <1>3
<1>6. Stored' = Stored /\ c \in Stored
  BY <1>2, <1>5, NamesDiffer DEF Stored, Inv, FilesHoldTheirNames
<1>7. Copied' \subseteq Copied
  BY <1>2, <1>5, NamesDiffer DEF Copied
<1>8. FilesHoldTheirNames'
  BY <1>2, <1>5, NamesDiffer DEF Inv, FilesHoldTheirNames
<1>9. ActiveIsStored' /\ StoredActive' = StoredActive
  BY <1>1, <1>6 DEF Inv, ActiveIsStored, StoredActive
<1>10. configs' = configs \cup {c} /\ rows' \in Seq(Configs) /\ RowsAreConfigs'
  BY <1>1, <1>2, LoadProperties DEF Inv
<1>11. TypeOK'
  BY <1>1, <1>2, <1>4, <1>10 DEF Inv, TypeOK, Opening, Operation, Steps
<1>12. OpeningReads'
  <2>1. \A n \in Names \ todo' : files'[n] \in Configs => files'[n] \in configs'
    BY <1>1, <1>2, <1>5, <1>10, NamesDiffer
       DEF Inv, OpeningReads, FilesHoldTheirNames
  <2> QED BY <1>1, <1>6, <1>10, <2>1 DEF Inv, OpeningReads
<1>13. StoppedForgets' /\ RenamesMisnamed' /\ OperationsDiffer'
  BY <1>1 DEF StoppedForgets, RenamesMisnamed, OperationsDiffer, Events
<1>14. Inv'
  BY <1>8, <1>9, <1>10, <1>11, <1>12, <1>13 DEF Inv
<1> QED BY <1>1, <1>6, <1>7, <1>9, <1>14 DEF View!Tidy, Phase

LEMMA RepositoryOpenedStep ==
  ASSUME Inv, RepositoryOpened
  PROVE  Inv' /\ View!Return
<1>1. /\ op.step = "opening" /\ todo = {}
      /\ history' = Shortened(history)
      /\ IF activeFile \in configs
         THEN activeConfigId' = activeFile /\ shownActive' = activeFile
         ELSE UNCHANGED <<activeConfigId, shownActive>>
      /\ op' = Ready /\ op'.step = "ready"
      /\ UNCHANGED <<files, activeFile, configs, todo, rows>>
  BY DEF RepositoryOpened, Opening, Ready, Operation
<1>2. activeConfigId = NoConfig /\ shownActive = NoConfig /\ configs = Stored
  <2>1. \A n \in Names : files[n] \in Configs => files[n] \in configs
    BY <1>1 DEF Inv, OpeningReads
  <2> QED BY <1>1, <2>1 DEF Inv, OpeningReads, Stored
<1>3. DiskUnchanged /\ Named' = Named /\ FilesHoldTheirNames' /\ ActiveIsStored'
  BY <1>1, SameFiles DEF Inv
<1>4. history' \in Seq(HistoryRows)
  <2>1. history \in Seq(HistoryRows) /\ RowCountMax \in Nat
    BY NamesAssumption DEF Inv, TypeOK
  <2> HIDE DEF HistoryRows
  <2>2. CASE Len(history) > RowCountMax
    <3>1. \A i \in (Len(history) - RowCountMax + 1)..Len(history) :
             history[i] \in HistoryRows
      BY <2>1, <2>2
    <3>2. SubSeq(history, Len(history) - RowCountMax + 1, Len(history))
            \in Seq(HistoryRows)
      BY <2>1, <3>1, SubSeqProperties
    <3> QED BY <1>1, <2>2, <3>2 DEF Shortened
  <2>3. CASE ~(Len(history) > RowCountMax)
    BY <1>1, <2>1, <2>3 DEF Shortened
  <2> QED BY <2>2, <2>3
<1>5. TypeOK'
  <2>1. activeConfigId' \in Configs \cup {NoConfig}
        /\ shownActive' \in Configs \cup {NoConfig}
    BY <1>1 DEF Inv, TypeOK
  <2> QED BY <1>1, <1>4, <2>1 DEF Inv, TypeOK, Ready, Operation, Steps
<1>6. RowsAreConfigs'
  BY <1>1 DEF Inv, RowsAreConfigs, Distinct, Elements
<1>7. OperationsDiffer'
  <2>1. Pending' = "ready" /\ Expected' = configs
    BY <1>1 DEF Pending, Expected
  <2>2. activeFile \in configs \cup {NoConfig}
    BY <1>2 DEF Inv, ActiveIsStored
  <2>3. activeFile' = activeConfigId' /\ shownActive' = activeConfigId'
    BY <1>1, <1>2, <2>2
  <2>4. Named \subseteq Stored
    BY NamesDiffer DEF Named, Stored
  <2> QED BY <1>1, <1>2, <1>3, <2>1, <2>2, <2>3, <2>4
          DEF OperationsDiffer, DiskUnchanged
<1>8. StoppedForgets' /\ OpeningReads' /\ RenamesMisnamed'
  BY <1>1 DEF StoppedForgets, OpeningReads, RenamesMisnamed
<1>9. Inv'
  BY <1>3, <1>5, <1>6, <1>7, <1>8 DEF Inv
<1> QED BY <1>1, <1>3, <1>9 DEF View!Return, DiskUnchanged, Phase

\* When no operation is pending, memory and files agree, but for copies.
LEMMA ReadyAgrees ==
  ASSUME Inv, op.step = "ready"
  PROVE  /\ todo = {} /\ shownActive = activeConfigId
         /\ Named \subseteq configs /\ configs \subseteq Stored
         /\ Stored = Named \cup Copied
         /\ activeConfigId = activeFile /\ StoredActive = activeFile
         /\ activeFile \in configs \cup {NoConfig}
<1>1. Pending = "ready" /\ Expected = configs
  BY DEF Pending, Expected
<1>2. /\ todo = {} /\ shownActive = activeConfigId
      /\ Named \subseteq configs /\ configs \subseteq Stored
      /\ activeConfigId = activeFile
      /\ activeFile \in configs \cup {NoConfig}
  BY <1>1 DEF Inv, OperationsDiffer
<1> QED BY <1>2, StoredNames DEF StoredActive, Inv

\* What the first step of an operation leaves alone.
LEMMA FirstStepKeeps ==
  ASSUME Inv, op.step = "ready", NEW event \in Events, NEW c \in Configs,
         op' = Operation(event, c), UNCHANGED <<history, memory>>
  PROVE  /\ op'.step = event /\ op'.name = c /\ Pending' = event
         /\ UNCHANGED <<history, configs, activeConfigId, todo, rows, shownActive>>
         /\ RowsAreConfigs'
         /\ StoppedForgets' /\ OpeningReads' /\ RenamesMisnamed'
         /\ op' \in [step : Steps, name : Names \cup {NoConfig}]
         /\ Phase = "ready" /\ Phase' = "busy"
<1>1. /\ op'.step = event /\ op'.name = c
      /\ event \notin {"stopped", "opening", "renaming", "ready", "recorded"}
      /\ UNCHANGED <<history, configs, activeConfigId, todo, rows, shownActive>>
  BY DEF Operation, memory, model, Events
<1>2. RowsAreConfigs'
  BY <1>1 DEF Inv, RowsAreConfigs, Distinct, Elements
<1>3. StoppedForgets' /\ OpeningReads' /\ RenamesMisnamed'
  BY <1>1 DEF StoppedForgets, OpeningReads, RenamesMisnamed
<1>4. op' \in [step : Steps, name : Names \cup {NoConfig}]
  BY DEF Operation, Names, Steps
<1>5. Pending' = event
  BY <1>1 DEF Pending
<1>6. Phase = "ready" /\ Phase' = "busy"
  BY <1>1 DEF Phase
<1> QED BY <1>1, <1>2, <1>3, <1>4, <1>5, <1>6

LEMMA AddConfigStep ==
  ASSUME Inv, Edited = {}, NEW c \in Configs, AddConfig(c)
  PROVE  Inv' /\ View!Operate
<1>1. /\ op.step = "ready" /\ op' = Operation("addConfig", c) /\ "addConfig" \in Events
      /\ files' = [files EXCEPT ![c] = c]
      /\ UNCHANGED <<history, memory>> /\ activeFile' = activeFile
  BY DEF AddConfig, Written, Ready, Operation, Events
<1>2. files \in [Names -> Contents \cup {NoFile}] /\ c \in Names
  BY DEF Inv, TypeOK, Names
<1>3. files'[c] = c /\ \A n \in Names \ {c} : files'[n] = files[n]
  BY <1>1, <1>2
<1>4. Named' = Named \cup {c} /\ Copied' = Copied
  BY <1>2, <1>3, NamesDiffer DEF Named, Copied
<1>5. FilesHoldTheirNames'
  BY <1>3, NamesDiffer DEF Inv, FilesHoldTheirNames
<1>6. Stored' = Stored \cup {c}
  BY <1>1, <1>4, <1>5, StoredNames, ReadyAgrees
<1>7. ActiveIsStored' /\ StoredActive' = StoredActive
  BY <1>1, <1>6, ReadyAgrees, NamesDiffer DEF Inv, ActiveIsStored, StoredActive
<1>8. TypeOK'
  <2>1. files' \in [Names -> Contents \cup {NoFile}]
    BY <1>1, <1>2, NamesDiffer
  <2> QED BY <1>1, <2>1, FirstStepKeeps DEF Inv, TypeOK
<1>9. OperationsDiffer'
  <2>1. Pending' = "addConfig" /\ op'.name = c /\ op'.step = "addConfig"
    BY <1>1, FirstStepKeeps
  <2>2. UNCHANGED <<configs, activeConfigId, todo, shownActive>>
    BY <1>1, FirstStepKeeps
  <2>3. Expected' = configs \cup {c}
    BY <2>1, <2>2 DEF Expected
  <2> QED BY <1>1, <1>4, <1>6, <2>1, <2>2, <2>3, ReadyAgrees
          DEF OperationsDiffer, Events
<1>10. Inv'
  BY <1>1, <1>5, <1>7, <1>8, <1>9, FirstStepKeeps DEF Inv
<1>11. View!Add(c)
  BY <1>4, <1>6, <1>7 DEF View!Add
<1> QED BY <1>1, <1>10, <1>11, FirstStepKeeps DEF View!Operate

LEMMA ActivateConfigStep ==
  ASSUME Inv, NEW c \in Configs, ActivateConfig(c)
  PROVE  Inv' /\ View!Operate
<1>1. /\ op.step = "ready" /\ op' = Operation("activateConfig", c)
      /\ "activateConfig" \in Events
      /\ c \in configs /\ activeFile' = c
      /\ UNCHANGED <<history, memory>> /\ files' = files
  BY DEF ActivateConfig, Ready, Operation, Events
<1>2. Stored' = Stored /\ Named' = Named /\ Copied' = Copied
  BY <1>1 DEF Stored, Named, Copied
<1>3. c \in Stored
  BY <1>1, ReadyAgrees
<1>4. ActiveIsStored' /\ StoredActive' = c
  BY <1>1, <1>2, <1>3 DEF ActiveIsStored, StoredActive
<1>5. TypeOK'
  BY <1>1, FirstStepKeeps DEF Inv, TypeOK
<1>6. FilesHoldTheirNames'
  BY <1>1 DEF Inv, FilesHoldTheirNames
<1>7. OperationsDiffer'
  <2>1. Pending' = "activateConfig" /\ op'.name = c /\ op'.step = "activateConfig"
    BY <1>1, FirstStepKeeps
  <2>2. UNCHANGED <<configs, activeConfigId, todo, shownActive>>
    BY <1>1, FirstStepKeeps
  <2>3. Expected' = configs
    BY <2>1, <2>2 DEF Expected
  <2> QED BY <1>1, <1>2, <2>1, <2>2, <2>3, ReadyAgrees DEF OperationsDiffer, Events
<1>8. Inv'
  BY <1>1, <1>4, <1>5, <1>6, <1>7, FirstStepKeeps DEF Inv
<1>9. View!Activate(c)
  BY <1>2, <1>3, <1>4 DEF View!Activate
<1> QED BY <1>1, <1>8, <1>9, FirstStepKeeps DEF View!Operate

LEMMA RemoveConfigStep ==
  ASSUME Inv, NEW c \in Configs, RemoveConfig(c)
  PROVE  Inv' /\ View!Operate
<1>1. /\ op.step = "ready" /\ op' = Operation("removeConfig", c)
      /\ "removeConfig" \in Events
      /\ c \in configs /\ c # activeConfigId
      /\ files' = [files EXCEPT ![c] = NoFile]
      /\ UNCHANGED <<history, memory>> /\ activeFile' = activeFile
  BY DEF RemoveConfig, Ready, Operation, Events
<1>2. files \in [Names -> Contents \cup {NoFile}] /\ c \in Names
  BY DEF Inv, TypeOK, Names
<1>3. files'[c] = NoFile /\ \A n \in Names \ {c} : files'[n] = files[n]
  BY <1>1, <1>2
<1>4. Named' = Named \ {c} /\ Copied' = Copied
  BY <1>2, <1>3, NamesDiffer DEF Named, Copied
<1>5. FilesHoldTheirNames'
  BY <1>3, NamesDiffer DEF Inv, FilesHoldTheirNames
<1>6. Stored' = (Stored \ {c}) \cup (Copied \cap {c})
  BY <1>1, <1>4, <1>5, StoredNames, ReadyAgrees
<1>7. c \in Stored \ {StoredActive} /\ c # activeFile
  BY <1>1, ReadyAgrees
<1>8. ActiveIsStored' /\ StoredActive' = StoredActive
  BY <1>1, <1>6, <1>7, ReadyAgrees, NamesDiffer DEF Inv, ActiveIsStored, StoredActive
<1>9. TypeOK'
  <2>1. files' \in [Names -> Contents \cup {NoFile}]
    BY <1>1, <1>2
  <2> QED BY <1>1, <2>1, FirstStepKeeps DEF Inv, TypeOK
<1>10. OperationsDiffer'
  <2>1. Pending' = "removeConfig" /\ op'.name = c /\ op'.step = "removeConfig"
    BY <1>1, FirstStepKeeps
  <2>2. UNCHANGED <<configs, activeConfigId, todo, shownActive>>
    BY <1>1, FirstStepKeeps
  <2>3. Expected' = configs \ {c}
    BY <2>1, <2>2 DEF Expected
  <2> QED BY <1>1, <1>4, <1>6, <1>7, <2>1, <2>2, <2>3, ReadyAgrees
          DEF OperationsDiffer, Events
<1>11. Inv'
  BY <1>1, <1>5, <1>8, <1>9, <1>10, FirstStepKeeps DEF Inv
<1>12. View!Remove(c)
  BY <1>4, <1>6, <1>7, <1>8 DEF View!Remove
<1> QED BY <1>1, <1>11, <1>12, FirstStepKeeps DEF View!Operate

LEMMA RecordInHistoryStep ==
  ASSUME Inv, RecordInHistory
  PROVE  Inv' /\ DiskUnchanged /\ Phase' = Phase
<1> DEFINE row == <<op.step, op.name>>
<1>1. /\ op.step \in Events /\ history' = Append(history, row)
      /\ op' = [op EXCEPT !.step = "recorded"]
      /\ UNCHANGED <<files, activeFile, configs, activeConfigId, todo, rows, shownActive>>
  BY DEF RecordInHistory, memory, model
<1>2. op'.step = "recorded" /\ op'.name = op.name
  BY <1>1 DEF Inv, TypeOK
<1>3. Pending = op.step /\ op.step # "ready" /\ op.name \in Configs
  <2>1. Pending = op.step /\ op.step # "ready"
    BY <1>1 DEF Pending, Events
  <2> QED BY <1>1, <2>1 DEF Inv, OperationsDiffer
<1>4. row \in HistoryRows /\ row[1] = op.step
  BY <1>1, <1>3 DEF HistoryRows
<1> HIDE DEF row
<1>5. history' \in Seq(HistoryRows) /\ history'[Len(history')] = row
  <2>1. history \in Seq(HistoryRows)
    BY DEF Inv, TypeOK
  <2> HIDE DEF HistoryRows
  <2>2. /\ Append(history, row) \in Seq(HistoryRows)
        /\ Len(Append(history, row)) = Len(history) + 1
        /\ Append(history, row)[Len(history) + 1] = row
    BY <1>4, <2>1, AppendProperties
  <2> QED BY <1>1, <2>2
<1>6. Pending' = Pending /\ Expected' = Expected
  BY <1>1, <1>2, <1>3, <1>4, <1>5 DEF Pending, Expected
<1>7. DiskUnchanged /\ Named' = Named /\ FilesHoldTheirNames' /\ ActiveIsStored'
  BY <1>1, SameFiles DEF Inv
<1>8. TypeOK'
  <2>1. op' \in [step : Steps, name : Names \cup {NoConfig}]
    BY <1>1 DEF Inv, TypeOK, Steps
  <2> QED BY <1>1, <1>5, <2>1 DEF Inv, TypeOK
<1>9. RowsAreConfigs'
  BY <1>1 DEF Inv, RowsAreConfigs, Distinct, Elements
<1>10. OperationsDiffer'
  BY <1>1, <1>2, <1>3, <1>6, <1>7 DEF Inv, OperationsDiffer, DiskUnchanged
<1>11. StoppedForgets' /\ OpeningReads' /\ RenamesMisnamed'
  BY <1>2 DEF StoppedForgets, OpeningReads, RenamesMisnamed
<1>12. Phase' = Phase
  BY <1>1, <1>2 DEF Phase, Events
<1> QED BY <1>7, <1>8, <1>9, <1>10, <1>11, <1>12 DEF Inv

LEMMA ApplyStep ==
  ASSUME Inv, Apply
  PROVE  Inv' /\ View!Return
<1> DEFINE c == op.name
<1>1. /\ op.step = "recorded" /\ op' = Ready /\ op'.step = "ready"
      /\ UNCHANGED <<files, activeFile, history, todo>>
      /\ Pending = history[Len(history)][1]
  BY DEF Apply, Ready, Operation, disk, Pending
<1>2. /\ Pending \in Events /\ c \in Configs /\ todo = {}
      /\ shownActive = activeConfigId
      /\ Named \subseteq Expected /\ Expected \subseteq Stored
      /\ activeFile \in configs \cup {NoConfig}
      /\ activeFile = IF Pending = "activateConfig" THEN c ELSE activeConfigId
  BY <1>1 DEF Inv, OperationsDiffer
<1>3. DiskUnchanged /\ Named' = Named /\ FilesHoldTheirNames' /\ ActiveIsStored'
  BY <1>1, SameFiles DEF Inv
<1>4. rows \in Seq(Configs) /\ Distinct(rows) /\ Elements(rows) = configs
  BY DEF Inv, TypeOK, RowsAreConfigs
<1>5. /\ configs' = Expected /\ activeConfigId' = activeFile /\ shownActive' = activeFile
      /\ rows' \in Seq(Configs) /\ Distinct(rows') /\ Elements(rows') = configs'
      /\ activeFile \in configs' \cup {NoConfig}
  <2>1. CASE Pending = "addConfig"
    <3>1. /\ configs' = configs \cup {c} /\ rows' = Added(rows, c)
          /\ activeConfigId' = activeConfigId /\ shownActive' = shownActive
      BY <1>1, <2>1 DEF Apply
    <3>2. Expected = configs \cup {c} /\ activeFile = activeConfigId
      BY <1>2, <2>1 DEF Expected
    <3>3. rows' \in Seq(Configs) /\ Distinct(rows')
          /\ Elements(rows') = Elements(rows) \cup {c}
      BY <1>2, <1>4, <3>1, AddedProperties
    <3> QED BY <1>2, <1>4, <3>1, <3>2, <3>3
  <2>2. CASE Pending = "activateConfig"
    <3>1. /\ configs' = configs /\ rows' = rows
          /\ activeConfigId' = c /\ shownActive' = c
      BY <1>1, <2>2 DEF Apply
    <3>2. Expected = configs /\ activeFile = c
      BY <1>2, <2>2 DEF Expected
    <3> QED BY <1>2, <1>4, <3>1, <3>2
  <2>3. CASE Pending = "removeConfig"
    <3>1. /\ configs' = configs \ {c} /\ rows' = Removed(rows, c)
          /\ activeConfigId' = activeConfigId /\ shownActive' = shownActive
      BY <1>1, <2>3 DEF Apply
    <3>2. Expected = configs \ {c} /\ c # activeFile /\ activeFile = activeConfigId
      BY <1>1, <1>2, <2>3 DEF Inv, OperationsDiffer, Expected
    <3>3. rows' \in Seq(Configs) /\ Distinct(rows')
          /\ Elements(rows') = Elements(rows) \ {c}
      BY <1>4, <3>1, RemovedProperties
    <3> QED BY <1>2, <1>4, <3>1, <3>2, <3>3
  <2> QED BY <1>2, <2>1, <2>2, <2>3 DEF Events
<1>6. TypeOK'
  <2>1. Expected \subseteq Configs
    BY <1>2 DEF Stored
  <2> QED BY <1>1, <1>5, <2>1 DEF Inv, TypeOK, Ready, Operation, Steps
<1>7. RowsAreConfigs'
  BY <1>5 DEF RowsAreConfigs, Distinct, Elements
<1>8. OperationsDiffer'
  <2>1. Pending' = "ready" /\ Expected' = configs'
    BY <1>1 DEF Pending, Expected
  <2> QED BY <1>1, <1>2, <1>3, <1>5, <2>1 DEF OperationsDiffer, DiskUnchanged
<1>9. StoppedForgets' /\ OpeningReads' /\ RenamesMisnamed'
  BY <1>1 DEF StoppedForgets, OpeningReads, RenamesMisnamed
<1>10. Phase = "busy" /\ Phase' = "ready"
  BY <1>1 DEF Phase
<1>11. View!Return
  BY <1>3, <1>10 DEF View!Return, DiskUnchanged
<1> QED BY <1>3, <1>6, <1>7, <1>8, <1>9, <1>11 DEF Inv

LEMMA CrashStep ==
  ASSUME Inv, Crash
  PROVE  Inv' /\ View!Crash
<1>1. /\ op' = Stopped /\ op'.step = "stopped" /\ op.step # "stopped"
      /\ history' = history \/ history' = Append(history, Torn)
      /\ configs' = {} /\ activeConfigId' = NoConfig /\ todo' = {}
      /\ rows' = <<>> /\ shownActive' = NoConfig
      /\ UNCHANGED <<files, activeFile>>
  <2>1. op.step # "stopped"
    BY DEF Crash, Inv, StoppedForgets
  <2> QED BY <2>1 DEF Crash, Stopped, Operation
<1>2. DiskUnchanged /\ FilesHoldTheirNames' /\ ActiveIsStored'
  BY <1>1, SameFiles DEF Inv
<1>3. TypeOK'
  <2>1. history \in Seq(HistoryRows) /\ Torn \in HistoryRows
    BY DEF Inv, TypeOK, HistoryRows
  <2>2. history' \in Seq(HistoryRows)
    <3> HIDE DEF HistoryRows
    <3> QED BY <1>1, <2>1, AppendProperties
  <2> QED BY <1>1, <2>2 DEF Inv, TypeOK, Stopped, Operation, Steps
<1>4. RowsAreConfigs'
  BY <1>1 DEF RowsAreConfigs, Distinct, Elements
<1>5. StoppedForgets' /\ OpeningReads' /\ RenamesMisnamed' /\ OperationsDiffer'
  BY <1>1 DEF StoppedForgets, OpeningReads, RenamesMisnamed, OperationsDiffer, Events
<1>6. Inv'
  BY <1>2, <1>3, <1>4, <1>5 DEF Inv
<1>7. Phase # "stopped" /\ Phase' = "stopped"
  BY <1>1 DEF Phase
<1> QED BY <1>2, <1>6, <1>7 DEF View!Crash, DiskUnchanged

-----------------------------------------------------------------------------
(* The theorems.                                                           *)

\* What a step makes of the invariant and of the abstract repository.
LEMMA NextStep ==
  ASSUME Edited = {}, Inv, [Next]_vars
  PROVE  Inv' /\ (View!Next \/ (DiskUnchanged /\ Phase' = Phase))
<1>1. ASSUME NEW name \in Names, NEW content \in Contents, DropFile(name, content)
      PROVE  Inv' /\ (View!Next \/ (DiskUnchanged /\ Phase' = Phase))
  BY <1>1, DropFileStep DEF View!Next
<1>2. CASE OpenRepository
  BY <1>2, OpenRepositoryStep DEF View!Next
<1>3. ASSUME NEW name \in Names,
             \/ SkipFile(name) \/ OpenIncorrectFile(name) \/ OpenFile(name)
             \/ OpenMisnamedFile(name) \/ RenameFile(name)
      PROVE  Inv' /\ View!Tidy
  BY <1>3, SkipFileStep, OpenFileStep, OpenIncorrectFileStep, OpenMisnamedFileStep,
     RenameFileStep
<1>4. CASE RepositoryOpened
  BY <1>4, RepositoryOpenedStep DEF View!Next
<1>5. ASSUME NEW c \in Configs, AddConfig(c) \/ ActivateConfig(c) \/ RemoveConfig(c)
      PROVE  Inv' /\ View!Operate
  BY <1>5, AddConfigStep, ActivateConfigStep, RemoveConfigStep
<1>6. CASE RecordInHistory
  BY <1>6, RecordInHistoryStep
<1>7. CASE Apply
  BY <1>7, ApplyStep DEF View!Next
<1>8. CASE Crash
  BY <1>8, CrashStep DEF View!Next
<1>9. CASE UNCHANGED vars
  <2>1. UNCHANGED <<files, activeFile, history, configs, activeConfigId, todo, rows,
                    shownActive, op>>
    BY <1>9 DEF vars, disk, memory, model
  <2>2. DiskUnchanged /\ Named' = Named /\ FilesHoldTheirNames' /\ ActiveIsStored'
    BY <2>1, SameFiles DEF Inv
  <2>3. Pending' = Pending /\ Expected' = Expected /\ Phase' = Phase
    BY <2>1 DEF Pending, Expected, Phase
  <2>4. TypeOK' /\ RowsAreConfigs'
    BY <2>1 DEF Inv, TypeOK, RowsAreConfigs, Distinct, Elements
  <2>5. StoppedForgets' /\ OpeningReads' /\ RenamesMisnamed' /\ OperationsDiffer'
    BY <2>1, <2>2, <2>3 DEF Inv, StoppedForgets, OpeningReads, RenamesMisnamed,
                            OperationsDiffer, DiskUnchanged
  <2> QED BY <2>2, <2>3, <2>4, <2>5 DEF Inv
<1> QED BY <1>1, <1>2, <1>3, <1>4, <1>5, <1>6, <1>7, <1>8, <1>9 DEF Next, View!Next

\* The invariant holds in every reachable state.
LEMMA InvAlways ==
  ASSUME Edited = {}
  PROVE  Spec => []Inv
<1>1. Init => Inv
  BY InitInv
<1>2. Inv /\ [Next]_vars => Inv'
  BY NextStep
<1> QED BY <1>1, <1>2, PTL DEF Spec

\* Between operations, memory and the models of the user interface hold what the
\* files hold, but for the configurations that were removed and of which another file
\* holds a copy (LocalConfigRepository, ConfigsModel).
THEOREM MemoryAgrees ==
  ASSUME Edited = {}
  PROVE  Spec => []MemoryAgreesWithDisk
<1>1. Inv => MemoryAgreesWithDisk
  <2> SUFFICES ASSUME Inv, op = Ready
               PROVE  /\ configs \subseteq Stored
                      /\ \A c \in Stored \ configs : c \in Copied /\ files[c] # c
                      /\ activeConfigId = IF activeFile \in configs THEN activeFile
                                          ELSE NoConfig
                      /\ shownActive = activeConfigId
                      /\ Len(rows) = Cardinality(configs)
                      /\ {rows[i] : i \in DOMAIN rows} = configs
    BY DEF MemoryAgreesWithDisk
  <2>1. op.step = "ready"
    BY DEF Ready, Operation
  <2>2. \A c \in Stored \ configs : c \in Copied /\ files[c] # c
    BY <2>1, ReadyAgrees DEF Named, Stored
  <2>3. activeConfigId = IF activeFile \in configs THEN activeFile ELSE NoConfig
    BY <2>1, ReadyAgrees
  <2>4. rows \in Seq(Configs) /\ Distinct(rows) /\ Elements(rows) = configs
    BY DEF Inv, TypeOK, RowsAreConfigs
  <2>5. {rows[i] : i \in DOMAIN rows} = configs
    BY <2>4 DEF Elements
  <2>6. Len(rows) = Cardinality(configs)
    BY <2>4, LengthOfDistinct
  <2> QED BY <2>1, <2>2, <2>3, <2>5, <2>6, ReadyAgrees
<1> QED BY <1>1, InvAlways, PTL

\* Every step changes the repository on disk as one whole operation does, or not at
\* all, whatever crashes and whatever is tidied up or stays in place
\* (LocalConfigRepository).
THEOREM RepositoryViewImplemented ==
  ASSUME Edited = {}
  PROVE  Spec => ImplementsRepositoryView
<1>1. Init => View!Init
  BY InitInv DEF View!Init
<1>2. Inv /\ [Next]_vars =>
        [View!Next]_<<Stored, Copied, StoredActive, Phase>>
  BY NextStep DEF DiskUnchanged
<1> QED BY <1>1, <1>2, InvAlways, PTL DEF Spec, ImplementsRepositoryView, View!Spec

-----------------------------------------------------------------------------
(* How configurations are triggered, once activated.                       *)

\* Some natural numbers have a least one.
LEMMA Least == ASSUME NEW S, S \subseteq Nat, S # {} PROVE \E x \in S : \A y \in S : x <= y
<1>1. PICK x \in S : \A y \in S : ~ (<<y, x>> \in OpToRel(<, Nat))
  <2>1. \E x \in S : \A y \in S : ~ (<<y, x>> \in OpToRel(<, Nat))
    BY NatLessThanWellFounded, WFMin
  <2> QED BY <2>1
<1>2. ASSUME NEW y \in S, y < x PROVE FALSE
  <2>1. x \in Nat /\ y \in Nat
    OBVIOUS
  <2>2. <<y, x>> \in OpToRel(<, Nat)
    BY <1>2, <2>1 DEF OpToRel
  <2> QED BY <1>1, <2>2
<1>3. \A y \in S : x <= y
  BY <1>2
<1> QED BY <1>3

-----------------------------------------------------------------------------
(* Units of time.                                                          *)

LEMMA Product ==
  ASSUME NEW a \in Int, NEW b \in Int, NEW c \in Nat, a <= b
  PROVE  a * c <= b * c
OBVIOUS

\* Division with a remainder.
LEMMA Euclid ==
  ASSUME NEW t \in Int, NEW b \in Nat \ {0}
  PROVE  /\ t \div b \in Int /\ t % b \in 0 .. b - 1
         /\ t = b * (t \div b) + (t % b)
         /\ t >= 0 => t \div b \in Nat
OBVIOUS

LEMMA Remainder ==
  ASSUME NEW t \in Nat, NEW b \in Nat \ {0} PROVE t % b \in Nat /\ t % b < b
OBVIOUS

\* The quotient is the number of whole units before a date.
LEMMA Quotient ==
  ASSUME NEW u \in Int, NEW b \in Nat \ {0}, NEW q \in Int, q * b <= u, u < (q + 1) * b
  PROVE  u \div b = q
<1>1. u = b * (u \div b) + (u % b) /\ u % b \in 0 .. b - 1 /\ u \div b \in Int
  BY Euclid
<1>2. CASE u \div b > q
  <2>1. (q + 1) * b <= (u \div b) * b
    BY <1>1, <1>2, Product
  <2> QED BY <2>1, <1>1
<1>3. CASE u \div b < q
  <2>1. (u \div b + 1) * b <= q * b
    BY <1>1, <1>3, Product
  <2> QED BY <2>1, <1>1
<1> QED BY <1>1, <1>2, <1>3

\* The dates of a unit, from one of them to the start of the next unit.
LEMMA RestOfUnit ==
  ASSUME NEW t \in Nat, NEW b \in Nat \ {0}
  PROVE  /\ (t \div b + 1) * b \in Nat /\ t < (t \div b + 1) * b
         /\ \A u \in t .. (t \div b + 1) * b - 1 : u \div b = t \div b
<1>1. /\ t = b * (t \div b) + (t % b) /\ t % b \in 0 .. b - 1
      /\ t \div b \in Nat
  <2>1. t \in Int /\ t >= 0
    OBVIOUS
  <2> QED BY <2>1, Euclid
<1>2. PICK q \in Nat : q = t \div b
  BY <1>1
<1>3. q * b <= t /\ t < (q + 1) * b /\ (q + 1) * b \in Nat
  BY <1>1, <1>2
<1>4. ASSUME NEW u \in t .. (q + 1) * b - 1 PROVE u \div b = q
  BY <1>3, Quotient
<1> QED BY <1>2, <1>3, <1>4

\* A unit in a larger one: the hours of the day, the minutes of the hour.
LEMMA Nested ==
  ASSUME NEW t \in Nat, NEW a \in Nat \ {0}, NEW b \in Nat \ {0}
  PROVE  (t % (a * b)) \div a = (t \div a) % b
<1>1. a * b \in Nat \ {0}
  OBVIOUS
<1>2. PICK q \in Nat, r \in 0 .. a * b - 1 : t = (a * b) * q + r /\ r = t % (a * b)
  <2>1. PICK c \in Nat \ {0} : c = a * b
    BY <1>1
  <2>2. t = c * (t \div c) + (t % c) /\ t % c \in 0 .. c - 1 /\ t \div c \in Nat
    BY Euclid, t \in Int, t >= 0
  <2> QED BY <2>1, <2>2
<1>3. PICK k \in Nat, l \in 0 .. a - 1 : r = a * k + l /\ k = r \div a
  BY Euclid
<1>4. k < b
  <2> SUFFICES ASSUME b <= k PROVE FALSE
    OBVIOUS
  <2>1. b * a <= k * a
    BY Product
  <2> QED BY <1>2, <1>3, <2>1
<1>5. t \div a = b * q + k
  <2>1. PICK p \in Nat : p = b * q + k
    OBVIOUS
  <2>2. p * a = (a * b) * q + a * k
    BY <2>1
  <2>3. t = p * a + l
    <3>1. PICK x \in Int : x = (a * b) * q
      OBVIOUS
    <3>2. PICK y \in Int : y = a * k
      OBVIOUS
    <3>3. t = x + r /\ r = y + l
      BY <1>2, <1>3, <3>1, <3>2
    <3>4. p * a = x + y
      BY <2>2, <3>1, <3>2
    <3> QED BY <3>3, <3>4
  <2>4. p * a <= t /\ t < (p + 1) * a
    BY <2>3
  <2> QED BY <2>1, <2>4, Quotient
<1>6. PICK p \in Nat : p = b * q + k
  OBVIOUS
<1>7. p % b = k
  <2>1. p \div b = q
    BY <1>4, <1>6, Quotient
  <2> QED BY <1>6, <2>1, Euclid
<1> QED BY <1>2, <1>3, <1>5, <1>6, <1>7

LEMMA Units ==
  /\ SecondsPerMinute \in Nat \ {0} /\ MinutesPerHour \in Nat \ {0}
  /\ HoursPerDay \in Nat \ {0} /\ DaysPerWeek \in Nat \ {0}
  /\ SecondsPerHour \in Nat \ {0} /\ SecondsPerDay \in Nat \ {0}
<1>1. /\ SecondsPerMinute \in Nat \ {0} /\ MinutesPerHour \in Nat \ {0}
      /\ HoursPerDay \in Nat \ {0} /\ DaysPerWeek \in Nat \ {0}
  BY UnitsAssumption
<1>2. SecondsPerHour \in Nat \ {0}
  BY <1>1 DEF SecondsPerHour
<1>3. SecondsPerDay \in Nat \ {0}
  BY <1>1, <1>2 DEF SecondsPerDay
<1> QED BY <1>1, <1>2, <1>3

\* The hour only depends on the hours that are over, and the minute on the minutes.
LEMMA HourAndMinute ==
  ASSUME NEW t \in Nat
  PROVE  /\ Hour(t) = (t \div SecondsPerHour) % HoursPerDay
         /\ Minute(t) = (t \div SecondsPerMinute) % MinutesPerHour
BY Units, Nested DEF Hour, Minute, SecondsPerDay, SecondsPerHour

\* The first days of the months are counted for any number of months.
LEMMA MonthsExist ==
  ASSUME NEW n \in Nat
  PROVE  \E f : f = [m \in 1 .. n + 1 |-> IF m = 1 THEN 0 ELSE f[m - 1] + MonthLengths[m - 1]]
<1> DEFINE Sum(k) == \E f : f = [m \in 1 .. k + 1 |-> IF m = 1 THEN 0 ELSE f[m - 1] + MonthLengths[m - 1]]
           S == {k \in Nat : Sum(k)}
<1>1. 0 \in S
  <2> DEFINE g == [m \in 1 .. 0 + 1 |-> 0]
             h == [m \in 1 .. 0 + 1 |-> IF m = 1 THEN 0 ELSE g[m - 1] + MonthLengths[m - 1]]
  <2>1. \A m \in 1 .. 0 + 1 : m = 1
    OBVIOUS
  <2>2. g = h
    BY <2>1
  <2>3. Sum(0)
    BY <2>2
  <2> QED BY <2>3
<1>2. ASSUME NEW k \in Nat, k \in S PROVE k + 1 \in S
  <2>1. PICK f : f = [m \in 1 .. k + 1 |-> IF m = 1 THEN 0 ELSE f[m - 1] + MonthLengths[m - 1]]
    BY <1>2
  <2> DEFINE g == [m \in 1 .. (k + 1) + 1 |-> IF m = k + 2 THEN f[k + 1] + MonthLengths[k + 1] ELSE f[m]]
             h == [m \in 1 .. (k + 1) + 1 |-> IF m = 1 THEN 0 ELSE g[m - 1] + MonthLengths[m - 1]]
  <2>2. ASSUME NEW m \in 1 .. (k + 1) + 1 PROVE g[m] = h[m]
    <3>1. CASE m = k + 2
      <4>1. m # 1 /\ m - 1 = k + 1 /\ k + 1 \in 1 .. (k + 1) + 1 /\ k + 1 # k + 2
        BY <3>1
      <4> QED BY <3>1, <4>1
    <3>2. CASE m # k + 2 /\ m # 1
      <4>1. m \in 1 .. k + 1 /\ m - 1 \in 1 .. (k + 1) + 1 /\ m - 1 # k + 2
        BY <3>2
      <4>2. f[m] = f[m - 1] + MonthLengths[m - 1]
        BY <2>1, <3>2, <4>1
      <4> QED BY <3>2, <4>1, <4>2
    <3>3. CASE m = 1
      <4>1. f[1] = 0 /\ m # k + 2
        BY <2>1, <3>3
      <4> QED BY <3>3, <4>1
    <3> QED BY <3>1, <3>2, <3>3
  <2>3. g = h
    BY <2>2
  <2>4. Sum(k + 1)
    BY <2>3
  <2> QED BY <2>4
<1> HIDE DEF S
<1>3. Nat \subseteq S
  BY <1>1, <1>2, Induction
<1> QED BY <1>3 DEF S

\* The months follow one another.
LEMMA MonthStarts ==
  /\ Len(MonthLengths) \in Nat \ {0} /\ Months = 1 .. Len(MonthLengths)
  /\ DaysBefore[1] = 0
  /\ \A m \in Months : DaysBefore[m + 1] = DaysBefore[m] + MonthLengths[m]
<1>1. /\ Len(MonthLengths) \in Nat \ {0} /\ Months = 1 .. Len(MonthLengths)
  BY UnitsAssumption DEF Months
<1>2. PICK n \in Nat : n = Len(MonthLengths)
  BY <1>1
<1>3. DaysBefore = [m \in 1 .. n + 1 |-> IF m = 1 THEN 0 ELSE DaysBefore[m - 1] + MonthLengths[m - 1]]
  <2> DEFINE Sum(f) == f = [m \in 1 .. n + 1 |-> IF m = 1 THEN 0 ELSE f[m - 1] + MonthLengths[m - 1]]
  <2>1. DaysBefore = CHOOSE f : Sum(f)
    BY <1>2 DEF DaysBefore
  <2>2. \E f : Sum(f)
    BY MonthsExist
  <2> HIDE DEF Sum
  <2>3. Sum(DaysBefore)
    BY <2>1, <2>2
  <2> QED BY <2>3 DEF Sum
<1>4. DaysBefore[1] = 0
  BY <1>3
<1>5. ASSUME NEW m \in Months PROVE DaysBefore[m + 1] = DaysBefore[m] + MonthLengths[m]
  <2>1. m + 1 \in 1 .. n + 1 /\ m + 1 # 1 /\ (m + 1) - 1 = m
    BY <1>1, <1>2
  <2> QED BY <1>3, <2>1
<1> QED BY <1>1, <1>4, <1>5

Increasing(m) == DaysBefore[m] \in Nat /\ \A k \in 1 .. m - 1 : DaysBefore[k] \in Nat /\ DaysBefore[k] < DaysBefore[m]
LEMMA MonthsIncrease == \A m \in 1 .. Len(MonthLengths) + 1 : Increasing(m)
<1> DEFINE S == {n \in Nat : n < Len(MonthLengths) + 1 => Increasing(n + 1)}
<1>1. 0 \in S
  BY MonthStarts DEF Increasing
<1>2. ASSUME NEW n \in Nat, n \in S PROVE n + 1 \in S
  <2> SUFFICES ASSUME n + 1 < Len(MonthLengths) + 1 PROVE Increasing(n + 2)
    OBVIOUS
  <2>1. Increasing(n + 1) /\ n + 1 \in Months
    BY <1>2, MonthStarts
  <2>2. MonthLengths[n + 1] \in Nat \ {0}
    BY <2>1, UnitsAssumption DEF Months
  <2>3. DaysBefore[n + 2] = DaysBefore[n + 1] + MonthLengths[n + 1]
    <3>1. (n + 1) + 1 = n + 2
      OBVIOUS
    <3> QED BY <2>1, <3>1, MonthStarts
  <2>4. DaysBefore[n + 1] \in Nat
    BY <2>1 DEF Increasing
  <2>5. DaysBefore[n + 2] \in Nat /\ DaysBefore[n + 1] < DaysBefore[n + 2]
    BY <2>2, <2>3, <2>4
  <2>6. ASSUME NEW k \in 1 .. (n + 2) - 1 PROVE DaysBefore[k] \in Nat /\ DaysBefore[k] < DaysBefore[n + 2]
    <3>1. CASE k = n + 1
      BY <3>1, <2>4, <2>5
    <3>2. CASE k \in 1 .. n
      <4>1. DaysBefore[k] \in Nat /\ DaysBefore[k] < DaysBefore[n + 1]
        BY <2>1, <3>2 DEF Increasing
      <4> QED BY <4>1, <2>4, <2>5
    <3> QED BY <3>1, <3>2
  <2> QED BY <2>5, <2>6 DEF Increasing
<1> HIDE DEF S
<1>3. Nat \subseteq S
  BY <1>1, <1>2, Induction
<1>4. ASSUME NEW m \in 1 .. Len(MonthLengths) + 1 PROVE Increasing(m)
  <2>1. m - 1 \in Nat /\ m - 1 < Len(MonthLengths) + 1 /\ (m - 1) + 1 = m
    BY MonthStarts
  <2>2. m - 1 \in S
    BY <1>3, <2>1
  <2> QED BY <2>1, <2>2 DEF S
<1> QED BY <1>4

LEMMA YearLength ==
  /\ DaysPerYear \in Nat \ {0} /\ DaysPerYear = DaysBefore[Len(MonthLengths) + 1]
  /\ \A m \in 1 .. Len(MonthLengths) + 1 : DaysBefore[m] \in Nat /\ DaysBefore[m] <= DaysPerYear
<1>1. Len(MonthLengths) \in Nat \ {0}
  BY MonthStarts
<1>2. PICK n \in Nat \ {0} : n = Len(MonthLengths)
  BY <1>1
<1>3. DaysPerYear = DaysBefore[n + 1] /\ n + 1 \in 1 .. n + 1
  BY <1>2 DEF DaysPerYear
<1>4. Increasing(n + 1)
  BY <1>2, <1>3, MonthsIncrease
<1>5. 1 \in 1 .. (n + 1) - 1
  OBVIOUS
<1>6. DaysBefore[n + 1] \in Nat /\ DaysBefore[1] < DaysBefore[n + 1] /\ DaysBefore[1] = 0
  BY <1>4, <1>5, MonthStarts DEF Increasing
<1>7. ASSUME NEW m \in 1 .. n + 1 PROVE DaysBefore[m] \in Nat /\ DaysBefore[m] <= DaysBefore[n + 1]
  <2>1. CASE m = n + 1
    BY <1>6, <2>1
  <2>2. CASE m # n + 1
    <3>1. m \in 1 .. (n + 1) - 1
      BY <2>2
    <3> QED BY <1>4, <1>6, <3>1 DEF Increasing
  <2> QED BY <2>1, <2>2
<1> QED BY <1>2, <1>3, <1>6, <1>7

\* The month of a day is the one the day is in.
InMonth(m, day) ==
  m \in Months /\ DaysBefore[m] <= day % DaysPerYear /\ day % DaysPerYear < DaysBefore[m + 1]
LEMMA OnlyMonth == ASSUME NEW day \in Nat, NEW m, InMonth(m, day) PROVE Month(day) = m
<1> DEFINE S == {k \in Months : DaysBefore[k] <= day % DaysPerYear}
<1>1. PICK n \in Nat \ {0} : n = Len(MonthLengths) /\ Months = 1 .. n
  BY MonthStarts
<1>2. m \in 1 .. n /\ m \in S
  BY <1>1 DEF InMonth
<1>3. day % DaysPerYear \in Nat
  BY YearLength, Remainder
<1>4. ASSUME NEW k \in S PROVE k <= m
  <2> SUFFICES ASSUME m < k PROVE FALSE
    BY <1>1, <1>2
  <2>1. m + 1 \in 1 .. n + 1 /\ k \in 1 .. n + 1
    BY <1>1, <1>2
  <2>2. DaysBefore[m + 1] \in Nat /\ DaysBefore[k] \in Nat
    BY <1>1, <2>1, YearLength
  <2>3. DaysBefore[m + 1] <= DaysBefore[k]
    <3>1. CASE k = m + 1
      BY <3>1, <2>2
    <3>2. CASE k # m + 1
      <4>1. m + 1 \in 1 .. k - 1
        BY <1>1, <1>2, <2>1, <3>2
      <4>2. Increasing(k)
        BY <1>1, <2>1, MonthsIncrease
      <4> QED BY <4>1, <4>2, <2>2 DEF Increasing
    <3> QED BY <3>1, <3>2
  <2> QED BY <1>3, <2>2, <2>3 DEF InMonth
<1>5. ASSUME NEW k, k \in S, \A y \in S : y <= k PROVE k = m
  BY <1>1, <1>2, <1>4, <1>5
<1>6. Month(day) = CHOOSE k \in S : \A y \in S : y <= k
  BY DEF Month, Greatest
<1> HIDE DEF S
<1> QED BY <1>2, <1>4, <1>5, <1>6

LEMMA MonthOf == ASSUME NEW day \in Nat PROVE InMonth(Month(day), day)
<1>1. PICK n \in Nat \ {0} : n = Len(MonthLengths) /\ Months = 1 .. n
  BY MonthStarts
<1>2. PICK d \in Nat : d = day % DaysPerYear /\ d < DaysPerYear
  BY YearLength, Remainder
<1> DEFINE T == {m \in Nat : m \in 2 .. n + 1 /\ d < DaysBefore[m]}
<1>3. n + 1 \in T
  BY <1>1, <1>2, YearLength
<1>4. PICK m \in T : \A k \in T : m <= k
  BY <1>3, Least
<1>5. m - 1 \in 1 .. n /\ (m - 1) + 1 = m
  BY <1>4
<1>6. DaysBefore[m - 1] <= d
  <2>1. CASE m = 2
    <3>1. m - 1 = 1
      BY <2>1
    <3> QED BY <3>1, MonthStarts
  <2>2. CASE m # 2
    <3>1. m - 1 \in 2 .. n + 1 /\ m - 1 \in Nat /\ ~ (m <= m - 1)
      BY <1>5, <2>2
    <3>2. m - 1 \notin T
      BY <1>4, <3>1
    <3>3. m - 1 \in 1 .. n + 1
      BY <3>1
    <3>4. DaysBefore[m - 1] \in Nat
      BY <1>1, <3>3, YearLength
    <3> QED BY <3>1, <3>2, <3>4
  <2> QED BY <2>1, <2>2
<1>7. InMonth(m - 1, day)
  BY <1>1, <1>2, <1>4, <1>5, <1>6 DEF InMonth
<1> QED BY <1>7, OnlyMonth

\* The dates from one of them to the start of the next month.
LEMMA RestOfMonth ==
  ASSUME NEW t \in Nat
  PROVE  /\ StartOfNextMonth(Day(t)) \in Nat /\ t < StartOfNextMonth(Day(t))
         /\ \A u \in t .. StartOfNextMonth(Day(t)) - 1 : Month(Day(u)) = Month(Day(t))
<1>1. PICK b \in Nat \ {0} : b = SecondsPerDay
  BY Units
<1>2. PICK y \in Nat \ {0} : y = DaysPerYear
  BY YearLength
<1>3. PICK day \in Nat : day = Day(t)
  BY <1>1, Euclid, t \in Int, t >= 0 DEF Day
<1>4. PICK m : m = Month(day) /\ InMonth(m, day)
  BY MonthOf
<1>5. PICK q \in Nat, d \in Nat : day = y * q + d /\ d = day % y /\ d < y
  <2>1. day \div y \in Nat /\ day = y * (day \div y) + (day % y)
    BY Euclid, day \in Int, day >= 0
  <2>2. day % y \in Nat /\ day % y < y
    BY Remainder
  <2> QED BY <2>1, <2>2
<1>6. PICK n \in Nat \ {0} : n = Len(MonthLengths) /\ Months = 1 .. n
  BY MonthStarts
<1>7. m \in 1 .. n /\ m + 1 \in 1 .. n + 1
  BY <1>4, <1>6 DEF InMonth
<1>8. PICK e \in Nat, c \in Nat : /\ e = DaysBefore[m + 1] /\ c = DaysBefore[m]
                                 /\ c <= d /\ d < e /\ e <= y
  <2>1. m \in 1 .. n + 1
    BY <1>7
  <2>2. /\ DaysBefore[m + 1] \in Nat /\ DaysBefore[m] \in Nat /\ DaysBefore[m + 1] <= y
    BY <1>2, <1>6, <1>7, <2>1, YearLength
  <2>3. DaysBefore[m] <= d /\ d < DaysBefore[m + 1]
    BY <1>2, <1>4, <1>5 DEF InMonth
  <2> QED BY <2>2, <2>3
<1>9. PICK f \in Nat : f = day - d + e /\ day < f
  <2>1. day - d + e \in Nat /\ day < day - d + e
    BY <1>8, <1>5
  <2> QED BY <2>1
<1>10. StartOfNextMonth(day) = f * b
  BY <1>1, <1>2, <1>4, <1>5, <1>8, <1>9 DEF StartOfNextMonth
<1>11. t = b * day + (t % b) /\ t % b \in 0 .. b - 1
  BY <1>1, <1>3, Euclid DEF Day
<1>12. (day + 1) * b <= f * b
  BY <1>9, Product
<1>13. f * b \in Nat /\ t < f * b
  BY <1>11, <1>12
<1>14. ASSUME NEW u \in t .. f * b - 1 PROVE Month(Day(u)) = m
  <2>1. u \in Nat /\ u < f * b
    BY <1>13
  <2>2. PICK v \in Nat : v = u \div b /\ v = Day(u)
    BY <1>1, <2>1, Euclid, u \in Int, u >= 0 DEF Day
  <2>3. u = b * v + (u % b) /\ u % b \in 0 .. b - 1
    BY <2>1, <2>2, Euclid
  <2>4. v < f
    <3> SUFFICES ASSUME f <= v PROVE FALSE
      OBVIOUS
    <3>1. f * b <= v * b
      BY Product
    <3> QED BY <2>1, <2>3, <3>1
  <2>5. day <= v
    <3> SUFFICES ASSUME v + 1 <= day PROVE FALSE
      OBVIOUS
    <3>1. (v + 1) * b <= day * b
      BY Product
    <3> QED BY <1>11, <2>3, <3>1
  <2>6. PICK p \in Nat : p = y * q
    OBVIOUS
  <2>7. day = p + d /\ f = p + e
    <3>1. day = p + d
      BY ONLY <1>5, <2>6, Zenon
    <3> QED BY <1>8, <1>9, <3>1
  <2>8. v - p \in Nat /\ v - p < e /\ c <= v - p /\ v - p < y
    BY <2>4, <2>5, <2>7, <1>8
  <2>9. v \div y = q
    <3>1. q * y = p /\ (q + 1) * y = p + y
      BY <2>6
    <3> QED BY <2>8, <3>1, Quotient
  <2>10. v % y = v - p
    <3>1. v = y * (v \div y) + (v % y) /\ v % y \in Int
      BY Euclid
    <3>2. v = p + (v % y)
      BY <2>6, <2>9, <3>1
    <3> QED BY <3>1, <3>2
  <2>11. InMonth(m, v)
    BY <1>2, <1>6, <1>7, <1>8, <2>8, <2>10 DEF InMonth
  <2> QED BY <2>2, <2>11, OnlyMonth
<1> QED BY <1>3, <1>4, <1>10, <1>13, <1>14

-----------------------------------------------------------------------------
(* The search of the next date.                                            *)

\* One step of the search: the next date it looks at.
Skip(cron, calendar, t) ==
  IF Month(Day(t)) \notin cron.months THEN StartOfNextMonth(Day(t))
  ELSE IF ~DayMatches(cron, calendar, Day(t)) THEN (Day(t) + 1) * SecondsPerDay
  ELSE IF Hour(t) \notin cron.hours THEN (t \div SecondsPerHour + 1) * SecondsPerHour
  ELSE IF Minute(t) \notin cron.minutes THEN (t \div SecondsPerMinute + 1) * SecondsPerMinute
  ELSE IF Second(t) \notin cron.seconds THEN t + 1
  ELSE t

\* A step of the search stays at a date, and skips none.
LEMMA SkipsNoDate ==
  ASSUME NEW cron, NEW calendar, NEW t \in Nat, ~IsTriggering(cron, calendar, t)
  PROVE  /\ Skip(cron, calendar, t) \in Nat /\ t < Skip(cron, calendar, t)
         /\ \A u \in t .. Skip(cron, calendar, t) - 1 : ~IsTriggering(cron, calendar, u)
<1>1. CASE Month(Day(t)) \notin cron.months
  <2>1. Skip(cron, calendar, t) = StartOfNextMonth(Day(t))
    BY <1>1 DEF Skip
  <2>2. ASSUME NEW u \in t .. StartOfNextMonth(Day(t)) - 1 PROVE ~IsTriggering(cron, calendar, u)
    <3>1. Month(Day(u)) = Month(Day(t))
      BY RestOfMonth
    <3> QED BY <1>1, <3>1 DEF IsTriggering
  <2> QED BY <2>1, <2>2, RestOfMonth
<1>2. CASE Month(Day(t)) \in cron.months /\ ~DayMatches(cron, calendar, Day(t))
  <2>1. Skip(cron, calendar, t) = (Day(t) + 1) * SecondsPerDay
    BY <1>2 DEF Skip
  <2>2. /\ (Day(t) + 1) * SecondsPerDay \in Nat /\ t < (Day(t) + 1) * SecondsPerDay
        /\ \A u \in t .. (Day(t) + 1) * SecondsPerDay - 1 : Day(u) = Day(t)
    BY RestOfUnit, Units DEF Day
  <2>3. ASSUME NEW u \in t .. (Day(t) + 1) * SecondsPerDay - 1 PROVE ~IsTriggering(cron, calendar, u)
    <3>1. Day(u) = Day(t)
      BY <2>2
    <3> QED BY <1>2, <3>1 DEF IsTriggering
  <2> QED BY <2>1, <2>2, <2>3
<1>3. CASE /\ Month(Day(t)) \in cron.months /\ DayMatches(cron, calendar, Day(t))
           /\ Hour(t) \notin cron.hours
  <2> DEFINE z == (t \div SecondsPerHour + 1) * SecondsPerHour
  <2>1. Skip(cron, calendar, t) = z
    BY <1>3 DEF Skip
  <2>2. /\ z \in Nat /\ t < z /\ \A u \in t .. z - 1 : u \div SecondsPerHour = t \div SecondsPerHour
    BY RestOfUnit, Units
  <2> HIDE DEF z
  <2>3. ASSUME NEW u \in t .. z - 1 PROVE ~IsTriggering(cron, calendar, u)
    <3>1. u \in Nat /\ u \div SecondsPerHour = t \div SecondsPerHour
      BY <2>2
    <3>2. Hour(u) = Hour(t)
      BY <3>1, HourAndMinute
    <3> QED BY <1>3, <3>2 DEF IsTriggering
  <2> QED BY <2>1, <2>2, <2>3
<1>4. CASE /\ Month(Day(t)) \in cron.months /\ DayMatches(cron, calendar, Day(t))
           /\ Hour(t) \in cron.hours /\ Minute(t) \notin cron.minutes
  <2> DEFINE z == (t \div SecondsPerMinute + 1) * SecondsPerMinute
  <2>1. Skip(cron, calendar, t) = z
    BY <1>4 DEF Skip
  <2>2. /\ z \in Nat /\ t < z /\ \A u \in t .. z - 1 : u \div SecondsPerMinute = t \div SecondsPerMinute
    BY RestOfUnit, Units
  <2> HIDE DEF z
  <2>3. ASSUME NEW u \in t .. z - 1 PROVE ~IsTriggering(cron, calendar, u)
    <3>1. u \in Nat /\ u \div SecondsPerMinute = t \div SecondsPerMinute
      BY <2>2
    <3>2. Minute(u) = Minute(t)
      BY <3>1, HourAndMinute
    <3> QED BY <1>4, <3>2 DEF IsTriggering
  <2> QED BY <2>1, <2>2, <2>3
<1>5. CASE /\ Month(Day(t)) \in cron.months /\ DayMatches(cron, calendar, Day(t))
           /\ Hour(t) \in cron.hours /\ Minute(t) \in cron.minutes
  <2>1. Second(t) \notin cron.seconds
    BY <1>5 DEF IsTriggering
  <2>2. Skip(cron, calendar, t) = t + 1
    BY <1>5, <2>1 DEF Skip
  <2>3. \A u \in t .. (t + 1) - 1 : u = t
    OBVIOUS
  <2> QED BY <2>2, <2>3
<1> QED BY <1>1, <1>2, <1>3, <1>4, <1>5

\* The dates from t to max, and the first one of some dates.
Dates(cron, calendar, t, max) == {u \in Nat : t <= u /\ u <= max /\ IsTriggering(cron, calendar, u)}
FirstDate(S) == IF S = {} THEN None ELSE CHOOSE x \in S : \A y \in S : x <= y

\* The equation of the search.
Searched(cron, calendar, max, f) ==
  [t \in Nat |-> IF t > max THEN None
                 ELSE IF IsTriggering(cron, calendar, t) THEN t
                 ELSE f[Skip(cron, calendar, t)]]

LEMMA OfSearch ==
  ASSUME NEW cron, NEW calendar, NEW base, NEW max, IsValid(cron)
  PROVE  NextTriggering(cron, calendar, base, max) =
           (CHOOSE f : f = Searched(cron, calendar, max, f))[base + 1]
<1> DEFINE OneStep(f) ==
      [t \in Nat |->
        IF t > max THEN None
        ELSE IF Month(Day(t)) \notin cron.months THEN f[StartOfNextMonth(Day(t))]
        ELSE IF ~DayMatches(cron, calendar, Day(t)) THEN f[(Day(t) + 1) * SecondsPerDay]
        ELSE IF Hour(t) \notin cron.hours THEN f[(t \div SecondsPerHour + 1) * SecondsPerHour]
        ELSE IF Minute(t) \notin cron.minutes THEN f[(t \div SecondsPerMinute + 1) * SecondsPerMinute]
        ELSE IF Second(t) \notin cron.seconds THEN f[t + 1]
        ELSE t]
<1>1. ASSUME NEW f PROVE OneStep(f) = Searched(cron, calendar, max, f)
  <2>1. ASSUME NEW t \in Nat PROVE OneStep(f)[t] = Searched(cron, calendar, max, f)[t]
    <3>1. CASE t > max
      BY <3>1 DEF Searched
    <3>2. CASE ~(t > max) /\ IsTriggering(cron, calendar, t)
      BY <3>2 DEF Searched, IsTriggering
    <3>3. CASE ~(t > max) /\ ~IsTriggering(cron, calendar, t)
      BY <3>3 DEF Searched, IsTriggering, Skip
    <3> QED BY <3>1, <3>2, <3>3
  <2> QED BY <2>1 DEF Searched
<1>2. NextTriggering(cron, calendar, base, max) = (CHOOSE f : f = OneStep(f))[base + 1]
  BY DEF NextTriggering
<1> HIDE DEF OneStep
<1>3. \A f : (f = OneStep(f)) <=> (f = Searched(cron, calendar, max, f))
  BY <1>1
<1>4. (CHOOSE f : f = OneStep(f)) = (CHOOSE f : f = Searched(cron, calendar, max, f))
  BY <1>3
<1> QED BY <1>2, <1>4

LEMMA FirstOfDates ==
  ASSUME NEW S, S \subseteq Nat, S # {}
  PROVE  FirstDate(S) \in S /\ \A y \in S : FirstDate(S) <= y
<1>1. \E x \in S : \A y \in S : x <= y
  BY Least
<1> QED BY <1>1 DEF FirstDate

\* The dates from a date, and from the end of a step of the search.
LEMMA DatesFrom ==
  ASSUME NEW cron, NEW calendar, NEW max \in Int, NEW t \in Nat, t <= max
  PROVE  IF IsTriggering(cron, calendar, t) THEN FirstDate(Dates(cron, calendar, t, max)) = t
         ELSE Dates(cron, calendar, t, max) = Dates(cron, calendar, Skip(cron, calendar, t), max)
<1>1. CASE IsTriggering(cron, calendar, t)
  <2> DEFINE S == Dates(cron, calendar, t, max)
  <2>1. t \in S /\ S \subseteq Nat /\ \A u \in S : t <= u
    BY <1>1 DEF Dates
  <2> HIDE DEF S
  <2>2. FirstDate(S) \in S /\ FirstDate(S) <= t
    BY <2>1, FirstOfDates
  <2>3. FirstDate(S) \in Nat /\ t <= FirstDate(S)
    BY <2>1, <2>2
  <2>4. FirstDate(S) = t
    BY <2>2, <2>3
  <2> QED BY <1>1, <2>4 DEF S
<1>2. CASE ~IsTriggering(cron, calendar, t)
  <2>1. PICK z : z = Skip(cron, calendar, t)
    OBVIOUS
  <2>2. z \in Nat /\ t < z /\ \A u \in t .. z - 1 : ~IsTriggering(cron, calendar, u)
    BY <1>2, <2>1, SkipsNoDate
  <2>3. ASSUME NEW u \in Dates(cron, calendar, t, max) PROVE u \in Dates(cron, calendar, z, max)
    <3>1. u \in Nat /\ t <= u /\ u <= max /\ IsTriggering(cron, calendar, u)
      BY DEF Dates
    <3>2. u \notin t .. z - 1
      BY <2>2, <3>1
    <3>3. z <= u
      BY <2>2, <3>1, <3>2
    <3> QED BY <3>1, <3>3 DEF Dates
  <2>4. ASSUME NEW u \in Dates(cron, calendar, z, max) PROVE u \in Dates(cron, calendar, t, max)
    BY <2>2 DEF Dates
  <2> QED BY <1>2, <2>1, <2>3, <2>4
<1> QED BY <1>1, <1>2

\* The search finds the first date, and it is the only function that solves its
\* equation.
LEMMA SearchExists ==
  ASSUME NEW cron, NEW calendar, NEW max \in Int
  PROVE  \E f : f = Searched(cron, calendar, max, f)
<1> DEFINE g == [t \in Nat |-> FirstDate(Dates(cron, calendar, t, max))]
<1>1. ASSUME NEW t \in Nat PROVE g[t] = Searched(cron, calendar, max, g)[t]
  <2>1. CASE t > max
    <3>1. Dates(cron, calendar, t, max) = {}
      BY <2>1 DEF Dates
    <3> QED BY <2>1, <3>1 DEF FirstDate, Searched
  <2>2. CASE t <= max /\ IsTriggering(cron, calendar, t)
    BY <2>2, DatesFrom DEF Searched
  <2>3. CASE t <= max /\ ~IsTriggering(cron, calendar, t)
    <3>1. Skip(cron, calendar, t) \in Nat
      BY <2>3, SkipsNoDate
    <3>2. Dates(cron, calendar, t, max) = Dates(cron, calendar, Skip(cron, calendar, t), max)
      BY <2>3, DatesFrom
    <3>3. ~(t > max)
      BY <2>3
    <3> QED BY <2>3, <3>1, <3>2, <3>3 DEF Searched
  <2> QED BY <2>1, <2>2, <2>3
<1>2. g = Searched(cron, calendar, max, g)
  BY <1>1 DEF Searched
<1> QED BY <1>2

LEMMA SearchFinds ==
  ASSUME NEW cron, NEW calendar, NEW max \in Int, NEW f, f = Searched(cron, calendar, max, f),
         NEW t \in Nat
  PROVE  f[t] = FirstDate(Dates(cron, calendar, t, max))
<1> DEFINE S == {n \in Nat : \A u \in Nat :
                    max - u < n => f[u] = FirstDate(Dates(cron, calendar, u, max))}
<1>1. \A u \in Nat : f[u] = IF u > max THEN None
                            ELSE IF IsTriggering(cron, calendar, u) THEN u
                            ELSE f[Skip(cron, calendar, u)]
  BY DEF Searched
<1>2. ASSUME NEW u \in Nat, u > max PROVE f[u] = FirstDate(Dates(cron, calendar, u, max))
  <2>1. Dates(cron, calendar, u, max) = {}
    BY <1>2 DEF Dates
  <2> QED BY <1>1, <1>2, <2>1 DEF FirstDate
<1>3. 0 \in S
  BY <1>2
<1>4. ASSUME NEW n \in Nat, n \in S PROVE n + 1 \in S
  <2> SUFFICES ASSUME NEW u \in Nat, max - u < n + 1
               PROVE  f[u] = FirstDate(Dates(cron, calendar, u, max))
    OBVIOUS
  <2>1. CASE u <= max /\ IsTriggering(cron, calendar, u)
    <3>1. f[u] = u
      BY <1>1, <2>1
    <3> QED BY <2>1, <3>1, DatesFrom
  <2>2. CASE u <= max /\ ~IsTriggering(cron, calendar, u)
    <3>1. PICK z : z = Skip(cron, calendar, u)
      OBVIOUS
    <3>2. z \in Nat /\ u < z
      BY <2>2, <3>1, SkipsNoDate
    <3>3. f[u] = f[z]
      BY <1>1, <2>2, <3>1
    <3>4. max - z < n
      BY <3>2
    <3>5. f[z] = FirstDate(Dates(cron, calendar, z, max))
      BY <1>4, <3>2, <3>4
    <3>6. Dates(cron, calendar, u, max) = Dates(cron, calendar, z, max)
      BY <2>2, <3>1, DatesFrom
    <3> QED BY <3>3, <3>5, <3>6
  <2> QED BY <1>2, <2>1, <2>2
<1> HIDE DEF S
<1>5. Nat \subseteq S
  BY <1>3, <1>4, Induction
<1>6. PICK n \in Nat : max - t < n
  <2>1. CASE max - t < 0
    BY <2>1
  <2>2. CASE ~(max - t < 0)
    <3>1. max - t + 1 \in Nat /\ max - t < max - t + 1
      BY <2>2
    <3> QED BY <3>1
  <2> QED BY <2>1, <2>2
<1> QED BY <1>5, <1>6 DEF S

\* The search returns the first date after base, if there is one until max,
\* wherever it starts.
THEOREM FirstDateFound ==
  ASSUME NEW cron, NEW calendar, NEW base \in Int, base + 1 >= 0, NEW max \in Int, IsValid(cron)
  PROVE  NextTriggering(cron, calendar, base, max) = FirstDate(Dates(cron, calendar, base + 1, max))
<1> DEFINE search == CHOOSE f : f = Searched(cron, calendar, max, f)
<1>1. search = Searched(cron, calendar, max, search)
  BY SearchExists
<1>2. base + 1 \in Nat
  OBVIOUS
<1>3. NextTriggering(cron, calendar, base, max) = search[base + 1]
  BY OfSearch
<1> HIDE DEF search
<1> QED BY <1>1, <1>2, <1>3, SearchFinds

-----------------------------------------------------------------------------
(* The state of the triggers.                                              *)

LEMMA TriggerParts ==
  /\ \A x \in Triggers : /\ x[1] \in ConfigIds /\ x[2] \in TasksOf(x[1]) /\ x[2] \in Tasks
                         /\ x[3] \in DOMAIN Config[x[1]][x[2]].cron
                         /\ x = <<x[1], x[2], x[3]>>
  /\ \A c \in ConfigIds : \A t \in TasksOf(c) : \A k \in DOMAIN Config[c][t].cron : <<c, t, k>> \in Triggers
  /\ \A c \in ConfigIds : \A t \in TasksOf(c) :
       /\ t \in Tasks
       /\ Len(Config[c][t].cron) \in Nat
       /\ DOMAIN Config[c][t].cron = 1 .. Len(Config[c][t].cron)
<1>1. ASSUME NEW x \in Triggers
      PROVE  /\ x[1] \in ConfigIds /\ x[2] \in TasksOf(x[1]) /\ x[2] \in Tasks
             /\ x[3] \in DOMAIN Config[x[1]][x[2]].cron
             /\ x = <<x[1], x[2], x[3]>>
  <2>1. PICK c \in ConfigIds : x \in UNION {{c} \X {t} \X DOMAIN Config[c][t].cron : t \in TasksOf(c)}
    BY DEF Triggers
  <2>2. PICK t \in TasksOf(c) : x \in {c} \X {t} \X DOMAIN Config[c][t].cron
    BY <2>1
  <2> QED BY <2>2 DEF Tasks
<1>2. ASSUME NEW c \in ConfigIds, NEW t \in TasksOf(c), NEW k \in DOMAIN Config[c][t].cron
      PROVE  <<c, t, k>> \in Triggers
  BY DEF Triggers
<1>3. ASSUME NEW c \in ConfigIds, NEW t \in TasksOf(c)
      PROVE  /\ t \in Tasks
             /\ Len(Config[c][t].cron) \in Nat
             /\ DOMAIN Config[c][t].cron = 1 .. Len(Config[c][t].cron)
  BY TriggersAssumption DEF Tasks
<1> QED BY <1>1, <1>2, <1>3

Clocked == clock \in StartTime .. MaxTime /\ shift \in Shifts /\ active \in ConfigIds \cup {NoConfigId}

LEMMA TheTime ==
  ASSUME Clocked
  PROVE  /\ clock \in Nat /\ shift \in Int /\ Now \in Nat /\ Now \in Times /\ Now = clock + shift
         /\ StartTime \in Nat /\ MaxTime \in Nat /\ StartTime <= clock /\ clock <= MaxTime
         /\ IntMax \in Nat /\ Horizon \in Nat
<1>1. /\ clock \in Nat /\ shift \in Int /\ StartTime \in Nat /\ MaxTime \in Nat
      /\ StartTime <= clock /\ clock <= MaxTime /\ shift \in Shifts /\ StartTime + shift >= 0
  BY ClockAssumption DEF Clocked
<1>2. Now \in Nat /\ Now = clock + shift
  BY <1>1 DEF Now
<1>3. Greatest(Shifts) \in Shifts /\ \A s \in Shifts : s <= Greatest(Shifts)
  BY ClockAssumption DEF Greatest
<1>4. Greatest(Shifts) \in Int /\ shift <= Greatest(Shifts)
  BY <1>1, <1>3, ClockAssumption
<1>5. Now \in Times
  BY <1>1, <1>2, <1>4 DEF Times
<1> QED BY <1>1, <1>2, <1>5, ClockAssumption

\* The search of a trigger, as it is tabulated.
FoundAfter(x, base, now, date) ==
  /\ date \in Nat \cup {None}
  /\ date # None => /\ base < date /\ date <= now + Horizon /\ IsDate(x, date)
                    /\ \A u \in base + 1 .. date - 1 : ~IsDate(x, u)
  /\ date = None => \A u \in base + 1 .. now + Horizon : ~IsDate(x, u)
LEMMA NextAfterFound ==
  ASSUME NEW x \in Triggers, NEW base \in Times, NEW now \in Times
  PROVE  FoundAfter(x, base, now, NextAfter[x][base][now])
<1>1. Greatest(Shifts) \in Int /\ MaxTime \in Nat /\ Horizon \in Nat
  <2>1. Greatest(Shifts) \in Shifts
    BY ClockAssumption DEF Greatest
  <2> QED BY <2>1, ClockAssumption
<1>2. base \in Nat /\ now \in Nat
  BY <1>1 DEF Times
<1>3. IsValid(Cron[x])
  BY TriggersAssumption
<1>4. PICK max \in Int : max = now + Horizon
  BY <1>1, <1>2
<1> DEFINE D == Dates(Cron[x], CalendarOf[x], base + 1, max)
<1>5. NextAfter[x][base][now] = FirstDate(D)
  <2>1. NextAfter[x][base][now] = NextTriggering(Cron[x], CalendarOf[x], base, max)
    BY <1>4 DEF NextAfter
  <2>2. base \in Int /\ base + 1 >= 0
    BY <1>2
  <2> QED BY <1>3, <2>1, <2>2, FirstDateFound
<1>6. D \subseteq Nat /\ \A u \in Nat : u \in D <=> base + 1 <= u /\ u <= max /\ IsDate(x, u)
  BY DEF Dates, IsDate
<1> HIDE DEF D
<1>7. CASE D = {}
  <2>1. NextAfter[x][base][now] = None
    BY <1>5, <1>7 DEF FirstDate
  <2>2. \A u \in base + 1 .. now + Horizon : ~IsDate(x, u)
    BY <1>2, <1>4, <1>6, <1>7
  <2> QED BY <2>1, <2>2 DEF FoundAfter
<1>8. CASE D # {}
  <2>1. PICK date : date = FirstDate(D) /\ date \in D /\ \A u \in D : date <= u
    BY <1>6, <1>8, FirstOfDates
  <2>2. date \in Nat /\ base < date /\ date <= now + Horizon /\ IsDate(x, date) /\ date # None
    BY <1>1, <1>2, <1>4, <1>6, <2>1 DEF None
  <2>3. ASSUME NEW u \in base + 1 .. date - 1 PROVE ~IsDate(x, u)
    <3>1. u \in Nat /\ base + 1 <= u /\ u <= max /\ ~(date <= u)
      BY <1>2, <1>4, <2>2
    <3> QED BY <1>6, <2>1, <3>1
  <2> QED BY <1>5, <2>1, <2>2, <2>3 DEF FoundAfter
<1> QED BY <1>7, <1>8

Data == [enabled : BOOLEAN, nextExecution : Nat \cup {None}, copied : BOOLEAN]
Loaded(f) == DOMAIN f = ConfigIds /\ f = [c \in ConfigIds |-> f[c]] /\ \A c \in ConfigIds : f[c] \in [TasksOf(c) -> Data]
Live(f) == f \in [Tasks -> Data] /\ \A t \in Tasks : f[t].copied => t \in ActiveTasks

\* The types of the state of the triggers.
State(s) ==
  /\ s = [last |-> s.last, next |-> s.next, repository |-> s.repository, copies |-> s.copies,
          timers |-> s.timers, planned |-> s.planned]
  /\ s.last \in [Triggers -> Times \cup {None}]
  /\ s.next \in [Triggers -> Nat \cup {None}]
  /\ Loaded(s.repository) /\ Live(s.copies)
  /\ s.timers \subseteq Tasks \X Nat

\* A date that is announced for a task, in any configuration.
Announced(s, t, date) ==
  \/ date = s.copies[t].nextExecution
  \/ \E c \in ConfigIds : t \in TasksOf(c) /\ date = s.repository[c][t].nextExecution

LEMMA OfSetData ==
  ASSUME NEW s, State(s), NEW t \in ActiveTasks, Clocked, NEW data \in Data
  PROVE  /\ State(SetData(s, t, data))
         /\ SetData(s, t, data).last = s.last /\ SetData(s, t, data).next = s.next
         /\ SetData(s, t, data).timers = s.timers /\ SetData(s, t, data).planned = s.planned
         /\ \A u \in Tasks, date \in Nat : Announced(SetData(s, t, data), u, date) =>
              Announced(s, u, date) \/ (u = t /\ date = data.nextExecution)
<1>1. active \in ConfigIds /\ t \in TasksOf(active) /\ t \in Tasks
  BY DEF ActiveTasks, Clocked, Tasks
<1>2. CASE s.copies[t].copied
  <2> DEFINE r == [s EXCEPT !.copies[t] = data]
  <2>1. SetData(s, t, data) = r
    BY <1>2 DEF SetData
  <2>2. /\ r.last = s.last /\ r.next = s.next /\ r.timers = s.timers /\ r.planned = s.planned
        /\ r.repository = s.repository /\ r.copies = [s.copies EXCEPT ![t] = data]
        /\ r = [last |-> r.last, next |-> r.next, repository |-> r.repository, copies |-> r.copies,
                timers |-> r.timers, planned |-> r.planned]
    BY DEF State
  <2> HIDE DEF r
  <2>3. Live(r.copies)
    BY <1>1, <2>2 DEF State, Live
  <2>4. State(r)
    BY <2>2, <2>3 DEF State
  <2>5. ASSUME NEW u \in Tasks, NEW date \in Nat, Announced(r, u, date)
        PROVE  Announced(s, u, date) \/ (u = t /\ date = data.nextExecution)
    BY <2>2, <2>5 DEF Announced, State, Live
  <2> QED BY <2>1, <2>2, <2>4, <2>5
<1>3. CASE ~s.copies[t].copied
  <2> DEFINE r == [s EXCEPT !.repository[active][t] = data]
  <2>1. SetData(s, t, data) = r
    BY <1>3 DEF SetData
  <2>2. /\ r.last = s.last /\ r.next = s.next /\ r.timers = s.timers /\ r.planned = s.planned
        /\ r.repository = [s.repository EXCEPT ![active][t] = data] /\ r.copies = s.copies
        /\ r = [last |-> r.last, next |-> r.next, repository |-> r.repository, copies |-> r.copies,
                timers |-> r.timers, planned |-> r.planned]
    BY DEF State
  <2> HIDE DEF r
  <2>3. PICK f : f = s.repository /\ Loaded(f)
    BY DEF State
  <2>4. PICK g : g = [f[active] EXCEPT ![t] = data] /\ g \in [TasksOf(active) -> Data]
    <3>1. PICK e : e = f[active] /\ e \in [TasksOf(active) -> Data]
      BY <1>1, <2>3 DEF Loaded
    <3>2. [e EXCEPT ![t] = data] \in [TasksOf(active) -> Data]
      BY <3>1
    <3> QED BY <3>1, <3>2
  <2>5. r.repository = [f EXCEPT ![active] = g]
    BY <2>2, <2>3, <2>4
  <2>6. Loaded(r.repository)
    BY <1>1, <2>3, <2>4, <2>5 DEF Loaded
  <2>7. State(r)
    BY <2>2, <2>6 DEF State
  <2>8. ASSUME NEW u \in Tasks, NEW date \in Nat, Announced(r, u, date)
        PROVE  Announced(s, u, date) \/ (u = t /\ date = data.nextExecution)
    <3>1. CASE date = r.copies[u].nextExecution
      BY <2>2, <3>1 DEF Announced
    <3>2. CASE \E c \in ConfigIds : u \in TasksOf(c) /\ date = r.repository[c][u].nextExecution
      <4>1. PICK c \in ConfigIds : u \in TasksOf(c) /\ date = r.repository[c][u].nextExecution
        BY <3>2
      <4>2. CASE c = active /\ u = t
        <5>1. r.repository[c][u] = data
          BY <1>1, <2>3, <2>4, <2>5, <4>2 DEF Loaded
        <5> QED BY <4>1, <4>2, <5>1
      <4>3. CASE c # active
        <5>1. r.repository[c] = s.repository[c]
          BY <2>3, <2>5, <4>3 DEF Loaded
        <5> QED BY <4>1, <5>1 DEF Announced
      <4>4. CASE c = active /\ u # t
        <5>1. r.repository[c][u] = s.repository[c][u]
          BY <1>1, <2>3, <2>4, <2>5, <4>1, <4>4 DEF Loaded
        <5> QED BY <4>1, <5>1 DEF Announced
      <4> QED BY <4>2, <4>3, <4>4
    <3> QED BY <2>8, <3>1, <3>2 DEF Announced
  <2> QED BY <2>1, <2>2, <2>7, <2>8
<1> QED BY <1>2, <1>3

LEMMA OfDataOf ==
  ASSUME NEW s, State(s), NEW t \in ActiveTasks, Clocked
  PROVE  DataOf(s, t) \in Data /\ Announced(s, t, DataOf(s, t).nextExecution) /\ t \in Tasks
<1>1. active \in ConfigIds /\ t \in TasksOf(active) /\ t \in Tasks
  BY DEF ActiveTasks, Clocked, Tasks
<1>2. CASE s.copies[t].copied
  BY <1>1, <1>2 DEF DataOf, State, Live, Announced
<1>3. CASE ~s.copies[t].copied
  <2>1. DataOf(s, t) = s.repository[active][t] /\ s.repository[active] \in [TasksOf(active) -> Data]
    BY <1>1, <1>3 DEF DataOf, State, Loaded
  <2> QED BY <1>1, <2>1 DEF Announced
<1> QED BY <1>2, <1>3

LEMMA OfSetNextExecution ==
  ASSUME NEW s, State(s), NEW t \in ActiveTasks, Clocked, NEW date \in Nat \cup {None},
         NEW r, r = SetNextExecution(s, t, date)
  PROVE  /\ State(r)
         /\ r.last = s.last /\ r.next = s.next /\ r.timers = s.timers /\ r.planned = s.planned
         /\ \A u \in Tasks, d \in Nat : Announced(r, u, d) => Announced(s, u, d) \/ (u = t /\ d = date)
<1> DEFINE data == [DataOf(s, t) EXCEPT !.nextExecution = date]
<1>1. data \in Data /\ data.nextExecution = date
  BY OfDataOf DEF Data
<1>2. r = SetData(s, t, data)
  BY DEF SetNextExecution
<1> HIDE DEF data
<1> QED BY <1>1, <1>2, OfSetData

-----------------------------------------------------------------------------
(* Checking one trigger.                                                   *)

\* The next date is the first one after the last time.
Right(s, x) ==
  s.next[x] # None => /\ IsDate(x, s.next[x]) /\ s.last[x] < s.next[x]
                      /\ s.last[x] # None => \A u \in s.last[x] + 1 .. s.next[x] - 1 : ~IsDate(x, u)

\* It is close enough for a timer when the dates of the task are.
Near(s, x) == shift = 0 /\ x[2] \in Frequent /\ s.next[x] # None => s.next[x] < Now + IntMax

\* A trigger was triggered in the past, for the time of that moment.
Past(s, x) ==
  s.last[x] # None => /\ s.last[x] <= clock \/ s.last[x] <= Now
                      /\ shift = 0 => StartTime <= s.last[x] /\ s.last[x] <= Now

\* The date announced for a task has a timer, as long as it is not reached.
Scheduled(s) ==
  shift = 0 => \A t \in Tasks \cap Frequent, date \in Nat :
    Announced(s, t, date) /\ date > Now => <<t, date>> \in s.timers

Good(s) == State(s) /\ Scheduled(s) /\ \A x \in Triggers : Right(s, x) /\ Near(s, x) /\ Past(s, x)

\* What checking a trigger ensures: its next date is not reached, and a timer awaits it.
Ahead(s, x) == s.next[x] = None \/ s.next[x] > Now
HasTimer(s, x) ==
  shift = 0 /\ s.next[x] # None /\ x[2] \in Frequent =>
    \E timer \in s.timers : timer[1] = x[2] /\ timer[2] <= s.next[x]

LEMMA OfNextDate ==
  ASSUME NEW s, Good(s), NEW x \in Triggers, Clocked
  PROVE  /\ NextDate(s, x) \in Nat \cup {None}
         /\ NextDate(s, x) # None =>
              /\ IsDate(x, NextDate(s, x)) /\ s.last[x] < NextDate(s, x)
              /\ s.last[x] # None => \A u \in s.last[x] + 1 .. NextDate(s, x) - 1 : ~IsDate(x, u)
              /\ shift = 0 /\ x[2] \in Frequent => NextDate(s, x) < Now + IntMax
         /\ s.next[x] = None /\ s.last[x] = Now => NextDate(s, x) = None \/ NextDate(s, x) > Now
         /\ AlwaysDated => NextDate(s, x) # None
<1>1. s.next[x] \in Nat \cup {None} /\ s.last[x] \in Times \cup {None}
  BY DEF Good, State
<1>2. Right(s, x) /\ Near(s, x) /\ Past(s, x)
  BY DEF Good
<1>3. CASE s.next[x] # None
  <2>1. NextDate(s, x) = s.next[x]
    BY <1>3 DEF NextDate
  <2> QED BY <1>1, <1>2, <1>3, <2>1 DEF Right, Near
<1>4. CASE s.next[x] = None
  <2>1. PICK base : base = IF s.last[x] # None THEN s.last[x] ELSE Now
    OBVIOUS
  <2>2. base \in Times /\ Now \in Times
    BY <1>1, <2>1, TheTime
  <2>3. PICK d : d = NextDate(s, x) /\ d = NextAfter[x][base][Now]
    BY <1>4, <2>1 DEF NextDate
  <2>4. FoundAfter(x, base, Now, d)
    BY <2>2, <2>3, NextAfterFound
  <2>5. base \in Nat
    BY <2>2 DEF Times
  <2>6. s.last[x] <= base
    BY <1>1, <2>1, <2>5, TheTime DEF None
  <2>7. s.last[x] \in Nat \cup {None}
    BY <1>1 DEF Times
  <2>8. ASSUME d # None
        PROVE  IsDate(x, d) /\ s.last[x] < d /\ d \in Nat /\ base < d
               /\ \A u \in base + 1 .. d - 1 : ~IsDate(x, u)
    BY <2>4, <2>5, <2>6, <2>7, <2>8 DEF FoundAfter, None
  <2>9. ASSUME d # None, shift = 0, x[2] \in Frequent
        PROVE  d < Now + IntMax
    <3>1. base \in StartTime .. MaxTime /\ base <= Now
      BY <1>2, <2>1, <2>5, <2>9, TheTime DEF Past
    <3>2. PICK v \in base + 1 .. base + IntMax - 1 : IsDate(x, v)
      BY <2>9, <3>1 DEF Frequent
    <3>3. d <= v
      BY <2>5, <2>8, <2>9, <3>2, TheTime
    <3> QED BY <2>5, <2>8, <2>9, <3>1, <3>2, <3>3, TheTime
  <2>10. ASSUME AlwaysDated PROVE d # None
    <3>1. \E e \in Shifts : base + e <= Now
      <4>1. 0 \in Shifts /\ shift \in Shifts
        BY ClockAssumption DEF Clocked
      <4>2. base <= clock \/ base <= Now
        BY <1>2, <2>1, <2>5, TheTime DEF Past
      <4>3. CASE base <= clock
        <5>1. base + shift <= Now
          BY <2>5, <4>3, TheTime
        <5> QED BY <4>1, <5>1
      <4>4. CASE base <= Now
        <5>1. base + 0 <= Now
          BY <2>5, <4>4
        <5> QED BY <4>1, <5>1
      <4> QED BY <4>2, <4>3, <4>4
    <3> QED BY <2>2, <2>3, <2>10, <3>1 DEF AlwaysDated
  <2>11. ASSUME s.last[x] = Now PROVE d = None \/ d > Now
    <3>1. base = Now
      BY <2>1, <2>11
    <3> QED BY <2>5, <2>8, <3>1
  <2>12. d \in Nat \cup {None}
    BY <2>4 DEF FoundAfter
  <2>13. s.last[x] # None => base = s.last[x]
    BY <2>1
  <2> QED BY <2>3, <2>8, <2>9, <2>10, <2>11, <2>12, <2>13
<1> QED BY <1>3, <1>4

LEMMA OfCached ==
  ASSUME NEW s, Good(s), NEW x \in Triggers, Clocked, NEW r, r = Cached(s, x)
  PROVE  /\ Good(r)
         /\ r.last = s.last /\ r.timers = s.timers /\ r.planned = s.planned
         /\ r.next[x] = NextDate(s, x)
         /\ \A y \in Triggers \ {x} : r.next[y] = s.next[y]
<1>1. PICK d \in Nat \cup {None} : d = NextDate(s, x)
  BY OfNextDate
<1>2. State(s)
  BY DEF Good
<1>3. r = [s EXCEPT !.next[x] = d]
  BY <1>1 DEF Cached
<1>4. /\ r.last = s.last /\ r.timers = s.timers /\ r.planned = s.planned
      /\ r.repository = s.repository /\ r.copies = s.copies /\ r.next = [s.next EXCEPT ![x] = d]
      /\ r = [last |-> r.last, next |-> r.next, repository |-> r.repository, copies |-> r.copies,
              timers |-> r.timers, planned |-> r.planned]
  BY <1>2, <1>3 DEF State
<1>5. State(r)
  BY <1>2, <1>4 DEF State
<1>6. r.next[x] = d /\ \A y \in Triggers \ {x} : r.next[y] = s.next[y]
  BY <1>2, <1>4 DEF State
<1>7. Scheduled(r)
  <2>1. Scheduled(s)
    BY DEF Good
  <2> QED BY <1>4, <2>1 DEF Scheduled, Announced
<1>8. ASSUME NEW y \in Triggers PROVE Right(r, y) /\ Near(r, y) /\ Past(r, y)
  <2>1. Past(r, y)
    BY <1>4 DEF Good, Past
  <2>2. CASE y = x
    <3>1. d # None =>
              /\ IsDate(x, d) /\ s.last[x] < d
              /\ s.last[x] # None => \A u \in s.last[x] + 1 .. d - 1 : ~IsDate(x, u)
              /\ shift = 0 /\ x[2] \in Frequent => d < Now + IntMax
      BY <1>1, OfNextDate
    <3> QED BY <1>4, <1>6, <2>1, <2>2, <3>1 DEF Right, Near
  <2>3. CASE y # x
    <3>1. r.next[y] = s.next[y] /\ r.last[y] = s.last[y] /\ Right(s, y) /\ Near(s, y)
      BY <1>4, <1>6, <2>3 DEF Good
    <3> QED BY <2>1, <3>1 DEF Right, Near
  <2> QED BY <2>2, <2>3
<1> QED BY <1>1, <1>4, <1>5, <1>6, <1>7, <1>8 DEF Good

\* A trigger that reached its date is triggered now, once.
Triggered(s, r, x) ==
  /\ Good(r) /\ Ahead(r, x)
  /\ r.timers = s.timers /\ r.planned \subseteq s.planned \cup {<<x[2], x>>}
  /\ r.last[x] = Now
  /\ \A y \in Triggers \ {x} : r.next[y] = s.next[y] /\ r.last[y] = s.last[y]
LEMMA OfTrigger ==
  ASSUME NEW s, Good(s), NEW x \in Triggers, Clocked, NEW r, r = Trigger(s, x)
  PROVE  Triggered(s, r, x)
<1>1. PICK p : p = PlanTask(s, x[2], x)
  OBVIOUS
<1>2. State(s)
  BY DEF Good
<1>3. /\ p.last = s.last /\ p.timers = s.timers /\ p.planned \subseteq s.planned \cup {<<x[2], x>>}
      /\ p.repository = s.repository /\ p.copies = s.copies /\ p.next = s.next
      /\ p = [last |-> p.last, next |-> p.next, repository |-> p.repository, copies |-> p.copies,
              timers |-> p.timers, planned |-> p.planned]
  BY <1>1, <1>2 DEF PlanTask, State
<1>4. State(p)
  BY <1>2, <1>3 DEF State
<1>5. PICK q : q = SetLastTriggered(p, x, Now)
  OBVIOUS
<1>6. /\ q.last = [p.last EXCEPT ![x] = Now] /\ q.timers = p.timers /\ q.planned = p.planned
      /\ q.repository = p.repository /\ q.copies = p.copies /\ q.next = [p.next EXCEPT ![x] = None]
      /\ q = [last |-> q.last, next |-> q.next, repository |-> q.repository, copies |-> q.copies,
              timers |-> q.timers, planned |-> q.planned]
  BY <1>4, <1>5 DEF SetLastTriggered, State
<1>7. State(q)
  BY <1>4, <1>6, TheTime DEF State
<1>8. /\ q.last[x] = Now /\ q.next[x] = None
      /\ \A y \in Triggers \ {x} : q.next[y] = s.next[y] /\ q.last[y] = s.last[y]
  BY <1>3, <1>4, <1>6 DEF State
<1>9. Scheduled(q)
  <2>1. Scheduled(s)
    BY DEF Good
  <2> QED BY <1>3, <1>6, <2>1 DEF Scheduled, Announced
<1>10. ASSUME NEW y \in Triggers PROVE Right(q, y) /\ Near(q, y) /\ Past(q, y)
  <2>1. CASE y = x
    BY <1>8, <2>1, TheTime DEF Right, Near, Past
  <2>2. CASE y # x
    <3>1. q.next[y] = s.next[y] /\ q.last[y] = s.last[y] /\ Right(s, y) /\ Near(s, y) /\ Past(s, y)
      BY <1>8, <2>2 DEF Good
    <3> QED BY <3>1 DEF Right, Near, Past
  <2> QED BY <2>1, <2>2
<1>11. Good(q)
  BY <1>7, <1>9, <1>10 DEF Good
<1>12. r = Cached(q, x)
  BY <1>1, <1>5 DEF Trigger
<1>13. /\ Good(r)
       /\ r.last = q.last /\ r.timers = q.timers /\ r.planned = q.planned
       /\ r.next[x] = NextDate(q, x)
       /\ \A y \in Triggers \ {x} : r.next[y] = q.next[y]
  BY <1>11, <1>12, OfCached
<1>14. NextDate(q, x) = None \/ NextDate(q, x) > Now
  BY <1>8, <1>11, OfNextDate
<1> QED BY <1>3, <1>6, <1>8, <1>13, <1>14 DEF Ahead, Triggered

\* A check is planned for the next date of a trigger.
LEMMA OfPlanCheck ==
  ASSUME NEW s, Good(s), NEW x \in Triggers, IsActive(x), Clocked, Ahead(s, x),
         NEW r, r = PlanCheck(s, x)
  PROVE  /\ Good(r) /\ HasTimer(r, x)
         /\ r.last = s.last /\ r.next = s.next /\ r.planned = s.planned /\ s.timers \subseteq r.timers
<1>1. State(s)
  BY DEF Good
<1>2. x[2] \in ActiveTasks /\ x[2] \in Tasks
  BY TriggerParts, TriggersAssumption DEF IsActive, ActiveTasks
<1>3. PICK t : t = x[2]
  OBVIOUS
<1>4. PICK d \in Nat \cup {None} : d = s.next[x]
  BY <1>1 DEF State
<1>5. CASE d = None
  <2>1. r = SetNextExecution(s, t, d)
    BY <1>3, <1>4, <1>5 DEF PlanCheck
  <2>2. /\ State(r)
        /\ r.last = s.last /\ r.next = s.next /\ r.timers = s.timers /\ r.planned = s.planned
        /\ \A u \in Tasks, e \in Nat : Announced(r, u, e) => Announced(s, u, e) \/ (u = t /\ e = d)
    BY <1>1, <1>2, <1>3, <2>1, OfSetNextExecution
  <2>3. Scheduled(r)
    <3>1. \A u \in Tasks, e \in Nat : Announced(r, u, e) => Announced(s, u, e)
      BY <1>5, <2>2 DEF None
    <3>2. Scheduled(s)
      BY DEF Good
    <3> QED BY <2>2, <3>1, <3>2 DEF Scheduled
  <2>4. ASSUME NEW y \in Triggers PROVE Right(r, y) /\ Near(r, y) /\ Past(r, y)
    BY <2>2 DEF Good, Right, Near, Past
  <2>5. HasTimer(r, x)
    BY <1>4, <1>5, <2>2 DEF HasTimer
  <2> QED BY <2>2, <2>3, <2>4, <2>5 DEF Good
<1>6. CASE d # None
  <2>1. d \in Nat /\ d > Now
    BY <1>4, <1>6 DEF Ahead
  <2>2. PICK due \in Nat : due = clock + (IF d - Now < IntMax THEN d - Now ELSE IntMax)
    BY <2>1, TheTime
  <2> DEFINE p == [s EXCEPT !.timers = @ \cup {<<t, due>>}]
  <2>3. r = SetNextExecution(p, t, d)
    BY <1>3, <1>4, <1>6, <2>2 DEF PlanCheck
  <2>4. /\ p.last = s.last /\ p.next = s.next /\ p.planned = s.planned
        /\ p.repository = s.repository /\ p.copies = s.copies /\ p.timers = s.timers \cup {<<t, due>>}
        /\ p = [last |-> p.last, next |-> p.next, repository |-> p.repository, copies |-> p.copies,
                timers |-> p.timers, planned |-> p.planned]
    BY <1>1 DEF State
  <2> HIDE DEF p
  <2>5. State(p)
    BY <1>1, <1>2, <1>3, <2>4 DEF State
  <2>6. /\ State(r)
        /\ r.last = p.last /\ r.next = p.next /\ r.timers = p.timers /\ r.planned = p.planned
        /\ \A u \in Tasks, e \in Nat : Announced(r, u, e) => Announced(p, u, e) \/ (u = t /\ e = d)
    BY <1>2, <1>3, <2>1, <2>3, <2>5, OfSetNextExecution
  <2>7. ASSUME shift = 0, t \in Frequent PROVE due = d
    <3>1. Near(s, x)
      BY DEF Good
    <3>2. d < Now + IntMax
      BY <1>3, <1>4, <1>6, <2>7, <3>1 DEF Near
    <3> QED BY <2>1, <2>2, <2>7, <3>2, TheTime
  <2>8. Scheduled(r)
    <3> SUFFICES ASSUME shift = 0, NEW u \in Tasks \cap Frequent, NEW e \in Nat,
                        Announced(r, u, e), e > Now
                 PROVE  <<u, e>> \in r.timers
      BY DEF Scheduled
    <3>1. Announced(p, u, e) \/ (u = t /\ e = d)
      BY <2>6
    <3>2. CASE Announced(p, u, e)
      <4>1. Announced(s, u, e)
        BY <2>4, <3>2 DEF Announced
      <4>2. <<u, e>> \in s.timers
        BY <4>1 DEF Good, Scheduled
      <4> QED BY <2>4, <2>6, <4>2
    <3>3. CASE u = t /\ e = d
      BY <2>4, <2>6, <2>7, <3>3
    <3> QED BY <3>1, <3>2, <3>3
  <2>9. ASSUME NEW y \in Triggers PROVE Right(r, y) /\ Near(r, y) /\ Past(r, y)
    BY <2>4, <2>6 DEF Good, Right, Near, Past
  <2>10. HasTimer(r, x)
    <3> SUFFICES ASSUME shift = 0, t \in Frequent
                 PROVE  \E timer \in r.timers : timer[1] = x[2] /\ timer[2] <= r.next[x]
      BY <1>3 DEF HasTimer
    <3>1. <<t, d>> \in r.timers /\ r.next[x] = d
      BY <1>4, <2>4, <2>6, <2>7
    <3> QED BY <1>3, <2>1, <3>1
  <2> QED BY <2>4, <2>6, <2>8, <2>9, <2>10 DEF Good
<1> QED BY <1>5, <1>6

\* A trigger is triggered at one of its dates, later than the last one, and
\* it is not planned twice.
Fires(s, r, x) ==
  /\ r.last[x] = s.last[x] \/ r.last[x] = Now
  /\ <<x[2], x>> \in r.planned =>
       \/ <<x[2], x>> \in s.planned /\ r.last[x] = s.last[x]
       \/ r.last[x] = Now /\ \E u \in s.last[x] + 1 .. Now : IsDate(x, u)

Done(s, x) == Ahead(s, x) /\ HasTimer(s, x)

\* What checks do, be they the ones of one trigger or of all tasks.
Outcome(s, r) ==
  /\ Good(r)
  /\ \A x \in Triggers : /\ r.next[x] = s.next[x] \/ Ahead(r, x)
                         /\ HasTimer(s, x) => HasTimer(r, x)
                         /\ AlwaysDated => Fires(s, r, x)

LEMMA NoOutcome == ASSUME NEW s, Good(s) PROVE Outcome(s, s)
BY DEF Outcome, Fires

LEMMA Outcomes ==
  ASSUME NEW s, Good(s), NEW p, NEW r, Outcome(s, p), Outcome(p, r), Clocked
  PROVE  Outcome(s, r) /\ \A x \in Triggers : Done(p, x) => Done(r, x)
<1>1. Good(p) /\ Good(r)
  BY DEF Outcome
<1>2. ASSUME NEW x \in Triggers
      PROVE  r.next[x] = s.next[x] \/ Ahead(r, x)
  BY DEF Outcome, Ahead
<1>3. ASSUME NEW x \in Triggers, AlwaysDated PROVE Fires(s, r, x)
  <2>1. Fires(s, p, x) /\ Fires(p, r, x)
    BY <1>3 DEF Outcome
  <2>2. s.last[x] \in Int /\ Now \in Nat
    BY TheTime DEF Good, State, Times, None
  <2>3. r.last[x] = s.last[x] \/ r.last[x] = Now
    BY <2>1 DEF Fires
  <2>4. CASE <<x[2], x>> \in p.planned /\ r.last[x] = p.last[x]
    BY <2>1, <2>3, <2>4 DEF Fires
  <2>5. CASE r.last[x] = Now /\ \E u \in p.last[x] + 1 .. Now : IsDate(x, u)
    <3>1. p.last[x] # Now
      BY <2>2, <2>5
    <3>2. p.last[x] = s.last[x]
      BY <2>1, <3>1 DEF Fires
    <3> QED BY <2>5, <3>2 DEF Fires
  <2>6. CASE <<x[2], x>> \notin r.planned
    BY <2>3, <2>6 DEF Fires
  <2> QED BY <2>1, <2>4, <2>5, <2>6 DEF Fires
<1>4. ASSUME NEW x \in Triggers, Done(p, x) PROVE Done(r, x)
  BY <1>4 DEF Outcome, Done, Ahead
<1> QED BY <1>1, <1>2, <1>3, <1>4 DEF Outcome

LEMMA OfCheckTrigger ==
  ASSUME NEW s, Good(s), NEW x \in Triggers, IsActive(x), Clocked
  PROVE  Outcome(s, CheckTrigger(s, x)) /\ Done(CheckTrigger(s, x), x)
<1>1. PICK known : known = Cached(s, x)
  OBVIOUS
<1>2. PICK r : r = CheckTrigger(s, x)
  OBVIOUS
<1>3. /\ Good(known)
      /\ known.last = s.last /\ known.timers = s.timers /\ known.planned = s.planned
      /\ known.next[x] = NextDate(s, x)
      /\ \A y \in Triggers \ {x} : known.next[y] = s.next[y]
  BY <1>1, OfCached
<1>4. State(s) /\ State(known) /\ State(known) /\ Right(known, x) /\ Now \in Nat
  BY <1>3, TheTime DEF Good
<1>5. known.next[x] \in Nat \cup {None} /\ s.last[x] \in Nat \cup {None}
  BY <1>4 DEF State, Times
\* The outcome, of a check that plans nothing but this trigger.
<1>6. ASSUME Good(r), Done(r, x), s.timers \subseteq r.timers,
             \A y \in Triggers \ {x} : r.next[y] = s.next[y] /\ r.last[y] = s.last[y],
             \/ r.planned = s.planned /\ r.last[x] = s.last[x]
             \/ /\ r.planned \subseteq s.planned \cup {<<x[2], x>>} /\ r.last[x] = Now
                /\ AlwaysDated => \E u \in s.last[x] + 1 .. Now : IsDate(x, u)
      PROVE  Outcome(s, r) /\ Done(r, x)
  <2>1. ASSUME NEW y \in Triggers
        PROVE  /\ r.next[y] = s.next[y] \/ Ahead(r, y)
               /\ HasTimer(s, y) => HasTimer(r, y)
               /\ AlwaysDated => Fires(s, r, y)
    <3>1. CASE y = x
      BY <1>6, <3>1 DEF Done, Fires
    <3>2. CASE y # x
      <4>1. r.next[y] = s.next[y] /\ r.last[y] = s.last[y]
        BY <1>6, <3>2
      <4>2. HasTimer(s, y) => HasTimer(r, y)
        BY <1>6, <4>1 DEF HasTimer
      <4>3. <<y[2], y>> # <<x[2], x>>
        BY <3>2
      <4>4. <<y[2], y>> \in r.planned => <<y[2], y>> \in s.planned
        BY <1>6, <4>3
      <4> QED BY <4>1, <4>2, <4>4 DEF Fires
    <3> QED BY <3>1, <3>2
  <2> QED BY <1>6, <2>1 DEF Outcome
<1>7. CASE Reached(known.next[x])
  <2>1. PICK p : p = Trigger(known, x)
    OBVIOUS
  <2>2. r = PlanCheck(p, x)
    BY <1>1, <1>2, <1>7, <2>1 DEF CheckTrigger
  <2>3. /\ Good(p) /\ Ahead(p, x)
        /\ p.timers = known.timers /\ p.planned \subseteq known.planned \cup {<<x[2], x>>}
        /\ p.last[x] = Now
        /\ \A y \in Triggers \ {x} : p.next[y] = known.next[y] /\ p.last[y] = known.last[y]
    <3>1. Good(known)
      BY <1>3
    <3>2. Triggered(known, p, x)
      BY <2>1, <3>1, OfTrigger
    <3> QED BY <3>2 DEF Triggered
  <2>4. /\ Good(r) /\ HasTimer(r, x)
        /\ r.last = p.last /\ r.next = p.next /\ r.planned = p.planned /\ p.timers \subseteq r.timers
    BY <2>2, <2>3, OfPlanCheck
  <2>5. AlwaysDated => \E u \in s.last[x] + 1 .. Now : IsDate(x, u)
    <3> SUFFICES ASSUME AlwaysDated PROVE \E u \in s.last[x] + 1 .. Now : IsDate(x, u)
      OBVIOUS
    <3>1. known.next[x] # None
      BY <1>3, OfNextDate
    <3>2. IsDate(x, known.next[x]) /\ s.last[x] < known.next[x] /\ known.next[x] <= Now
      BY <1>3, <1>4, <1>7, <3>1 DEF Right, Reached
    <3>3. known.next[x] \in s.last[x] + 1 .. Now
      BY <1>4, <1>5, <3>1, <3>2 DEF None
    <3> QED BY <3>2, <3>3
  <2>6. Done(r, x)
    BY <2>3, <2>4 DEF Done, Ahead
  <2>7. \A y \in Triggers \ {x} : r.next[y] = s.next[y] /\ r.last[y] = s.last[y]
    BY <1>3, <2>3, <2>4
  <2> QED BY <1>2, <1>3, <1>6, <2>3, <2>4, <2>5, <2>6, <2>7
<1>8. CASE ~Reached(known.next[x])
  <2>1. Ahead(known, x)
    BY <1>4, <1>5, <1>8 DEF Ahead, Reached, None
  <2>2. CASE AlreadyPlanned(known, x)
    <3>1. r = known
      BY <1>1, <1>2, <1>8, <2>2 DEF CheckTrigger
    <3>2. x[2] \in ActiveTasks
      BY TriggerParts, TriggersAssumption DEF IsActive, ActiveTasks
    <3>3. PICK date : date = DataOf(known, x[2]).nextExecution
      OBVIOUS
    <3>4. date # None /\ date <= known.next[x] /\ date > Now
      BY <2>2, <3>3 DEF AlreadyPlanned
    <3>5. Announced(known, x[2], date) /\ date \in Nat /\ x[2] \in Tasks
      BY <1>4, <3>2, <3>3, <3>4, OfDataOf DEF Data
    <3>6. HasTimer(known, x)
      <4> SUFFICES ASSUME shift = 0, x[2] \in Frequent
                   PROVE  \E timer \in known.timers : timer[1] = x[2] /\ timer[2] <= known.next[x]
        BY DEF HasTimer
      <4>1. <<x[2], date>> \in known.timers
        BY <1>3, <3>4, <3>5 DEF Good, Scheduled
      <4> QED BY <3>4, <4>1
    <3> QED BY <1>2, <1>3, <1>6, <2>1, <3>1, <3>6 DEF Done
  <2>3. CASE ~AlreadyPlanned(known, x)
    <3>1. r = PlanCheck(known, x)
      BY <1>1, <1>2, <1>8, <2>3 DEF CheckTrigger
    <3>2. /\ Good(r) /\ HasTimer(r, x)
          /\ r.last = known.last /\ r.next = known.next /\ r.planned = known.planned
          /\ known.timers \subseteq r.timers
      BY <1>3, <2>1, <3>1, OfPlanCheck
    <3>3. Done(r, x)
      BY <2>1, <3>2 DEF Done, Ahead
    <3> QED BY <1>2, <1>3, <1>6, <3>2, <3>3
  <2> QED BY <2>2, <2>3
<1> QED BY <1>7, <1>8

-----------------------------------------------------------------------------
(* Checking the triggers of a task, and of all tasks.                      *)

\* The loops are defined for any number of triggers and of tasks.
ChecksFrom(f, s, t, n) ==
  f = [k \in 0 .. n |-> IF k = 0 THEN s ELSE CheckTrigger(f[k - 1], <<active, t, k>>)]
LEMMA ChecksExist == ASSUME NEW s, NEW t, NEW n \in Nat PROVE \E f : ChecksFrom(f, s, t, n)
<1> DEFINE Loop(m) == \E f : f = [k \in 0 .. m |->
                        IF k = 0 THEN s ELSE CheckTrigger(f[k - 1], <<active, t, k>>)]
           S == {m \in Nat : Loop(m)}
<1>1. 0 \in S
  <2> DEFINE g == [k \in 0 .. 0 |-> s]
  <2>1. g = [k \in 0 .. 0 |-> IF k = 0 THEN s ELSE CheckTrigger(g[k - 1], <<active, t, k>>)]
    OBVIOUS
  <2> QED BY <2>1
<1>2. ASSUME NEW m \in Nat, m \in S PROVE m + 1 \in S
  <2>1. PICK f : f = [k \in 0 .. m |-> IF k = 0 THEN s ELSE CheckTrigger(f[k - 1], <<active, t, k>>)]
    BY <1>2
  <2> DEFINE g == [k \in 0 .. m + 1 |-> IF k = m + 1 THEN CheckTrigger(f[m], <<active, t, k>>) ELSE f[k]]
             h == [k \in 0 .. m + 1 |-> IF k = 0 THEN s ELSE CheckTrigger(g[k - 1], <<active, t, k>>)]
  <2>2. ASSUME NEW k \in 0 .. m + 1 PROVE g[k] = h[k]
    <3>1. CASE k = m + 1
      <4>1. k # 0 /\ k - 1 = m /\ m \in 0 .. m + 1 /\ m # m + 1
        BY <3>1
      <4> QED BY <3>1, <4>1
    <3>2. CASE k \in 0 .. m /\ k # 0
      <4>1. k - 1 \in 0 .. m + 1 /\ k - 1 # m + 1 /\ k # m + 1
        BY <3>2
      <4>2. f[k] = CheckTrigger(f[k - 1], <<active, t, k>>)
        BY <2>1, <3>2
      <4> QED BY <3>2, <4>1, <4>2
    <3>3. CASE k = 0
      <4>1. f[0] = s /\ k # m + 1
        BY <2>1, <3>3
      <4> QED BY <3>3, <4>1
    <3> QED BY <3>1, <3>2, <3>3
  <2>3. g = h
    BY <2>2
  <2>4. Loop(m + 1)
    BY <2>3
  <2> QED BY <2>4
<1> HIDE DEF S
<1>3. Nat \subseteq S
  BY <1>1, <1>2, Induction
<1> QED BY <1>3 DEF S, ChecksFrom

TasksFrom(f, s, order, n) ==
  f = [k \in 0 .. n |-> IF k = 0 THEN s ELSE CheckTask(f[k - 1], order[k])]
LEMMA TasksExist == ASSUME NEW s, NEW order, NEW n \in Nat PROVE \E f : TasksFrom(f, s, order, n)
<1> DEFINE Loop(m) == \E f : f = [k \in 0 .. m |-> IF k = 0 THEN s ELSE CheckTask(f[k - 1], order[k])]
           S == {m \in Nat : Loop(m)}
<1>1. 0 \in S
  <2> DEFINE g == [k \in 0 .. 0 |-> s]
  <2>1. g = [k \in 0 .. 0 |-> IF k = 0 THEN s ELSE CheckTask(g[k - 1], order[k])]
    OBVIOUS
  <2> QED BY <2>1
<1>2. ASSUME NEW m \in Nat, m \in S PROVE m + 1 \in S
  <2>1. PICK f : f = [k \in 0 .. m |-> IF k = 0 THEN s ELSE CheckTask(f[k - 1], order[k])]
    BY <1>2
  <2> DEFINE g == [k \in 0 .. m + 1 |-> IF k = m + 1 THEN CheckTask(f[m], order[k]) ELSE f[k]]
             h == [k \in 0 .. m + 1 |-> IF k = 0 THEN s ELSE CheckTask(g[k - 1], order[k])]
  <2>2. ASSUME NEW k \in 0 .. m + 1 PROVE g[k] = h[k]
    <3>1. CASE k = m + 1
      <4>1. k # 0 /\ k - 1 = m /\ m \in 0 .. m + 1 /\ m # m + 1
        BY <3>1
      <4> QED BY <3>1, <4>1
    <3>2. CASE k \in 0 .. m /\ k # 0
      <4>1. k - 1 \in 0 .. m + 1 /\ k - 1 # m + 1 /\ k # m + 1
        BY <3>2
      <4>2. f[k] = CheckTask(f[k - 1], order[k])
        BY <2>1, <3>2
      <4> QED BY <3>2, <4>1, <4>2
    <3>3. CASE k = 0
      <4>1. f[0] = s /\ k # m + 1
        BY <2>1, <3>3
      <4> QED BY <3>3, <4>1
    <3> QED BY <3>1, <3>2, <3>3
  <2>3. g = h
    BY <2>2
  <2>4. Loop(m + 1)
    BY <2>3
  <2> QED BY <2>4
<1> HIDE DEF S
<1>3. Nat \subseteq S
  BY <1>1, <1>2, Induction
<1> QED BY <1>3 DEF S, TasksFrom

\* The checks of a task leave all its triggers ahead, with a timer.
TaskDone(s, t) == \A x \in Triggers : IsActive(x) /\ x[2] = t => Done(s, x)

LEMMA OfCheckTriggersForTask ==
  ASSUME NEW s, Good(s), NEW t \in ActiveTasks, Clocked
  PROVE  Outcome(s, CheckTriggersForTask(s, t)) /\ TaskDone(CheckTriggersForTask(s, t), t)
<1>1. active \in ConfigIds /\ t \in TasksOf(active)
  BY DEF ActiveTasks, Clocked
<1>2. PICK n \in Nat : n = Len(Config[active][t].cron) /\ DOMAIN Config[active][t].cron = 1 .. n
  BY <1>1, TriggerParts
<1> DEFINE Loop(f) == ChecksFrom(f, s, t, n)
           after == CHOOSE f : Loop(f)
<1>3. CheckTriggersForTask(s, t) = after[n]
  BY <1>2 DEF CheckTriggersForTask, ChecksFrom
<1>4. Loop(after)
  <2>1. \E f : Loop(f)
    BY ChecksExist
  <2> QED BY <2>1
<1> HIDE DEF after
<1>5. after[0] = s
  BY <1>4 DEF ChecksFrom
<1>6. ASSUME NEW k \in Nat, k < n PROVE after[k + 1] = CheckTrigger(after[k], <<active, t, k + 1>>)
  <2>1. k + 1 \in 0 .. n /\ k + 1 # 0 /\ (k + 1) - 1 = k
    BY <1>6
  <2> QED BY <1>4, <2>1 DEF ChecksFrom
<1> HIDE DEF Loop
<1> DEFINE Reach(k) == Outcome(s, after[k]) /\ \A j \in 1 .. k : Done(after[k], <<active, t, j>>)
           S == {k \in Nat : k <= n => Reach(k)}
<1>7. 0 \in S
  <2>1. Reach(0)
    BY <1>5, NoOutcome
  <2> QED BY <2>1
<1>8. ASSUME NEW k \in Nat, k \in S PROVE k + 1 \in S
  <2> SUFFICES ASSUME k + 1 <= n PROVE Reach(k + 1)
    OBVIOUS
  <2>1. PICK p : p = after[k] /\ Outcome(s, p) /\ \A j \in 1 .. k : Done(p, <<active, t, j>>)
    BY <1>8
  <2>2. PICK x \in Triggers : x = <<active, t, k + 1>>
    <3>1. k + 1 \in DOMAIN Config[active][t].cron
      BY <1>2
    <3> QED BY <1>1, <3>1, TriggerParts
  <2>3. PICK r : r = after[k + 1] /\ r = CheckTrigger(p, x)
    <3>1. k < n
      OBVIOUS
    <3> QED BY <1>6, <2>1, <2>2, <3>1
  <2>4. IsActive(x) /\ Good(p)
    BY <2>1, <2>2 DEF IsActive, Outcome
  <2>5. Outcome(p, r) /\ Done(r, x)
    BY <2>3, <2>4, OfCheckTrigger
  <2>6. Outcome(s, r) /\ \A y \in Triggers : Done(p, y) => Done(r, y)
    BY <2>1, <2>5, Outcomes
  <2>7. ASSUME NEW j \in 1 .. k + 1 PROVE Done(r, <<active, t, j>>)
    <3>1. CASE j = k + 1
      BY <2>2, <2>5, <3>1
    <3>2. CASE j # k + 1
      <4>1. j \in 1 .. k /\ j \in DOMAIN Config[active][t].cron
        BY <1>2, <3>2
      <4>2. <<active, t, j>> \in Triggers
        BY <1>1, <4>1, TriggerParts
      <4> QED BY <2>1, <2>6, <4>1, <4>2
    <3> QED BY <3>1, <3>2
  <2> QED BY <2>3, <2>6, <2>7
<1> HIDE DEF S
<1>9. Nat \subseteq S
  BY <1>7, <1>8, Induction
<1>10. Reach(n)
  BY <1>9 DEF S
<1>11. ASSUME NEW x \in Triggers, IsActive(x), x[2] = t PROVE Done(after[n], x)
  <2>1. x[3] \in 1 .. n /\ x = <<active, t, x[3]>>
    BY <1>2, <1>11, TriggerParts DEF IsActive
  <2> QED BY <1>10, <2>1
<1> QED BY <1>3, <1>10, <1>11 DEF TaskDone

LEMMA OfCheckTask ==
  ASSUME NEW s, Good(s), NEW t \in ActiveTasks, Clocked
  PROVE  Outcome(s, CheckTask(s, t)) /\ TaskDone(CheckTask(s, t), t)
<1>1. active \in ConfigIds /\ t \in TasksOf(active)
  BY DEF ActiveTasks, Clocked
<1>2. CASE Config[active][t].cron = <<>>
  <2>1. PICK date \in Nat \cup {None} : date = None
    OBVIOUS
  <2>2. PICK r : r = CheckTask(s, t) /\ r = SetNextExecution(s, t, date)
    BY <1>2, <2>1 DEF CheckTask
  <2>3. State(s)
    BY DEF Good
  <2>4. /\ State(r)
        /\ r.last = s.last /\ r.next = s.next /\ r.timers = s.timers /\ r.planned = s.planned
        /\ \A u \in Tasks, d \in Nat : Announced(r, u, d) => Announced(s, u, d) \/ (u = t /\ d = date)
    BY <2>2, <2>3, OfSetNextExecution
  <2>5. Scheduled(r)
    <3>1. \A u \in Tasks, d \in Nat : Announced(r, u, d) => Announced(s, u, d)
      BY <2>1, <2>4 DEF None
    <3>2. Scheduled(s)
      BY DEF Good
    <3> QED BY <2>4, <3>1, <3>2 DEF Scheduled
  <2>6. Good(r)
    BY <2>4, <2>5 DEF Good, Right, Near, Past
  <2>7. Outcome(s, r)
    BY <2>4, <2>6 DEF Outcome, Fires, HasTimer
  <2>8. TaskDone(r, t)
    <3> SUFFICES ASSUME NEW x \in Triggers, IsActive(x), x[2] = t PROVE FALSE
      BY DEF TaskDone
    <3>1. x[3] \in DOMAIN <<>>
      BY <1>2, TriggerParts DEF IsActive
    <3> QED BY <3>1
  <2> QED BY <2>2, <2>7, <2>8
<1>3. CASE Config[active][t].cron # <<>>
  BY <1>3, OfCheckTriggersForTask DEF CheckTask
<1> QED BY <1>2, <1>3

LEMMA AllTasksListed ==
  ASSUME NEW c \in ConfigIds
  PROVE  /\ Len(TasksInOrder[c]) \in Nat
         /\ \A k \in 1 .. Len(TasksInOrder[c]) : TasksInOrder[c][k] \in TasksOf(c)
         /\ \A t \in TasksOf(c) : \E k \in 1 .. Len(TasksInOrder[c]) : TasksInOrder[c][k] = t
<1>1. PICK S : S = TasksOf(c) /\ IsFiniteSet(S)
  BY TriggersAssumption
<1>2. PICK n \in Nat : n = Cardinality(S) /\ ExistsBijection(1 .. n, S)
  BY <1>1, FS_CardinalityType
<1>3. \E f \in [1 .. n -> S] : IsInjective(f)
  <2>1. PICK f \in Bijection(1 .. n, S) : TRUE
    BY <1>2 DEF ExistsBijection
  <2>2. f \in [1 .. n -> S] /\ IsInjective(f)
    BY <2>1 DEF Bijection, Injection
  <2> QED BY <2>2
<1>4. PICK f : f = TasksInOrder[c] /\ f = CHOOSE g \in [1 .. n -> S] : IsInjective(g)
  BY <1>1, <1>2 DEF TasksInOrder, SetToSeq
<1>5. f \in [1 .. n -> S] /\ IsInjective(f)
  BY <1>3, <1>4
<1>6. f \in Surjection(1 .. n, S)
  <2>1. f \in Injection(1 .. n, S)
    BY <1>5 DEF Injection
  <2>2. Cardinality(1 .. n) = n
    <3>1. n \in Int /\ 1 \in Int /\ Cardinality(1 .. n) = IF 1 > n THEN 0 ELSE n - 1 + 1
      BY FS_Interval
    <3> QED BY <3>1
  <2> QED BY <1>1, <1>2, <2>1, <2>2, FS_Injection
<1>7. Len(f) = n
  BY <1>5
<1>8. \A t \in S : \E k \in 1 .. n : f[k] = t
  BY <1>6 DEF Surjection
<1> QED BY <1>1, <1>4, <1>5, <1>7, <1>8

LEMMA OfCheckTriggersForAllTasks ==
  ASSUME NEW s, Good(s), active # NoConfigId, Clocked
  PROVE  /\ Outcome(s, CheckTriggersForAllTasks(s))
         /\ \A x \in Triggers : IsActive(x) => Done(CheckTriggersForAllTasks(s), x)
<1>1. active \in ConfigIds /\ ActiveTasks = TasksOf(active)
  BY DEF ActiveTasks, Clocked
<1>2. PICK order : order = TasksInOrder[active]
  OBVIOUS
<1> PICK n \in Nat : n = Len(order)
  BY <1>1, <1>2, AllTasksListed
<1>12. /\ \A k \in 1 .. n : order[k] \in TasksOf(active)
       /\ \A t \in TasksOf(active) : \E k \in 1 .. n : order[k] = t
  BY <1>1, <1>2, AllTasksListed
<1> DEFINE Loop(f) == TasksFrom(f, s, order, n)
           after == CHOOSE f : Loop(f)
<1>3. CheckTriggersForAllTasks(s) = after[n]
  BY <1>2 DEF CheckTriggersForAllTasks, TasksFrom
<1>4. Loop(after)
  <2>1. \E f : Loop(f)
    BY TasksExist
  <2> QED BY <2>1
<1> HIDE DEF after
<1>5. after[0] = s
  BY <1>4 DEF TasksFrom
<1>6. ASSUME NEW k \in Nat, k < n PROVE after[k + 1] = CheckTask(after[k], order[k + 1])
  <2>1. k + 1 \in 0 .. n /\ k + 1 # 0 /\ (k + 1) - 1 = k
    BY <1>6
  <2> QED BY <1>4, <2>1 DEF TasksFrom
<1> HIDE DEF Loop
<1> DEFINE Reach(k) == Outcome(s, after[k]) /\ \A j \in 1 .. k : TaskDone(after[k], order[j])
           S == {k \in Nat : k <= n => Reach(k)}
<1>7. 0 \in S
  <2>1. Reach(0)
    BY <1>5, NoOutcome
  <2> QED BY <2>1
<1>8. ASSUME NEW k \in Nat, k \in S PROVE k + 1 \in S
  <2> SUFFICES ASSUME k + 1 <= n PROVE Reach(k + 1)
    OBVIOUS
  <2>1. PICK p : p = after[k] /\ Outcome(s, p) /\ \A j \in 1 .. k : TaskDone(p, order[j])
    BY <1>8
  <2>2. PICK t \in ActiveTasks : t = order[k + 1]
    BY <1>1, <1>12
  <2>3. PICK r : r = after[k + 1] /\ r = CheckTask(p, t)
    <3>1. k < n
      OBVIOUS
    <3> QED BY <1>6, <2>1, <2>2, <3>1
  <2>4. Good(p)
    BY <2>1 DEF Outcome
  <2>5. Outcome(p, r) /\ TaskDone(r, t)
    BY <2>3, <2>4, OfCheckTask
  <2>6. Outcome(s, r) /\ \A y \in Triggers : Done(p, y) => Done(r, y)
    BY <2>1, <2>5, Outcomes
  <2>7. ASSUME NEW j \in 1 .. k + 1 PROVE TaskDone(r, order[j])
    <3>1. CASE j = k + 1
      BY <2>2, <2>5, <3>1
    <3>2. CASE j # k + 1
      <4>1. j \in 1 .. k
        BY <3>2
      <4> QED BY <2>1, <2>6, <4>1 DEF TaskDone
    <3> QED BY <3>1, <3>2
  <2> QED BY <2>3, <2>6, <2>7
<1> HIDE DEF S
<1>9. Nat \subseteq S
  BY <1>7, <1>8, Induction
<1>10. Reach(n)
  BY <1>9 DEF S
<1>11. ASSUME NEW x \in Triggers, IsActive(x) PROVE Done(after[n], x)
  <2>1. x[2] \in TasksOf(active)
    BY <1>11, TriggerParts DEF IsActive
  <2>2. PICK k \in 1 .. n : order[k] = x[2]
    BY <1>12, <2>1
  <2> QED BY <1>10, <1>11, <2>2 DEF TaskDone
<1> QED BY <1>3, <1>10, <1>11

-----------------------------------------------------------------------------
(* The inductive invariant.                                                *)

\* An active trigger that was checked has a timer, and waits for a date that
\* was not reached when the periodic timer was started last.
Attended(x) ==
  /\ HasTimer(Current, x)
  /\ SetBack /\ next[x] # None => periodicCheck + shift < next[x] + Period

TriggersInv ==
  /\ Clocked /\ Good(Current)
  /\ checkQueued \in BOOLEAN /\ (checkQueued => active # NoConfigId)
  /\ periodicCheck \in Nat /\ clock <= periodicCheck + MaxLag /\ periodicCheck <= clock + Period
  /\ ~checkQueued => \A x \in Triggers : IsActive(x) => Attended(x)

LEMMA OfCurrent ==
  /\ Current.last = last /\ Current.next = next /\ Current.repository = repository
  /\ Current.copies = copies /\ Current.timers = timers /\ Current.planned = {}
BY DEF Current

LEMMA Numbers == Period \in Nat /\ MaxLag \in Nat
BY ClockAssumption

\* No trigger is active without a configuration.
LEMMA SomeConfig == ASSUME NEW x \in Triggers, IsActive(x) PROVE active # NoConfigId
BY TriggerParts, TriggersAssumption DEF IsActive

LEMMA TriggersInvInit == TriggeringInit => TriggersInv
<1> SUFFICES ASSUME TriggeringInit PROVE TriggersInv
  OBVIOUS
<1>1. Clocked
  BY ClockAssumption DEF TriggeringInit, Clocked
<1>2. State(Current)
  <2>1. NewData \in Data /\ NoCopy \in Data /\ ~NoCopy.copied
    BY DEF NewData, NoCopy, Data
  <2>2. Loaded(repository)
    BY <2>1 DEF TriggeringInit, Loaded
  <2>3. Live(copies)
    BY <2>1 DEF TriggeringInit, Live
  <2>4. last \in [Triggers -> Times \cup {None}] /\ next \in [Triggers -> Nat \cup {None}] /\ timers = {}
    BY DEF TriggeringInit
  <2> QED BY <2>2, <2>3, <2>4 DEF State, Current
<1>3. Scheduled(Current)
  <2>1. ASSUME NEW t \in Tasks, NEW date \in Nat PROVE ~Announced(Current, t, date)
    <3>1. copies[t].nextExecution = None /\ None \notin Nat
      BY DEF TriggeringInit, NoCopy, None
    <3>2. ASSUME NEW c \in ConfigIds, t \in TasksOf(c) PROVE repository[c][t].nextExecution = None
      BY <3>2 DEF TriggeringInit, NewData
    <3> QED BY <3>1, <3>2 DEF Announced, Current
  <2> QED BY <2>1 DEF Scheduled
<1>4. \A x \in Triggers : Right(Current, x) /\ Near(Current, x) /\ Past(Current, x)
  BY DEF TriggeringInit, Current, Right, Near, Past
<1>5. /\ checkQueued \in BOOLEAN /\ (checkQueued => active # NoConfigId)
      /\ periodicCheck \in Nat /\ clock <= periodicCheck + MaxLag /\ periodicCheck <= clock + Period
  <2>1. clock = StartTime /\ periodicCheck = clock + Period /\ checkQueued = FALSE
    BY DEF TriggeringInit
  <2>2. clock \in Nat
    BY <1>1, TheTime
  <2>3. periodicCheck \in Nat /\ clock <= periodicCheck + MaxLag /\ periodicCheck <= clock + Period
    BY <2>1, <2>2, Numbers
  <2> QED BY <2>1, <2>3
<1>6. active = NoConfigId
  BY DEF TriggeringInit
<1> QED BY <1>1, <1>2, <1>3, <1>4, <1>5, <1>6, SomeConfig DEF TriggersInv, Good

\* A step that ends in a good state of the triggers.
LEMMA Stepped ==
  ASSUME NEW r, Good(r), Becomes(r), UNCHANGED <<clock, shift, active>>
  PROVE  /\ Good(Current)'
         /\ \A x \in Triggers : /\ next'[x] = r.next[x] /\ last'[x] = r.last[x]
                                /\ HasTimer(r, x) => HasTimer(Current, x)'
                                /\ IsActive(x)' <=> IsActive(x)
         /\ planned' = r.planned
<1>1. /\ last' = r.last /\ next' = r.next /\ repository' = r.repository /\ copies' = r.copies
      /\ timers' = r.timers /\ planned' = r.planned
  BY DEF Becomes
<1>2. Now' = Now /\ ActiveTasks' = ActiveTasks
  BY DEF Now, ActiveTasks
<1>3. State(r)
  BY DEF Good
<1>4. State(Current)'
  BY <1>1, <1>2, <1>3 DEF State, Current, Live
<1>5. Scheduled(Current)'
  <2>1. Scheduled(r)
    BY DEF Good
  <2> QED BY <1>1, <1>2, <2>1 DEF Scheduled, Announced, Current
<1>6. ASSUME NEW x \in Triggers
      PROVE  Right(Current, x)' /\ Near(Current, x)' /\ Past(Current, x)'
  <2>1. Right(r, x) /\ Near(r, x) /\ Past(r, x)
    BY DEF Good
  <2> QED BY <1>1, <1>2, <2>1 DEF Right, Near, Past, Current
<1>7. ASSUME NEW x \in Triggers, HasTimer(r, x) PROVE HasTimer(Current, x)'
  BY <1>1, <1>2, <1>7 DEF HasTimer, Current
<1> QED BY <1>1, <1>4, <1>5, <1>6, <1>7 DEF Good, IsActive

LEMMA LaterDate ==
  ASSUME NEW a \in Nat, NEW b \in Nat, NEW e \in Int, a <= b PROVE a + e <= b + e
OBVIOUS

\* A step that is not about the triggers, or later on the clock.
LEMMA Idle ==
  ASSUME TriggersInv, UNCHANGED <<active, triggerVars>>, clock' \in StartTime .. MaxTime, shift' \in Shifts,
         \/ clock' >= clock /\ shift' = shift
         \/ clock' = clock /\ shift = 0 /\ shift' # 0
  PROVE  Clocked' /\ Good(Current)' /\ \A x \in Triggers : HasTimer(Current, x) => HasTimer(Current, x)'
<1>1. /\ last' = last /\ next' = next /\ repository' = repository /\ copies' = copies
      /\ timers' = timers /\ active' = active
  BY DEF triggerVars
<1>2. Clocked /\ Good(Current) /\ Clocked'
  BY DEF TriggersInv, Clocked
<1>3. /\ clock' \in Nat /\ clock \in Nat /\ shift \in Int /\ shift' \in Int
      /\ Now' = clock' + shift' /\ Now = clock + shift /\ IntMax \in Nat
  <2>1. clock \in Nat /\ shift \in Int /\ Now = clock + shift /\ IntMax \in Nat
    BY <1>2, TheTime
  <2>2. clock' \in Nat /\ shift' \in Int
    BY ClockAssumption
  <2> QED BY <2>1, <2>2 DEF Now
<1>4. State(Current)'
  BY <1>1, <1>2 DEF Good, State, Current, Live, ActiveTasks
<1>5. shift' = 0 => shift = 0 /\ Now <= Now' /\ clock <= clock'
  <2>1. CASE clock' >= clock /\ shift' = shift
    <3>1. Now <= Now'
      <4>1. PICK a \in Nat, b \in Nat, e \in Int : a = clock /\ b = clock' /\ e = shift /\ e = shift'
        BY <1>3, <2>1
      <4>2. Now = a + e /\ Now' = b + e /\ a <= b
        BY <1>3, <2>1, <4>1
      <4>3. a + e <= b + e
        BY <4>2, LaterDate
      <4> QED BY ONLY <4>2, <4>3, Zenon
    <3> QED BY <1>3, <2>1, <3>1
  <2>2. CASE clock' = clock /\ shift = 0 /\ shift' # 0
    BY <2>2
  <2> QED BY <2>1, <2>2
<1>6. Scheduled(Current)'
  <2> SUFFICES ASSUME shift' = 0, NEW t \in Tasks \cap Frequent, NEW date \in Nat,
                      Announced(Current, t, date)', date > Now'
               PROVE  <<t, date>> \in Current.timers'
    BY DEF Scheduled
  <2>1. Announced(Current, t, date)
    BY <1>1 DEF Announced, Current
  <2>2. shift = 0 /\ date > Now
    <3>1. shift = 0 /\ Now <= Now' /\ date \in Int /\ date > Now'
      BY <1>5
    <3>2. Now \in Int /\ Now' \in Int
      BY <1>3
    <3> QED BY ONLY <3>1, <3>2
  <2>3. <<t, date>> \in Current.timers
    BY <1>2, <2>1, <2>2 DEF Good, Scheduled
  <2> QED BY <1>1, <2>3 DEF Current
<1>7. ASSUME NEW x \in Triggers PROVE Right(Current, x)' /\ Near(Current, x)' /\ Past(Current, x)'
  <2>1. Right(Current, x) /\ Near(Current, x) /\ Past(Current, x)
    BY <1>2 DEF Good
  <2>2. last[x] \in Nat \cup {None} /\ next[x] \in Nat \cup {None}
    BY <1>2 DEF Good, State, Current, Times
  <2>3. Right(Current, x)'
    BY <1>1, <2>1 DEF Right, Current
  <2>4. Near(Current, x)'
    BY <1>1, <1>3, <1>5, <2>1, <2>2 DEF Near, Current, None
  <2>5. Past(Current, x)'
    BY <1>1, <1>3, <1>5, <2>1, <2>2 DEF Past, Current, None
  <2> QED BY <2>3, <2>4, <2>5
<1>8. ASSUME NEW x \in Triggers, HasTimer(Current, x) PROVE HasTimer(Current, x)'
  BY <1>1, <1>5, <1>8 DEF HasTimer, Current
<1> QED BY <1>2, <1>4, <1>6, <1>7, <1>8 DEF Good

\* A step of something else.
LEMMA Unmoved ==
  ASSUME TriggersInv, UNCHANGED <<clock, shift, active, triggerVars, periodicCheck, checkQueued>>
  PROVE  TriggersInv'
<1>1. /\ last' = last /\ next' = next /\ repository' = repository /\ copies' = copies
      /\ timers' = timers /\ active' = active /\ clock' = clock /\ shift' = shift
      /\ periodicCheck' = periodicCheck /\ checkQueued' = checkQueued
  BY DEF triggerVars
<1> QED BY <1>1 DEF TriggersInv, Clocked, Good, State, Live, Scheduled, Announced, Right, Near, Past,
                   HasTimer, Attended, IsActive, Current, Now, ActiveTasks

LEMMA TickSteps == TriggersInv /\ Tick => TriggersInv'
<1> SUFFICES ASSUME TriggersInv, Tick PROVE TriggersInv'
  OBVIOUS
<1>1. /\ clock' = clock + 1 /\ clock < MaxTime /\ clock - periodicCheck < MaxLag
      /\ UNCHANGED <<shift, active, triggerVars, periodicCheck, checkQueued>>
  BY DEF Tick
<1>2. Clocked
  BY DEF TriggersInv
<1>3. clock \in Nat /\ StartTime <= clock /\ MaxTime \in Nat /\ StartTime \in Nat /\ shift \in Int
  BY <1>2, TheTime
<1>4. clock' \in StartTime .. MaxTime /\ clock' >= clock /\ shift' = shift /\ shift' \in Shifts
  BY <1>1, <1>2, <1>3 DEF Clocked
<1>5. Clocked' /\ Good(Current)' /\ \A x \in Triggers : HasTimer(Current, x) => HasTimer(Current, x)'
  BY <1>1, <1>4, Idle
<1>6. periodicCheck' \in Nat /\ clock' <= periodicCheck' + MaxLag /\ periodicCheck' <= clock' + Period
  BY <1>1, <1>3, Numbers DEF TriggersInv
<1>7. ASSUME ~checkQueued', NEW x \in Triggers, IsActive(x)' PROVE Attended(x)'
  <2>1. Attended(x)
    BY <1>1, <1>7 DEF TriggersInv, IsActive
  <2>2. next' = next
    BY <1>1 DEF triggerVars
  <2> QED BY <1>1, <1>5, <2>1, <2>2 DEF Attended
<1>8. checkQueued' \in BOOLEAN /\ (checkQueued' => active' # NoConfigId)
  BY <1>1 DEF TriggersInv
<1> QED BY <1>5, <1>6, <1>7, <1>8 DEF TriggersInv

LEMMA ChangeTimeSteps == TriggersInv /\ ChangeTime => TriggersInv'
<1> SUFFICES ASSUME TriggersInv, ChangeTime PROVE TriggersInv'
  OBVIOUS
<1>1. /\ shift = 0 /\ shift' \in Shifts /\ shift' # 0
      /\ UNCHANGED <<clock, active, triggerVars, periodicCheck, checkQueued>>
  BY DEF ChangeTime
<1>2. Clocked
  BY DEF TriggersInv
<1>3. clock' \in StartTime .. MaxTime /\ clock' = clock
  BY <1>1, <1>2 DEF Clocked
<1>4. Clocked' /\ Good(Current)' /\ \A x \in Triggers : HasTimer(Current, x) => HasTimer(Current, x)'
  BY <1>1, <1>3, Idle
<1>5. ASSUME ~checkQueued', NEW x \in Triggers, IsActive(x)' PROVE Attended(x)'
  <2>1. Attended(x)
    BY <1>1, <1>5 DEF TriggersInv, IsActive
  <2>2. next' = next /\ periodicCheck' = periodicCheck
    BY <1>1 DEF triggerVars
  <2>3. HasTimer(Current, x)'
    BY <1>4, <2>1 DEF Attended
  <2>4. ASSUME SetBack, next'[x] # None PROVE periodicCheck' + shift' < next'[x] + Period
    <3>1. periodicCheck + shift < next[x] + Period
      BY <2>1, <2>2, <2>4 DEF Attended
    <3>2. shift' <= 0 /\ shift' \in Int
      BY <1>1, <2>4, ClockAssumption DEF SetBack
    <3>3. periodicCheck \in Nat /\ next[x] \in Nat \cup {None}
      BY DEF TriggersInv, Good, State, Current
    <3> QED BY <1>1, <2>2, <3>1, <3>2, <3>3, Numbers DEF None
  <2> QED BY <2>3, <2>4 DEF Attended
<1>6. /\ periodicCheck' \in Nat /\ clock' <= periodicCheck' + MaxLag /\ periodicCheck' <= clock' + Period
      /\ checkQueued' \in BOOLEAN /\ (checkQueued' => active' # NoConfigId)
  BY <1>1 DEF TriggersInv
<1> QED BY <1>4, <1>5, <1>6 DEF TriggersInv

\* A trigger that was checked when the periodic timer is not late waits for a
\* date that is not reached when it ends.
LEMMA WaitsLong ==
  ASSUME NEW p \in Nat, p <= clock + Period, Clocked, NEW d \in Nat, d > Now
  PROVE  p + shift < d + Period
<1>1. PICK a \in Nat, b \in Int, q \in Nat : a = clock /\ b = shift /\ q = Period
  BY TheTime, Numbers
<1>2. d > a + b /\ p <= a + q
  BY <1>1, TheTime
<1> QED BY <1>1, <1>2

\* The end of checks that may plan tasks.
LEMMA Checked ==
  ASSUME TriggersInv, NEW s, Good(s), s.next = next, NEW r, Outcome(s, r), Becomes(r),
         UNCHANGED <<clock, shift, active>>,
         checkQueued' \in BOOLEAN, checkQueued' => active # NoConfigId,
         periodicCheck' \in Nat, clock <= periodicCheck' + MaxLag, periodicCheck' <= clock + Period,
         \A x \in Triggers : ~checkQueued' /\ IsActive(x) =>
           Done(r, x) \/ (~checkQueued /\ HasTimer(s, x) /\ periodicCheck' = periodicCheck)
  PROVE  TriggersInv'
<1>1. Clocked /\ Clocked' /\ clock' = clock /\ shift' = shift /\ active' = active
  BY DEF TriggersInv, Clocked
<1>2. Good(r)
  BY DEF Outcome
<1>3. /\ Good(Current)'
      /\ \A x \in Triggers : /\ next'[x] = r.next[x]
                             /\ HasTimer(r, x) => HasTimer(Current, x)'
                             /\ IsActive(x)' <=> IsActive(x)
  BY <1>2, Stepped
<1>4. ASSUME ~checkQueued', NEW x \in Triggers, IsActive(x)' PROVE Attended(x)'
  <2>1. IsActive(x)
    BY <1>3, <1>4
  <2>2. r.next[x] \in Nat \cup {None}
    BY <1>2 DEF Good, State
  <2>3. ASSUME Ahead(r, x), next'[x] # None PROVE periodicCheck' + shift' < next'[x] + Period
    <3>1. r.next[x] \in Nat /\ r.next[x] > Now
      BY <1>3, <2>2, <2>3 DEF Ahead
    <3>2. periodicCheck' + shift < r.next[x] + Period
      <4>1. PICK p \in Nat : p = periodicCheck' /\ p <= clock + Period
        OBVIOUS
      <4>2. p + shift < r.next[x] + Period
        BY <1>1, <3>1, <4>1, WaitsLong
      <4> QED BY <4>1, <4>2
    <3> QED BY <1>1, <1>3, <3>2
  <2>4. CASE Done(r, x)
    BY <1>3, <2>3, <2>4 DEF Done, Attended
  <2>5. CASE ~checkQueued /\ HasTimer(s, x) /\ periodicCheck' = periodicCheck
    <3>1. Attended(x)
      BY <2>1, <2>5 DEF TriggersInv
    <3>2. HasTimer(Current, x)'
      BY <1>3, <2>5 DEF Outcome
    <3>3. next'[x] = next[x] \/ Ahead(r, x)
      BY <1>3 DEF Outcome
    <3>4. CASE next'[x] = next[x]
      BY <1>1, <2>5, <3>1, <3>2, <3>4 DEF Attended
    <3>5. CASE Ahead(r, x)
      BY <2>3, <3>2, <3>5 DEF Attended
    <3> QED BY <3>3, <3>4, <3>5
  <2> QED BY <1>4, <2>1, <2>4, <2>5
<1> QED BY <1>1, <1>3, <1>4 DEF TriggersInv

\* A timer that ends is not the one of a date to come.
LEMMA TimerRemoved ==
  ASSUME Good(Current), Clocked, NEW timer \in timers, timer[2] <= clock,
         NEW s, s = [Current EXCEPT !.timers = @ \ {timer}]
  PROVE  Good(s)
<1>1. s = [last |-> last, next |-> next, repository |-> repository, copies |-> copies,
           timers |-> timers \ {timer}, planned |-> {}]
  BY DEF Current
<1>2. State(s)
  BY <1>1 DEF State, Current, Good
<1>3. Scheduled(s)
  <2> SUFFICES ASSUME shift = 0, NEW t \in Tasks \cap Frequent, NEW date \in Nat,
                      Announced(s, t, date), date > Now
               PROVE  <<t, date>> \in s.timers
    BY DEF Scheduled
  <2>1. Announced(Current, t, date)
    BY <1>1 DEF Announced, Current
  <2>2. <<t, date>> \in timers
    BY <2>1 DEF Good, Scheduled, Current
  <2>3. <<t, date>> # timer
    <3>1. Now = clock /\ clock \in Nat
      BY TheTime
    <3> QED BY <3>1
  <2> QED BY <1>1, <2>2, <2>3
<1>4. ASSUME NEW x \in Triggers PROVE Right(s, x) /\ Near(s, x) /\ Past(s, x)
  BY <1>1 DEF Good, Right, Near, Past, Current
<1> QED BY <1>2, <1>3, <1>4 DEF Good

\* The timers of the tasks of former configurations check nothing.
LEMMA TaskOutcome ==
  ASSUME NEW s, Good(s), NEW t, Clocked
  PROVE  /\ Outcome(s, CheckTriggersForTask(s, t))
         /\ t \in ActiveTasks => TaskDone(CheckTriggersForTask(s, t), t)
<1>1. CASE t \in ActiveTasks
  BY <1>1, OfCheckTriggersForTask
<1>2. CASE t \notin ActiveTasks
  BY <1>2, NoOutcome DEF CheckTriggersForTask
<1> QED BY <1>1, <1>2

LEMMA TimerEndsSteps == TriggersInv /\ TimerEnds => TriggersInv'
<1> SUFFICES ASSUME TriggersInv, TimerEnds PROVE TriggersInv'
  OBVIOUS
<1>1. PICK timer \in timers :
        /\ timer[2] <= clock
        /\ Becomes(CheckTriggersForTask([Current EXCEPT !.timers = @ \ {timer}], timer[1]))
        /\ UNCHANGED <<clock, shift, active, periodicCheck, checkQueued>>
  BY DEF TimerEnds
<1>2. Clocked /\ Good(Current) /\ State(Current)
  BY DEF TriggersInv, Good
<1>3. PICK s : s = [Current EXCEPT !.timers = @ \ {timer}]
  OBVIOUS
<1>4. s = [last |-> last, next |-> next, repository |-> repository, copies |-> copies,
           timers |-> timers \ {timer}, planned |-> {}]
  BY <1>3 DEF Current
<1>5. Good(s)
  BY <1>1, <1>2, <1>3, TimerRemoved
<1>6. PICK t : t = timer[1]
  OBVIOUS
<1>7. PICK r : r = CheckTriggersForTask(s, t)
  OBVIOUS
<1>8. Becomes(r)
  BY <1>1, <1>3, <1>6, <1>7
<1>9. Outcome(s, r) /\ (t \in ActiveTasks => TaskDone(r, t))
  BY <1>2, <1>5, <1>7, TaskOutcome
<1>10. ASSUME NEW x \in Triggers, ~checkQueued', IsActive(x)
       PROVE  Done(r, x) \/ (~checkQueued /\ HasTimer(s, x) /\ periodicCheck' = periodicCheck)
  <2>1. CASE x[2] = t
    <3>1. t \in ActiveTasks
      BY <1>10, <2>1, TriggerParts, SomeConfig DEF IsActive, ActiveTasks
    <3> QED BY <1>9, <1>10, <2>1, <3>1 DEF TaskDone
  <2>2. CASE x[2] # t
    <3>1. ~checkQueued /\ periodicCheck' = periodicCheck
      BY <1>1, <1>10
    <3>2. HasTimer(Current, x)
      BY <1>10, <3>1 DEF TriggersInv, Attended
    <3>3. HasTimer(s, x)
      BY <1>4, <1>6, <2>2, <3>2 DEF HasTimer, Current
    <3> QED BY <3>1, <3>3
  <2> QED BY <2>1, <2>2
<1>11. /\ checkQueued' \in BOOLEAN /\ (checkQueued' => active # NoConfigId)
       /\ periodicCheck' \in Nat /\ clock <= periodicCheck' + MaxLag /\ periodicCheck' <= clock + Period
  BY <1>1 DEF TriggersInv
<1>12. s.next = next
  BY <1>4
<1> QED BY <1>1, <1>5, <1>8, <1>9, <1>10, <1>11, <1>12, Checked

LEMMA QueuedCheckSteps == TriggersInv /\ QueuedCheck => TriggersInv'
<1> SUFFICES ASSUME TriggersInv, QueuedCheck PROVE TriggersInv'
  OBVIOUS
<1>1. /\ checkQueued /\ ~checkQueued' /\ checkQueued' \in BOOLEAN
      /\ Becomes(CheckTriggersForAllTasks(Current))
      /\ UNCHANGED <<clock, shift, active, periodicCheck>>
  BY DEF QueuedCheck
<1>2. PICK s : s = Current /\ Good(s) /\ s.next = next
  BY OfCurrent DEF TriggersInv
<1>3. active # NoConfigId /\ Clocked
  BY <1>1 DEF TriggersInv
<1>4. PICK r : r = CheckTriggersForAllTasks(s)
  OBVIOUS
<1>5. Outcome(s, r) /\ \A x \in Triggers : IsActive(x) => Done(r, x)
  BY <1>2, <1>3, <1>4, OfCheckTriggersForAllTasks
<1>6. periodicCheck' \in Nat /\ clock <= periodicCheck' + MaxLag /\ periodicCheck' <= clock + Period
  BY <1>1 DEF TriggersInv
<1> QED BY <1>1, <1>2, <1>3, <1>4, <1>5, <1>6, Checked

LEMMA PeriodicChecksSteps == TriggersInv /\ PeriodicChecks => TriggersInv'
<1> SUFFICES ASSUME TriggersInv, PeriodicChecks PROVE TriggersInv'
  OBVIOUS
<1>1. /\ periodicCheck' = clock + Period
      /\ IF active = NoConfigId THEN Becomes(Current) ELSE Becomes(CheckTriggersForAllTasks(Current))
      /\ UNCHANGED <<clock, shift, active, checkQueued>>
  BY DEF PeriodicChecks
<1>2. PICK s : s = Current /\ Good(s) /\ s.next = next
  BY OfCurrent DEF TriggersInv
<1>3. Clocked
  BY DEF TriggersInv
<1>4. periodicCheck' \in Nat /\ clock <= periodicCheck' + MaxLag /\ periodicCheck' <= clock + Period
  BY <1>1, <1>3, TheTime, Numbers
<1>5. checkQueued' \in BOOLEAN /\ (checkQueued' => active # NoConfigId)
  BY <1>1 DEF TriggersInv
<1>6. CASE active = NoConfigId
  <2>1. \A x \in Triggers : ~IsActive(x)
    BY <1>6, SomeConfig
  <2>2. Outcome(s, s)
    BY <1>2, NoOutcome
  <2>3. Becomes(s)
    BY <1>1, <1>2, <1>6
  <2> QED BY <1>1, <1>2, <1>4, <1>5, <2>1, <2>2, <2>3, Checked
<1>7. CASE active # NoConfigId
  <2>1. PICK r : r = CheckTriggersForAllTasks(s)
    OBVIOUS
  <2>2. Outcome(s, r) /\ \A x \in Triggers : IsActive(x) => Done(r, x)
    BY <1>2, <1>3, <1>7, <2>1, OfCheckTriggersForAllTasks
  <2>3. Becomes(r)
    BY <1>1, <1>2, <1>7, <2>1
  <2> QED BY <1>1, <1>2, <1>4, <1>5, <1>7, <2>2, <2>3, Checked
<1> QED BY <1>6, <1>7

\* The trigger of the old configuration whose last time is copied.
LEMMA OldTrigger ==
  ASSUME NEW x \in Triggers, Clocked, x[2] \in ActiveTasks, SameTrigger(x) # {}
  PROVE  SameTrigger(x) \subseteq Triggers
<1>1. active \in ConfigIds /\ x[2] \in TasksOf(active)
  BY DEF Clocked, ActiveTasks
<1>2. PICK n \in Nat : DOMAIN Config[active][x[2]].cron = 1 .. n
  BY <1>1, TriggerParts
<1> DEFINE same == {k \in DOMAIN Config[active][x[2]].cron : CanonicalOf[<<active, x[2], k>>] = CanonicalOf[x]}
<1>3. same # {} /\ SameTrigger(x) = {<<active, x[2], Greatest(same)>>}
  BY DEF SameTrigger
<1>4. same \subseteq 1 .. n
  BY <1>2
<1> HIDE DEF same
<1>5. Greatest(same) \in same
  <2> DEFINE back == {n - k : k \in same}
  <2>1. back \subseteq Nat /\ back # {}
    <3>1. \A k \in same : n - k \in Nat
      BY <1>4
    <3> QED BY <1>3, <3>1
  <2>2. PICK m \in back : \A j \in back : m <= j
    BY <2>1, Least
  <2>3. PICK k \in same : m = n - k
    BY <2>2
  <2>4. ASSUME NEW j \in same PROVE j <= k
    <3>1. n - k <= n - j
      BY <2>2, <2>3
    <3>2. j \in Int /\ k \in Int
      BY <1>4
    <3> QED BY <3>1, <3>2
  <2>5. \E g \in same : \A y \in same : y <= g
    BY <2>4
  <2> QED BY <2>5 DEF Greatest
<1>6. <<active, x[2], Greatest(same)>> \in Triggers
  BY <1>1, <1>2, <1>4, <1>5, TriggerParts
<1> QED BY <1>3, <1>6

LEMMA ActivateTriggersSteps ==
  ASSUME NEW c \in ConfigIds, TriggersInv, ActivateTriggers(c) PROVE TriggersInv'
<1> DEFINE kept == {x \in Triggers : x[1] = c /\ x[2] \in ActiveTasks /\ SameTrigger(x) # {}}
           old(x) == CHOOSE y \in SameTrigger(x) : TRUE
<1>1. /\ copies' = [t \in Tasks |-> IF t \in TasksOf(c) \cap ActiveTasks THEN CopiedTask(c, t) ELSE NoCopy]
      /\ last' = [x \in Triggers |-> IF x \in kept THEN last[old(x)] ELSE last[x]]
      /\ next' = [x \in Triggers |-> IF x \in kept THEN None ELSE next[x]]
      /\ active' = c /\ checkQueued' = TRUE
      /\ UNCHANGED <<clock, shift, repository, timers, periodicCheck>>
  BY DEF ActivateTriggers, CopyLiveAttributes
<1>2. Clocked /\ Good(Current) /\ State(Current)
  BY DEF TriggersInv, Good
<1>3. /\ last \in [Triggers -> Times \cup {None}] /\ next \in [Triggers -> Nat \cup {None}]
      /\ Loaded(repository) /\ Live(copies) /\ timers \subseteq Tasks \X Nat
  BY <1>2, OfCurrent DEF State
<1>4. ASSUME NEW x \in kept PROVE old(x) \in Triggers
  BY <1>2, OldTrigger
<1>5. ASSUME NEW x \in Triggers
      PROVE  \/ next'[x] = None /\ \E y \in Triggers : last'[x] = last[y]
             \/ next'[x] = next[x] /\ last'[x] = last[x]
  <2>1. CASE x \in kept
    BY <1>1, <1>4, <2>1
  <2>2. CASE x \notin kept
    BY <1>1, <2>2
  <2> QED BY <2>1, <2>2
<1>6. last' \in [Triggers -> Times \cup {None}] /\ next' \in [Triggers -> Nat \cup {None}]
  <2>1. \A x \in Triggers : last'[x] \in Times \cup {None} /\ next'[x] \in Nat \cup {None}
    BY <1>3, <1>5
  <2> HIDE DEF kept, old
  <2>2. DOMAIN last' = Triggers /\ DOMAIN next' = Triggers
    BY <1>1
  <2>3. last' = [x \in Triggers |-> last'[x]] /\ next' = [x \in Triggers |-> next'[x]]
    BY <1>1
  <2> QED BY <2>1, <2>2, <2>3
<1> HIDE DEF kept, old
<1>7. NoCopy \in Data /\ ~NoCopy.copied /\ NoCopy.nextExecution = None
  BY DEF NoCopy, Data
<1>8. ASSUME NEW t \in TasksOf(c) \cap ActiveTasks
      PROVE  CopiedTask(c, t) \in Data /\ CopiedTask(c, t).nextExecution = repository[c][t].nextExecution
  <2>1. repository[c][t] \in Data
    BY <1>3 DEF Loaded
  <2>2. DataOf(Current, t).enabled \in BOOLEAN
    BY <1>2, OfDataOf DEF Data
  <2> QED BY <2>1, <2>2 DEF CopiedTask, Data
<1>9. ActiveTasks' = TasksOf(c) /\ c # NoConfigId
  BY <1>1, TriggersAssumption DEF ActiveTasks
<1>10. ASSUME NEW t \in Tasks
       PROVE  /\ copies'[t] \in Data /\ (copies'[t].copied => t \in ActiveTasks')
              /\ copies'[t].nextExecution = None
                 \/ (t \in TasksOf(c) /\ copies'[t].nextExecution = repository[c][t].nextExecution)
  <2>1. CASE t \in TasksOf(c) \cap ActiveTasks
    BY <1>1, <1>8, <1>9, <2>1
  <2>2. CASE t \notin TasksOf(c) \cap ActiveTasks
    BY <1>1, <1>7, <2>2
  <2> QED BY <2>1, <2>2
<1>11. Live(copies)'
  <2>1. copies' \in [Tasks -> Data]
    BY <1>1, <1>10
  <2> QED BY <1>10, <2>1 DEF Live
<1>12. State(Current)'
  BY <1>1, <1>3, <1>6, <1>11 DEF State, Current, Loaded
<1>13. Now' = Now /\ shift' = shift /\ clock' = clock
  BY <1>1 DEF Now
<1>14. Scheduled(Current)'
  <2> SUFFICES ASSUME shift = 0, NEW t \in Tasks \cap Frequent, NEW date \in Nat,
                      Announced(Current, t, date)', date > Now
               PROVE  <<t, date>> \in timers'
    BY <1>13 DEF Scheduled, Current
  <2>1. Announced(Current, t, date)
    <3>1. date = copies'[t].nextExecution
          \/ \E d \in ConfigIds : t \in TasksOf(d) /\ date = repository[d][t].nextExecution
      BY <1>1 DEF Announced, Current
    <3>2. date # None
      BY DEF None
    <3> QED BY <1>10, <3>1, <3>2 DEF Announced, Current
  <2> QED BY <1>1, <1>2, <2>1 DEF Good, Scheduled, Current
<1>15. ASSUME NEW x \in Triggers
       PROVE  Right(Current, x)' /\ Near(Current, x)' /\ Past(Current, x)'
  <2>1. \A y \in Triggers : Right(Current, y) /\ Near(Current, y) /\ Past(Current, y)
    BY <1>2 DEF Good
  <2>2. CASE next'[x] = None /\ \E y \in Triggers : last'[x] = last[y]
    BY <1>13, <2>1, <2>2 DEF Right, Near, Past, Current
  <2>3. CASE next'[x] = next[x] /\ last'[x] = last[x]
    BY <1>13, <2>1, <2>3 DEF Right, Near, Past, Current
  <2> QED BY <1>5, <2>2, <2>3
<1>16. Clocked'
  BY <1>1, <1>2 DEF Clocked
<1>17. /\ checkQueued' = TRUE /\ active' # NoConfigId
       /\ periodicCheck' \in Nat /\ clock' <= periodicCheck' + MaxLag /\ periodicCheck' <= clock' + Period
  BY <1>1, <1>9 DEF TriggersInv
<1> QED BY <1>12, <1>14, <1>15, <1>16, <1>17 DEF TriggersInv, Good

LEMMA PostNoticeSteps ==
  ASSUME NEW n \in Notices, TriggersInv, PostNotice(n) PROVE TriggersInv'
<1>1. UNCHANGED <<clock, shift, active, triggerVars, periodicCheck, checkQueued>>
  BY DEF PostNotice
<1> QED BY <1>1, Unmoved

\* A switch of tasks leaves the dates as they are.
LEMMA Switches ==
  ASSUME TriggersInv, UNCHANGED <<clock, shift, active, last, next, timers, periodicCheck, checkQueued>>,
         Loaded(repository'), Live(copies'),
         \A t \in Tasks, date \in Nat : Announced(Current, t, date)' => Announced(Current, t, date)
  PROVE  TriggersInv'
<1>1. Clocked /\ Good(Current) /\ State(Current)
  BY DEF TriggersInv, Good
<1>2. Now' = Now /\ shift' = shift /\ clock' = clock /\ ActiveTasks' = ActiveTasks /\ Clocked'
  BY <1>1 DEF Now, ActiveTasks, Clocked
<1>3. State(Current)'
  BY <1>1, <1>2 DEF State, Current, Live
<1>4. Scheduled(Current)'
  <2>1. Scheduled(Current)
    BY <1>1 DEF Good
  <2>2. Current.timers' = Current.timers
    BY OfCurrent DEF Current
  <2> QED BY <1>2, <2>1, <2>2 DEF Scheduled
<1>5. ASSUME NEW x \in Triggers
      PROVE  /\ Right(Current, x)' /\ Near(Current, x)' /\ Past(Current, x)'
             /\ HasTimer(Current, x) => HasTimer(Current, x)'
  <2>1. Right(Current, x) /\ Near(Current, x) /\ Past(Current, x)
    BY <1>1 DEF Good
  <2> QED BY <1>2, <2>1 DEF Right, Near, Past, HasTimer, Current
<1>6. ASSUME ~checkQueued', NEW x \in Triggers, IsActive(x)' PROVE Attended(x)'
  <2>1. Attended(x)
    BY <1>6 DEF TriggersInv, IsActive
  <2> QED BY <1>5, <2>1 DEF Attended
<1>7. /\ checkQueued' \in BOOLEAN /\ (checkQueued' => active' # NoConfigId)
      /\ periodicCheck' \in Nat /\ clock' <= periodicCheck' + MaxLag /\ periodicCheck' <= clock' + Period
  BY DEF TriggersInv
<1> QED BY <1>2, <1>3, <1>4, <1>5, <1>6, <1>7 DEF TriggersInv, Good

LEMMA EnableTaskSteps ==
  ASSUME NEW t, NEW enable \in BOOLEAN, TriggersInv, EnableTask(t, enable) PROVE TriggersInv'
<1>1. PICK data : data = [DataOf(Current, t) EXCEPT !.enabled = enable]
  OBVIOUS
<1>2. PICK r : r = SetData(Current, t, data)
  OBVIOUS
<1>3. /\ t \in ActiveTasks /\ Becomes(r)
      /\ UNCHANGED <<clock, shift, active, periodicCheck, checkQueued>>
  BY <1>1, <1>2 DEF EnableTask
<1>4. Clocked /\ State(Current)
  BY DEF TriggersInv, Good
<1>5. DataOf(Current, t) \in Data /\ Announced(Current, t, DataOf(Current, t).nextExecution)
  BY <1>3, <1>4, OfDataOf
<1>6. data \in Data /\ data.nextExecution = DataOf(Current, t).nextExecution
  BY <1>1, <1>5 DEF Data
<1>7. /\ State(r)
      /\ r.last = Current.last /\ r.next = Current.next
      /\ r.timers = Current.timers /\ r.planned = Current.planned
      /\ \A u \in Tasks, date \in Nat : Announced(r, u, date) =>
           Announced(Current, u, date) \/ (u = t /\ date = data.nextExecution)
  BY <1>2, <1>3, <1>4, <1>6, OfSetData
<1>8. \A u \in Tasks, date \in Nat : Announced(r, u, date) => Announced(Current, u, date)
  BY <1>5, <1>6, <1>7
<1>9. /\ last' = last /\ next' = next /\ timers' = timers
      /\ repository' = r.repository /\ copies' = r.copies
  BY <1>3, <1>7, OfCurrent DEF Becomes
<1>10. Loaded(repository') /\ Live(copies')
  BY <1>7, <1>9 DEF State
<1>11. \A u \in Tasks, date \in Nat : Announced(Current, u, date)' => Announced(Current, u, date)
  <2>1. ASSUME NEW u, NEW date PROVE Announced(Current, u, date)' <=> Announced(r, u, date)
    BY <1>9 DEF Announced, Current
  <2> QED BY <1>8, <2>1
<1> QED BY <1>3, <1>9, <1>10, <1>11, Switches

LEMMA EnableAllTasksSteps ==
  ASSUME NEW enable \in BOOLEAN, TriggersInv, EnableAllTasks(enable) PROVE TriggersInv'
<1> DEFINE switched(data) == [data EXCEPT !.enabled = enable]
           g == [t \in TasksOf(active) |-> IF copies[t].copied THEN repository[active][t]
                                           ELSE switched(repository[active][t])]
<1>1. /\ active # NoConfigId
      /\ copies' = [t \in Tasks |-> IF copies[t].copied THEN switched(copies[t]) ELSE copies[t]]
      /\ repository' = [repository EXCEPT ![active] = g]
      /\ UNCHANGED <<clock, shift, active, last, next, timers, periodicCheck, checkQueued>>
  BY DEF EnableAllTasks
<1>2. active \in ConfigIds /\ Loaded(repository) /\ Live(copies)
  BY <1>1, OfCurrent DEF TriggersInv, Clocked, Good, State
<1>3. ASSUME NEW data \in Data
      PROVE  /\ switched(data) \in Data /\ switched(data).nextExecution = data.nextExecution
             /\ switched(data).copied = data.copied
  BY DEF Data
<1> HIDE DEF switched
<1>4. ASSUME NEW t \in Tasks
      PROVE  /\ copies'[t] \in Data /\ copies'[t].nextExecution = copies[t].nextExecution
             /\ copies'[t].copied = copies[t].copied
  BY <1>1, <1>2, <1>3 DEF Live
<1>5. Live(copies')
  <2>1. copies' \in [Tasks -> Data]
    BY <1>1, <1>4
  <2> QED BY <1>2, <1>4, <2>1 DEF Live
<1>6. ASSUME NEW t \in TasksOf(active)
      PROVE  g[t] \in Data /\ g[t].nextExecution = repository[active][t].nextExecution
  <2>1. repository[active][t] \in Data
    BY <1>2 DEF Loaded
  <2> QED BY <1>3, <2>1
<1>7. g \in [TasksOf(active) -> Data]
  BY <1>6
<1> HIDE DEF g
<1>8. Loaded(repository')
  BY <1>1, <1>2, <1>7 DEF Loaded
<1>9. ASSUME NEW c \in ConfigIds, NEW t \in TasksOf(c)
      PROVE  repository'[c][t].nextExecution = repository[c][t].nextExecution
  <2>1. CASE c = active
    BY <1>1, <1>2, <1>6, <2>1 DEF Loaded
  <2>2. CASE c # active
    BY <1>1, <1>2, <2>2 DEF Loaded
  <2> QED BY <2>1, <2>2
<1>10. \A u \in Tasks, date \in Nat : Announced(Current, u, date)' => Announced(Current, u, date)
  BY <1>4, <1>9 DEF Announced, Current
<1> QED BY <1>1, <1>5, <1>8, <1>10, Switches

LEMMA TriggersInvSteps == TriggersInv /\ [TriggeringNext]_triggeringVars => TriggersInv'
<1> SUFFICES ASSUME TriggersInv, [TriggeringNext]_triggeringVars PROVE TriggersInv'
  OBVIOUS
<1>1. CASE Tick
  BY <1>1, TickSteps
<1>2. CASE ChangeTime
  BY <1>2, ChangeTimeSteps
<1>3. CASE TimerEnds
  BY <1>3, TimerEndsSteps
<1>4. CASE QueuedCheck
  BY <1>4, QueuedCheckSteps
<1>5. CASE PeriodicChecks
  BY <1>5, PeriodicChecksSteps
<1>6. ASSUME NEW c \in ConfigIds, ActivateTriggers(c) PROVE TriggersInv'
  BY <1>6, ActivateTriggersSteps
<1>7. ASSUME NEW n \in Notices, PostNotice(n) PROVE TriggersInv'
  BY <1>7, PostNoticeSteps
<1>8. ASSUME NEW t \in Switched, NEW enable \in BOOLEAN, EnableTask(t, enable) PROVE TriggersInv'
  BY <1>8, EnableTaskSteps
<1>9. ASSUME NEW enable \in BOOLEAN, EnableAllTasks(enable) PROVE TriggersInv'
  BY <1>9, EnableAllTasksSteps
<1>10. CASE UNCHANGED triggeringVars
  BY <1>10, Unmoved DEF triggeringVars
<1> QED BY <1>1, <1>2, <1>3, <1>4, <1>5, <1>6, <1>7, <1>8, <1>9, <1>10 DEF TriggeringNext

LEMMA TriggersInvAlways == TriggeringSpec => []TriggersInv
BY TriggersInvInit, TriggersInvSteps, PTL DEF TriggeringSpec

-----------------------------------------------------------------------------
(* The properties of triggers.                                             *)

\* The variables keep their types, and only active tasks have live data of their own.
THEOREM TriggeringTypeCorrect == TriggeringSpec => []TriggeringTypeOK
<1>1. TriggersInv => TriggeringTypeOK
  <2> SUFFICES ASSUME TriggersInv PROVE TriggeringTypeOK
    OBVIOUS
  <2>1. Clocked /\ State(Current)
    BY DEF TriggersInv, Good
  <2>2. ASSUME NEW x \in Triggers PROVE last[x] \in Nat \cup {None} /\ next[x] \in Nat \cup {None}
    BY <2>1, OfCurrent DEF State, Times
  <2>3. timers \subseteq Tasks \X Nat /\ \A t \in Tasks : copies[t].copied => t \in ActiveTasks
    BY <2>1, OfCurrent DEF State, Live
  <2> QED BY <2>1, <2>2, <2>3 DEF Clocked, TriggeringTypeOK
<1> QED BY <1>1, TriggersInvAlways, PTL

\* The date a trigger waits for is its next one, for every expression, calendar
\* and sequence of checks and activations.
THEOREM NextDates == TriggeringSpec => []NextIsNextDate
<1>1. TriggersInv => NextIsNextDate
  BY OfCurrent DEF TriggersInv, Good, Right, NextIsNextDate
<1> QED BY <1>1, TriggersInvAlways, PTL

\* A timer awaits the next date of each active trigger whose dates are close
\* enough, although a check only plans it for the date announced for the task.
THEOREM TimersAwaitDates == TriggeringSpec => []TimerAwaitsDate
<1>1. TriggersInv => TimerAwaitsDate
  <2> SUFFICES ASSUME TriggersInv, shift = 0, NEW x \in Triggers,
                      IsActive(x), next[x] # None, x[2] \in Frequent, ~checkQueued
               PROVE  \E timer \in timers : timer[1] = x[2] /\ timer[2] <= next[x]
    BY DEF TimerAwaitsDate
  <2>1. HasTimer(Current, x)
    BY DEF TriggersInv, Attended
  <2> QED BY <2>1, OfCurrent DEF HasTimer
<1> QED BY <1>1, TriggersInvAlways, PTL

\* No active trigger waits for a date that is older than a period of the checks,
\* as long as the system time is only set back.
THEOREM DatesTriggered == ASSUME SetBack PROVE TriggeringSpec => []DatesAreTriggered
<1>1. TriggersInv => DatesAreTriggered
  <2> SUFFICES ASSUME TriggersInv, NEW x \in Triggers, IsActive(x), next[x] # None, ~checkQueued
               PROVE  Now - next[x] <= Period + MaxLag
    BY DEF DatesAreTriggered
  <2>1. periodicCheck + shift < next[x] + Period
    BY DEF TriggersInv, Attended
  <2>2. periodicCheck \in Nat /\ clock <= periodicCheck + MaxLag /\ Clocked
    BY DEF TriggersInv
  <2>3. next[x] \in Nat
    BY OfCurrent DEF TriggersInv, Good, State
  <2>4. PICK a \in Nat, b \in Int, p \in Nat, d \in Nat, q \in Nat, m \in Nat :
          a = clock /\ b = shift /\ p = periodicCheck /\ d = next[x] /\ q = Period /\ m = MaxLag
    BY <2>2, <2>3, TheTime, Numbers
  <2>5. Now = a + b /\ p + b < d + q /\ a <= p + m
    BY <2>1, <2>2, <2>4, TheTime
  <2>6. (a + b) - d <= q + m
    BY <2>5
  <2> QED BY <2>4, <2>5, <2>6
<1> QED BY <1>1, TriggersInvAlways, PTL

\* A cron trigger never plans its task twice for a date, when the search always
\* finds one.
THEOREM FiringsAreDue == ASSUME AlwaysDated PROVE TriggeringSpec => FiresWhenDue
<1> DEFINE Due == \A x \in Triggers : <<x[2], x>> \in planned' =>
                    \E u \in last[x] + 1 .. Now : IsDate(x, u) /\ last'[x] >= u
<1>1. TriggersInv /\ [TriggeringNext]_triggeringVars => [Due]_triggeringVars
  <2> SUFFICES ASSUME TriggersInv, TriggeringNext PROVE Due
    OBVIOUS
  <2>1. ASSUME NEW s, Good(s), s.last = last, s.planned = {}, NEW r, Outcome(s, r), Becomes(r) PROVE Due
    <3> SUFFICES ASSUME NEW x \in Triggers, <<x[2], x>> \in planned'
                 PROVE  \E u \in last[x] + 1 .. Now : IsDate(x, u) /\ last'[x] >= u
      OBVIOUS
    <3>1. Fires(s, r, x) /\ planned' = r.planned /\ last' = r.last
      BY <2>1 DEF Outcome, Becomes
    <3>2. r.last[x] = Now /\ \E u \in s.last[x] + 1 .. Now : IsDate(x, u)
      BY <2>1, <3>1 DEF Fires
    <3>3. PICK u \in last[x] + 1 .. Now : IsDate(x, u)
      BY <2>1, <3>2
    <3>4. Now \in Nat /\ last[x] \in Int
      BY TheTime, OfCurrent DEF TriggersInv, Good, State, Times, None
    <3> QED BY <3>1, <3>2, <3>3, <3>4
  <2>2. ASSUME planned' = {} PROVE Due
    BY <2>2
  <2>3. Clocked /\ Good(Current) /\ Current.last = last /\ Current.planned = {}
    BY OfCurrent DEF TriggersInv
  <2>4. PICK s : s = Current
    OBVIOUS
  <2> HIDE DEF Due
  <2>5. CASE Tick \/ ChangeTime
    BY <2>2, <2>5 DEF Tick, ChangeTime
  <2>6. CASE TimerEnds
    <3>1. PICK timer \in timers :
            Becomes(CheckTriggersForTask([Current EXCEPT !.timers = @ \ {timer}], timer[1]))
            /\ timer[2] <= clock
      BY <2>6 DEF TimerEnds
    <3>2. PICK e : e = [Current EXCEPT !.timers = @ \ {timer}]
      OBVIOUS
    <3>3. PICK t, r : t = timer[1] /\ r = CheckTriggersForTask(e, t)
      OBVIOUS
    <3>4. Good(e)
      BY <2>3, <3>1, <3>2, TimerRemoved
    <3>5. e.last = last /\ e.planned = {}
      BY <3>2 DEF Current
    <3>6. Outcome(e, r)
      BY <2>3, <3>3, <3>4, TaskOutcome
    <3> QED BY <2>1, <3>1, <3>2, <3>3, <3>4, <3>5, <3>6
  <2>7. CASE Becomes(Current)
    BY <2>1, <2>3, <2>4, <2>7, NoOutcome
  <2>8. CASE active # NoConfigId /\ Becomes(CheckTriggersForAllTasks(Current))
    <3>1. PICK r : r = CheckTriggersForAllTasks(s)
      OBVIOUS
    <3>2. Outcome(s, r)
      BY <2>3, <2>4, <2>8, <3>1, OfCheckTriggersForAllTasks
    <3> QED BY <2>1, <2>3, <2>4, <2>8, <3>1, <3>2
  <2>9. CASE QueuedCheck
    BY <2>8, <2>9 DEF QueuedCheck, TriggersInv
  <2>10. CASE PeriodicChecks
    BY <2>7, <2>8, <2>10 DEF PeriodicChecks
  <2>11. ASSUME NEW c \in ConfigIds, ActivateTriggers(c) PROVE Due
    BY <2>2, <2>11 DEF ActivateTriggers
  <2>12. ASSUME NEW n \in Notices, PostNotice(n) PROVE Due
    <3>1. ASSUME NEW x \in Triggers PROVE <<x[2], x>> \notin planned'
      <4>1. ASSUME NEW t, <<x[2], x>> = <<t, <<n>>>> PROVE FALSE
        <5>1. x = <<n>> /\ x = <<x[1], x[2], x[3]>>
          BY <4>1, TriggerParts
        <5>2. Len(<<n>>) = 1 /\ Len(<<x[1], x[2], x[3]>>) = 3
          OBVIOUS
        <5> QED BY <5>1, <5>2
      <4> QED BY <2>12, <4>1 DEF PostNotice
    <3> QED BY <3>1 DEF Due
  <2>13. ASSUME NEW t \in Switched, NEW enable \in BOOLEAN, EnableTask(t, enable) PROVE Due
    <3>1. PICK data : data = [DataOf(Current, t) EXCEPT !.enabled = enable]
      OBVIOUS
    <3>2. t \in ActiveTasks /\ Becomes(SetData(Current, t, data)) /\ State(Current)
      BY <2>13, <2>3, <3>1 DEF EnableTask, Good
    <3>3. data \in Data
      BY <2>3, <3>1, <3>2, OfDataOf DEF Data
    <3>4. planned' = {}
      BY <2>3, <3>2, <3>3, OfSetData DEF Becomes
    <3> QED BY <2>2, <3>4
  <2>14. ASSUME NEW enable \in BOOLEAN, EnableAllTasks(enable) PROVE Due
    BY <2>2, <2>14 DEF EnableAllTasks
  <2> QED BY <2>5, <2>6, <2>9, <2>10, <2>11, <2>12, <2>13, <2>14 DEF TriggeringNext
<1>2. TriggeringSpec => [][Due]_triggeringVars
  BY <1>1, TriggersInvAlways, PTL DEF TriggeringSpec
<1> QED BY <1>2 DEF FiresWhenDue

==============================================================================
