------------------------- MODULE ConfigurationProofs -------------------------
(***************************************************************************)
(* References between the items of a configuration, whatever documents are *)
(* activated and however they are edited, written and read back.           *)
(***************************************************************************)
EXTENDS ConfigurationProperties, FiniteSetTheorems, SequenceTheorems, NaturalsInduction,
        WellFoundedInduction, TLAPS

-----------------------------------------------------------------------------
(* Sequences and indexes.                                                   *)

\* A set of natural numbers that holds zero and the successor of each of its
\* elements holds them all.
LEMMA Induction ==
  ASSUME NEW S, 0 \in S, \A n \in Nat : n \in S => n + 1 \in S
  PROVE  Nat \subseteq S
<1> SUFFICES ASSUME ~(Nat \subseteq S) PROVE FALSE
  OBVIOUS
<1> DEFINE T == Nat \ S
<1>1. T # {} /\ T \subseteq Nat
  OBVIOUS
<1>2. PICK x \in T : \A y \in T : ~ (<<y, x>> \in OpToRel(<, Nat))
  <2>1. \E x \in T : \A y \in T : ~ (<<y, x>> \in OpToRel(<, Nat))
    BY <1>1, NatLessThanWellFounded, WFMin
  <2> QED BY <2>1
<1>3. x # 0 /\ x \in Nat
  OBVIOUS
<1>4. x - 1 \in Nat /\ x - 1 < x /\ (x - 1) + 1 = x
  BY <1>3
<1>5. <<x - 1, x>> \in OpToRel(<, Nat)
  BY <1>3, <1>4 DEF OpToRel
<1> QED BY <1>2, <1>3, <1>4, <1>5

\* The least of some natural numbers is one of them.
LEMMA LeastIsOne == ASSUME NEW S, S \subseteq Nat, S # {} PROVE Min(S) \in S
<1>1. PICK x \in S : \A y \in S : ~ (<<y, x>> \in OpToRel(<, Nat))
  <2>1. \E x \in S : \A y \in S : ~ (<<y, x>> \in OpToRel(<, Nat))
    BY NatLessThanWellFounded, WFMin
  <2> QED BY <2>1
<1>2. ASSUME NEW y \in S, y < x PROVE FALSE
  <2>1. x \in Nat /\ y \in Nat
    OBVIOUS
  <2>2. <<y, x>> \in OpToRel(<, Nat)
    BY <1>2, <2>1 DEF OpToRel
  <2> QED BY <1>1, <2>2
<1>3. \A y \in S : x <= y
  BY <1>2
<1> QED BY <1>3 DEF Min

\* A sequence is one of its elements.
LEMMA SequencesOfElements ==
  ASSUME NEW S, NEW s \in Seq(S) PROVE s \in Seq(ToSet(s))
<1>1. /\ Len(s) \in Nat /\ DOMAIN s = 1..Len(s)
      /\ s \in [1..Len(s) -> S]
  BY LenProperties
<1>2. s \in [1..Len(s) -> ToSet(s)]
  BY <1>1 DEF ToSet
<1> QED BY <1>1, <1>2, SeqDef

\* Some indexes of a sequence are finitely many numbers.
LEMMA IndexesOfSequence ==
  ASSUME NEW s, IsSequence(s), NEW S, S \subseteq DOMAIN s
  PROVE  S \subseteq Nat /\ IsFiniteSet(S)
<1>1. DOMAIN s = 1..Len(s) /\ Len(s) \in Nat
  BY DEF IsSequence
<1>2. IsFiniteSet(1..Len(s))
  <2>1. 1 \in Int /\ Len(s) \in Int
    BY <1>1
  <2> QED BY <2>1, FS_Interval
<1> QED BY <1>1, <1>2, FS_Subset

\* Two sequences make a third one.
LEMMA SequencesConcat ==
  ASSUME NEW s, NEW t, IsSequence(s), IsSequence(t)
  PROVE  /\ IsSequence(s \o t) /\ Len(s \o t) = Len(s) + Len(t)
         /\ \A i \in 1..Len(s) : (s \o t)[i] = s[i]
         /\ \A i \in 1..Len(t) : (s \o t)[Len(s) + i] = t[i]
<1> DEFINE S == ToSet(s) \cup ToSet(t)
<1>1. s \in Seq(S) /\ t \in Seq(S)
  BY SeqMonotonic DEF IsSequence
<1>2. /\ s \o t \in Seq(S) /\ Len(s \o t) = Len(s) + Len(t)
      /\ \A i \in 1..(Len(s) + Len(t)) :
           (s \o t)[i] = IF i <= Len(s) THEN s[i] ELSE t[i - Len(s)]
  BY <1>1, ConcatProperties
<1>3. IsSequence(s \o t)
  <2>1. PICK u : u = s \o t
    OBVIOUS
  <2>2. u \in Seq(S)
    BY <1>2, <2>1
  <2> HIDE DEF S
  <2>3. u \in Seq(ToSet(u))
    BY <2>2, SequencesOfElements
  <2> QED BY <2>1, <2>3 DEF IsSequence
<1>4. Len(s) \in Nat /\ Len(t) \in Nat
  BY <1>1
<1>5. ASSUME NEW i \in 1..Len(t) PROVE (s \o t)[Len(s) + i] = t[i]
  <2>1. Len(s) + i \in 1..(Len(s) + Len(t)) /\ ~(Len(s) + i <= Len(s))
        /\ (Len(s) + i) - Len(s) = i
    BY <1>4
  <2> QED BY <1>2, <2>1
<1>6. ASSUME NEW i \in 1..Len(s) PROVE (s \o t)[i] = s[i]
  <2>1. i \in 1..(Len(s) + Len(t)) /\ i <= Len(s)
    BY <1>4
  <2> QED BY <1>2, <2>1
<1> QED BY <1>2, <1>3, <1>5, <1>6

\* A function on 1..n is a sequence.
LEMMA FunctionsAreSequences ==
  ASSUME NEW n \in Nat, NEW f, DOMAIN f = 1..n, f = [i \in 1..n |-> f[i]]
  PROVE  IsSequence(f) /\ Len(f) = n
<1>1. f \in [1..n -> ToSet(f)]
  BY DEF ToSet
<1>2. f \in Seq(ToSet(f))
  BY <1>1, SeqDef
<1>3. Len(f) = n
  BY <1>1, <1>2, LenProperties
<1> QED BY <1>2, <1>3 DEF IsSequence

-----------------------------------------------------------------------------
(* Reading.                                                                 *)

\* Each id is that of the item that is kept under it.
LEMMA FirstIsFound ==
  ASSUME NEW items, DOMAIN items \subseteq Nat
  PROVE  /\ DOMAIN FirstOf(items) = Ids(items)
         /\ \A id \in Ids(items) : \E i \in DOMAIN items :
              items[i].id = id /\ FirstOf(items)[id] = items[i]
         /\ IsFiniteSet(DOMAIN items) => IsFiniteSet(Ids(items))
<1>1. ASSUME NEW id \in Ids(items)
      PROVE  \E i \in DOMAIN items : items[i].id = id /\ FirstOf(items)[id] = items[i]
  <2> DEFINE S == {i \in DOMAIN items : items[i].id = id}
  <2>1. S \subseteq Nat /\ S # {}
    BY <1>1 DEF Ids
  <2>2. Min(S) \in S
    BY <2>1, LeastIsOne
  <2>3. FirstOf(items)[id] = items[Min(S)]
    BY <1>1 DEF FirstOf
  <2> QED BY <2>2, <2>3
<1>2. IsFiniteSet(DOMAIN items) => IsFiniteSet(Ids(items))
  <2> SUFFICES ASSUME IsFiniteSet(DOMAIN items) PROVE IsFiniteSet(Ids(items))
    OBVIOUS
  <2> DEFINE f == [i \in DOMAIN items |-> items[i].id]
  <2>1. f \in Surjection(DOMAIN items, Ids(items))
    BY DEF Surjection, Ids
  <2> QED BY <2>1, FS_Surjection
<1> QED BY <1>1, <1>2 DEF FirstOf

\* The hosts of a cluster, each of them once.
OneEach(hosts) ==
  IsSequence(hosts) /\ \A i, j \in DOMAIN hosts : hosts[i].id = hosts[j].id => i = j

\* One turn of the loop that reads the hosts of a cluster.
Appended(ids, hosts, k, i) ==
  IF ids[i] \in DOMAIN hosts THEN Append(k, hosts[ids[i]]) ELSE k

\* The loop is defined for every number of ids.
LEMMA LoopExists ==
  ASSUME NEW ids, Len(ids) \in Nat, NEW hosts
  PROVE  \E f : f = [i \in 0..Len(ids) |->
                       IF i = 0 THEN <<>> ELSE Appended(ids, hosts, f[i - 1], i)]
<1> DEFINE Loop(n) == \E f : f = [i \in 0..n |->
                        IF i = 0 THEN <<>> ELSE Appended(ids, hosts, f[i - 1], i)]
           S == {n \in Nat : Loop(n)}
<1>1. 0 \in S
  <2> DEFINE g == [i \in 0..0 |-> <<>>]
  <2>1. g = [i \in 0..0 |-> IF i = 0 THEN <<>> ELSE Appended(ids, hosts, g[i - 1], i)]
    OBVIOUS
  <2> QED BY <2>1
<1>2. ASSUME NEW n \in Nat, n \in S
      PROVE  n + 1 \in S
  <2>1. PICK f : f = [i \in 0..n |->
                       IF i = 0 THEN <<>> ELSE Appended(ids, hosts, f[i - 1], i)]
    BY <1>2
  <2> DEFINE g == [i \in 0..(n + 1) |->
                     IF i = n + 1 THEN Appended(ids, hosts, f[n], i) ELSE f[i]]
             h == [i \in 0..(n + 1) |->
                     IF i = 0 THEN <<>> ELSE Appended(ids, hosts, g[i - 1], i)]
  <2>2. ASSUME NEW i \in 0..(n + 1)
        PROVE  g[i] = h[i]
    <3>1. CASE i = n + 1
      <4>1. i # 0 /\ i - 1 = n /\ n \in 0..(n + 1) /\ n # n + 1
        BY <3>1
      <4> QED BY <3>1, <4>1
    <3>2. CASE i \in 0..n /\ i # 0
      <4>1. i - 1 \in 0..(n + 1) /\ i - 1 # n + 1 /\ i # n + 1
        BY <3>2
      <4>2. f[i] = Appended(ids, hosts, f[i - 1], i)
        BY <2>1, <3>2
      <4> QED BY <3>2, <4>1, <4>2
    <3>3. CASE i = 0
      <4>1. f[0] = <<>> /\ i # n + 1
        BY <2>1, <3>3
      <4> QED BY <3>3, <4>1
    <3> QED BY <3>1, <3>2, <3>3
  <2>3. g = h
    BY <2>2
  <2>4. Loop(n + 1)
    BY <2>3
  <2> QED BY <2>4
<1> HIDE DEF S
<1>3. Nat \subseteq S
  BY <1>1, <1>2, Induction
<1>4. Loop(Len(ids))
  BY <1>3 DEF S
<1> QED BY <1>4

\* A cluster is given hosts that are declared, each once if it lists them once.
LEMMA DeclaredHosts ==
  ASSUME NEW ids, IsSequence(ids), IsInjective(ids),
         NEW hosts, \A h \in DOMAIN hosts : hosts[h].id = h
  PROVE  /\ OneEach(Declared(ids, hosts))
         /\ \A m \in ToSet(Declared(ids, hosts)) :
              m.id \in DOMAIN hosts /\ m = hosts[m.id]
<1> DEFINE Loop(f) == f = [i \in 0..Len(ids) |->
                        IF i = 0 THEN <<>> ELSE Appended(ids, hosts, f[i - 1], i)]
           loop == CHOOSE f : Loop(f)
           H == {hosts[h] : h \in DOMAIN hosts}
           Read(k, i) == /\ k \in Seq(H)
                         /\ \A j \in 1..Len(k) : \E n \in 1..i : k[j].id = ids[n]
                         /\ \A j, n \in 1..Len(k) : k[j].id = k[n].id => j = n
           T == {i \in Nat : i <= Len(ids) => Read(loop[i], i)}
<1>1. Len(ids) \in Nat /\ DOMAIN ids = 1..Len(ids)
  BY DEF IsSequence
<1>2. Loop(loop)
  BY <1>1, LoopExists
<1>3. Declared(ids, hosts) = loop[Len(ids)]
  BY DEF Declared, Appended
<1> HIDE DEF loop
<1>4. loop[0] = <<>>
  BY <1>1, <1>2
<1>5. ASSUME NEW i \in Nat, i + 1 <= Len(ids)
      PROVE  loop[i + 1] = Appended(ids, hosts, loop[i], i + 1)
  <2>1. i + 1 \in 0..Len(ids) /\ i + 1 # 0 /\ (i + 1) - 1 = i
    BY <1>1, <1>5
  <2> QED BY <1>2, <2>1
<1> HIDE DEF Loop
<1>6. 0 \in T
  <2>1. Read(loop[0], 0)
    BY <1>4
  <2> QED BY <2>1
<1>7. ASSUME NEW i \in Nat, i \in T
      PROVE  i + 1 \in T
  <2> SUFFICES ASSUME i + 1 <= Len(ids) PROVE Read(loop[i + 1], i + 1)
    OBVIOUS
  <2>1. Read(loop[i], i)
    BY <1>1, <1>7
  <2>2. loop[i + 1] = Appended(ids, hosts, loop[i], i + 1)
    BY <1>5
  <2>3. PICK k : k = loop[i]
    OBVIOUS
  <2>4. CASE ids[i + 1] \notin DOMAIN hosts
    <3>1. loop[i + 1] = k
      BY <2>2, <2>3, <2>4 DEF Appended
    <3> QED BY <2>1, <2>3, <3>1
  <2>5. CASE ids[i + 1] \in DOMAIN hosts
    <3>1. PICK e : e = hosts[ids[i + 1]]
      OBVIOUS
    <3>2. loop[i + 1] = Append(k, e) /\ e \in H /\ e.id = ids[i + 1]
      BY <2>2, <2>3, <2>5, <3>1 DEF Appended
    <3>3. k \in Seq(H) /\ Len(k) \in Nat
      BY <2>1, <2>3
    <3>4. \A j \in 1..Len(k) : \E n \in 1..i : k[j].id = ids[n]
      BY <2>1, <2>3
    <3>5. \A j, n \in 1..Len(k) : k[j].id = k[n].id => j = n
      BY <2>1, <2>3
    <3> HIDE DEF H
    <3>6. /\ Append(k, e) \in Seq(H) /\ Len(Append(k, e)) = Len(k) + 1
          /\ \A j \in 1..Len(k) : Append(k, e)[j] = k[j]
          /\ Append(k, e)[Len(k) + 1] = e
      BY <3>2, <3>3, AppendProperties
    <3>7. 1..(Len(k) + 1) = (1..Len(k)) \cup {Len(k) + 1}
      BY <3>3
    <3>8. ASSUME NEW j \in 1..Len(k) PROVE k[j].id # e.id
      <4>1. PICK n \in 1..i : k[j].id = ids[n]
        BY <3>4
      <4>2. n \in DOMAIN ids /\ i + 1 \in DOMAIN ids /\ n # i + 1
        BY <1>1
      <4> QED BY <3>2, <4>1, <4>2 DEF IsInjective
    <3>9. PICK l : l = Append(k, e)
      OBVIOUS
    <3>10. \A j \in 1..Len(l) : \E n \in 1..(i + 1) : l[j].id = ids[n]
      <4> SUFFICES ASSUME NEW j \in 1..Len(l)
                   PROVE  \E n \in 1..(i + 1) : l[j].id = ids[n]
        OBVIOUS
      <4>1. CASE j \in 1..Len(k)
        <5>1. PICK n \in 1..i : k[j].id = ids[n]
          BY <3>4, <4>1
        <5>2. n \in 1..(i + 1)
          OBVIOUS
        <5> QED BY <3>6, <3>9, <4>1, <5>1, <5>2
      <4>2. CASE j = Len(k) + 1
        <5>1. i + 1 \in 1..(i + 1)
          OBVIOUS
        <5> QED BY <3>2, <3>6, <3>9, <4>2, <5>1
      <4> QED BY <3>6, <3>7, <3>9, <4>1, <4>2
    <3>11. \A j, n \in 1..Len(l) : l[j].id = l[n].id => j = n
      BY <3>5, <3>6, <3>7, <3>8, <3>9
    <3> QED BY <3>2, <3>6, <3>9, <3>10, <3>11
  <2> QED BY <2>4, <2>5
<1>8. Len(ids) \in T
  <2> HIDE DEF T
  <2> QED BY <1>1, <1>6, <1>7, Induction
<1>9. PICK k : k = Declared(ids, hosts)
  OBVIOUS
<1>10. Read(k, Len(ids))
  BY <1>1, <1>3, <1>8, <1>9
<1>11. IsSequence(k) /\ DOMAIN k = 1..Len(k)
  BY <1>10, SequencesOfElements DEF IsSequence
<1>12. \A m \in ToSet(k) : m.id \in DOMAIN hosts /\ m = hosts[m.id]
  <2>1. ToSet(k) \subseteq H
    BY <1>10, <1>11 DEF ToSet
  <2> QED BY <2>1
<1> QED BY <1>9, <1>10, <1>11, <1>12 DEF OneEach

\* What a configuration is made of: items found by their own ids, clusters with
\* one copy of each of their hosts, and tasks named after their groups.
HostsOk(hosts) ==
  /\ IsFiniteSet(DOMAIN hosts)
  /\ \A h \in DOMAIN hosts :
       {"id", "resources", "data"} \subseteq DOMAIN hosts[h] /\ hosts[h].id = h

ClustersOk(clusters) ==
  /\ IsFiniteSet(DOMAIN clusters)
  /\ \A k \in DOMAIN clusters :
       /\ {"id", "hosts"} \subseteq DOMAIN clusters[k] /\ clusters[k].id = k
       /\ OneEach(clusters[k].hosts)

GroupsOk(groups) ==
  /\ IsFiniteSet(DOMAIN groups)
  /\ \A g \in DOMAIN groups : "id" \in DOMAIN groups[g] /\ groups[g].id = g /\ IsSequence(g)

TaskFields == {"id", "localId", "group", "attrs", "resources"}
TaskOk(task, groups) ==
  /\ TaskFields \subseteq DOMAIN task /\ "target" \in DOMAIN task.attrs
  /\ IsSequence(task.localId) /\ Len(task.localId) = 1
  /\ task.group \in DOMAIN groups /\ task.id = task.group \o task.localId
TasksOk(tasks, groups) ==
  /\ IsFiniteSet(DOMAIN tasks)
  /\ \A t \in DOMAIN tasks : tasks[t].id = t /\ TaskOk(tasks[t], groups)

\* The hosts of a document, then the one that is added.
LEMMA HostsAreRead ==
  ASSUME NEW nodes, IsSequence(nodes) PROVE HostsOk(LoadedHosts(nodes))
<1>1. PICK declared : declared = [i \in DOMAIN nodes |-> Host(nodes[i], i)]
  OBVIOUS
<1>2. PICK added : added = Host(HostNode(Localhost), Len(nodes) + 1)
  OBVIOUS
<1>3. PICK items : items = IF Localhost \in Ids(nodes) THEN declared ELSE Append(declared, added)
  OBVIOUS
<1>4. LoadedHosts(nodes) = FirstOf(items)
  BY <1>1, <1>2, <1>3 DEF LoadedHosts
<1>5. \A n, d : {"id", "resources", "data"} \subseteq DOMAIN Host(n, d)
  BY DEF Host
<1>6. Len(nodes) \in Nat /\ DOMAIN nodes = 1..Len(nodes)
  BY DEF IsSequence
<1>7. IsSequence(declared) /\ Len(declared) = Len(nodes)
  BY <1>1, <1>6, FunctionsAreSequences
<1>8. /\ DOMAIN items \subseteq Nat /\ IsFiniteSet(DOMAIN items)
      /\ \A i \in DOMAIN items : \E n, d : items[i] = Host(n, d)
  <2>1. CASE Localhost \in Ids(nodes)
    <3>1. items = declared
      BY <1>3, <2>1
    <3> QED BY <1>1, <1>6, <3>1, FS_Interval
  <2>2. CASE Localhost \notin Ids(nodes)
    <3>1. declared \in Seq(ToSet(declared) \cup {added})
      BY <1>7, SeqMonotonic DEF IsSequence
    <3>2. /\ Append(declared, added) \in Seq(ToSet(declared) \cup {added})
          /\ Len(Append(declared, added)) = Len(declared) + 1
          /\ \A i \in 1..Len(declared) : Append(declared, added)[i] = declared[i]
          /\ Append(declared, added)[Len(declared) + 1] = added
      BY <3>1, AppendProperties
    <3>3. items = Append(declared, added)
      BY <1>3, <2>2
    <3>4. DOMAIN items = 1..(Len(nodes) + 1)
      BY <1>7, <3>2, <3>3, LenProperties
    <3>5. 1..(Len(nodes) + 1) = (1..Len(nodes)) \cup {Len(nodes) + 1}
      BY <1>6
    <3>6. ASSUME NEW i \in 1..Len(nodes) PROVE items[i] = Host(nodes[i], i)
      BY <1>1, <1>6, <1>7, <3>2, <3>3
    <3>7. items[Len(nodes) + 1] = added
      BY <1>7, <3>2, <3>3
    <3>8. IsFiniteSet(DOMAIN items)
      BY <1>6, <3>4, FS_Interval
    <3> QED BY <1>2, <1>6, <3>4, <3>5, <3>6, <3>7, <3>8
  <2> QED BY <2>1, <2>2
<1> QED BY <1>4, <1>5, <1>8, FirstIsFound DEF HostsOk

\* What each host offers to bound the instances of tasks.
LEMMA HostsAreLimited ==
  ASSUME NEW hosts, HostsOk(hosts), NEW tasks, \A t \in DOMAIN tasks : IsSequence(t)
  PROVE  /\ HostsOk(LimitedHosts(hosts, tasks))
         /\ DOMAIN LimitedHosts(hosts, tasks) = DOMAIN hosts
         /\ \A h \in DOMAIN hosts :
              LET host == LimitedHosts(hosts, tasks)[h]
              IN  \/ host.data = hosts[h].data
                  \/ \E kind \in DOMAIN host.resources : IsMaxPerHost(kind)
<1>1. PICK limited : limited = LimitedHosts(hosts, tasks)
  OBVIOUS
<1>2. DOMAIN limited = DOMAIN hosts
  BY <1>1 DEF LimitedHosts
<1>3. ASSUME NEW h \in DOMAIN hosts
      PROVE  /\ DOMAIN limited[h] = DOMAIN hosts[h] /\ limited[h].id = hosts[h].id
             /\ \/ limited[h].data = hosts[h].data
                \/ \E kind \in DOMAIN limited[h].resources : IsMaxPerHost(kind)
  <2>1. PICK offer :
          /\ offer = [k \in {MaxPerHost(t) : t \in Limited(tasks)} |->
                        tasks[CHOOSE t \in Limited(tasks) : MaxPerHost(t) = k].attrs.maxperhost]
    OBVIOUS
  <2>2. limited[h] =
          [hosts[h] EXCEPT !.resources = Override(@, offer),
                           !.data = IF Limited(tasks) = {} THEN hosts[h].data ELSE - hosts[h].data]
    BY <1>1, <2>1 DEF LimitedHosts
  <2>3. {"id", "resources", "data"} \subseteq DOMAIN hosts[h]
    BY DEF HostsOk
  <2>4. /\ DOMAIN limited[h] = DOMAIN hosts[h] /\ limited[h].id = hosts[h].id
        /\ limited[h].resources = Override(hosts[h].resources, offer)
        /\ Limited(tasks) = {} => limited[h].data = hosts[h].data
    BY <2>2, <2>3
  <2>5. ASSUME NEW t \in Limited(tasks)
        PROVE  \E kind \in DOMAIN limited[h].resources : IsMaxPerHost(kind)
    <3>1. MaxPerHost(t) \in DOMAIN limited[h].resources
      BY <2>1, <2>4 DEF Override
    <3>2. IsSequence(t)
      BY DEF Limited
    <3>3. IsSequence(<<"<maxperhost>">>) /\ Len(<<"<maxperhost>">>) = 1
      BY DEF IsSequence, ToSet
    <3>4. MaxPerHost(t)[1] = "<maxperhost>"
      BY <3>2, <3>3, SequencesConcat DEF MaxPerHost
    <3>5. IsSequence(MaxPerHost(t)) /\ Len(MaxPerHost(t)) = 1 + Len(t)
      BY <3>2, <3>3, SequencesConcat DEF MaxPerHost
    <3>6. IsMaxPerHost(MaxPerHost(t))
      BY <3>4, <3>5 DEF IsMaxPerHost, IsSequence
    <3> QED BY <3>1, <3>6
  <2> QED BY <2>4, <2>5
<1>4. HostsOk(limited)
  BY <1>2, <1>3 DEF HostsOk
<1> QED BY <1>1, <1>2, <1>3, <1>4

\* The clusters of a document share the hosts that are declared.
LEMMA ClustersAreRead ==
  ASSUME NEW nodes, IsSequence(nodes),
         \A i \in DOMAIN nodes : IsSequence(nodes[i].hosts) /\ IsInjective(nodes[i].hosts),
         NEW hosts, HostsOk(hosts)
  PROVE  /\ ClustersOk(LoadedClusters(nodes, hosts))
         /\ \A k \in DOMAIN LoadedClusters(nodes, hosts) :
              /\ k \notin DOMAIN hosts
              /\ \A m \in ToSet(LoadedClusters(nodes, hosts)[k].hosts) :
                   m.id \in DOMAIN hosts /\ m = hosts[m.id]
<1>1. PICK items : items = RestrictValues([i \in DOMAIN nodes |-> LoadedCluster(nodes[i], hosts)],
                                          LAMBDA c : c.id \notin DOMAIN hosts)
  OBVIOUS
<1>2. LoadedClusters(nodes, hosts) = FirstOf(items)
  BY <1>1 DEF LoadedClusters
<1>3. /\ DOMAIN items \subseteq DOMAIN nodes
      /\ \A i \in DOMAIN items : /\ items[i] = LoadedCluster(nodes[i], hosts)
                                 /\ items[i].id \notin DOMAIN hosts
  BY <1>1 DEF RestrictValues, Restrict
<1>4. DOMAIN items \subseteq Nat /\ IsFiniteSet(DOMAIN items)
  BY <1>3, IndexesOfSequence
<1>5. ASSUME NEW i \in DOMAIN items
      PROVE  /\ {"id", "hosts"} \subseteq DOMAIN items[i]
             /\ OneEach(items[i].hosts)
             /\ \A m \in ToSet(items[i].hosts) : m.id \in DOMAIN hosts /\ m = hosts[m.id]
  <2>1. CASE nodes[i].balancing \notin Balancings
    <3>1. items[i] = NullCluster
      BY <1>3, <2>1 DEF LoadedCluster
    <3>2. {"id", "hosts"} \subseteq DOMAIN items[i] /\ items[i].hosts = <<>>
      BY <3>1 DEF NullCluster
    <3>3. OneEach(<<>>) /\ ToSet(<<>>) = {}
      BY DEF OneEach, IsSequence, ToSet
    <3> QED BY <3>2, <3>3
  <2>2. CASE nodes[i].balancing \in Balancings
    <3>1. items[i] = [id |-> nodes[i].id, balancing |-> nodes[i].balancing,
                      hosts |-> Declared(nodes[i].hosts, hosts)]
      BY <1>3, <2>2 DEF LoadedCluster
    <3>2. {"id", "hosts"} \subseteq DOMAIN items[i]
          /\ items[i].hosts = Declared(nodes[i].hosts, hosts)
      BY <3>1
    <3>3. /\ IsSequence(nodes[i].hosts) /\ IsInjective(nodes[i].hosts)
          /\ \A h \in DOMAIN hosts : hosts[h].id = h
      BY <1>3 DEF HostsOk
    <3> QED BY <3>2, <3>3, DeclaredHosts
  <2> QED BY <2>1, <2>2
<1>6. PICK clusters : clusters = FirstOf(items)
  OBVIOUS
<1>7. /\ IsFiniteSet(DOMAIN clusters)
      /\ \A k \in DOMAIN clusters :
           \E i \in DOMAIN items : items[i].id = k /\ clusters[k] = items[i]
  BY <1>4, <1>6, FirstIsFound
<1> QED BY <1>2, <1>3, <1>5, <1>6, <1>7 DEF ClustersOk

\* The groups of a document, but those without an id.
LEMMA GroupsAreRead ==
  ASSUME NEW nodes, IsSequence(nodes), \A i \in DOMAIN nodes : IsSequence(nodes[i].id)
  PROVE  GroupsOk(LoadedGroups(nodes)) /\ NoId \notin DOMAIN LoadedGroups(nodes)
<1>1. PICK items : items = RestrictValues(nodes, LAMBDA n : n.id # NoId)
  OBVIOUS
<1>2. /\ DOMAIN items \subseteq DOMAIN nodes
      /\ \A i \in DOMAIN items : items[i] = nodes[i] /\ nodes[i].id # NoId
  BY <1>1 DEF RestrictValues, Restrict
<1>3. DOMAIN items \subseteq Nat /\ IsFiniteSet(DOMAIN items)
  BY <1>2, IndexesOfSequence
<1>4. DOMAIN FirstOf(items) = Ids(items) /\ IsFiniteSet(Ids(items))
  BY <1>3, FirstIsFound
<1>5. \A g \in Ids(items) : IsSequence(g) /\ g # NoId
  BY <1>2 DEF Ids
<1>6. PICK groups : groups = LoadedGroups(nodes)
  OBVIOUS
<1>7. /\ DOMAIN groups = Ids(items)
      /\ \A g \in Ids(items) : "id" \in DOMAIN groups[g] /\ groups[g].id = g
  BY <1>1, <1>4, <1>6 DEF LoadedGroups
<1> QED BY <1>4, <1>5, <1>6, <1>7 DEF GroupsOk

\* The tasks of a document whose groups are declared.
LEMMA TasksAreRead ==
  ASSUME NEW nodes, IsSequence(nodes),
         \A i \in DOMAIN nodes : IsSequence(nodes[i].id) /\ Len(nodes[i].id) = 1,
         NEW groups, GroupsOk(groups), NEW templates, NEW mean
  PROVE  /\ TasksOk(LoadedTasks(nodes, groups, templates, mean), groups)
         /\ \A t \in DOMAIN LoadedTasks(nodes, groups, templates, mean) :
              /\ IsSequence(t)
              /\ \E i \in DOMAIN nodes : nodes[i].taskgroup \in DOMAIN groups
<1>1. PICK valid : valid = RestrictValues(nodes, LAMBDA n : n.taskgroup \in DOMAIN groups /\ IsValid(n))
  OBVIOUS
<1>2. /\ DOMAIN valid \subseteq DOMAIN nodes
      /\ \A i \in DOMAIN valid : valid[i] = nodes[i] /\ nodes[i].taskgroup \in DOMAIN groups
  BY <1>1 DEF RestrictValues, Restrict
<1>3. DOMAIN valid \subseteq Nat /\ IsFiniteSet(DOMAIN valid)
  BY <1>2, IndexesOfSequence
<1>4. PICK items : items = [i \in DOMAIN valid |-> LoadedTask(valid[i], templates, mean)]
  OBVIOUS
<1>5. LoadedTasks(nodes, groups, templates, mean) = FirstOf(items)
  BY <1>1, <1>4 DEF LoadedTasks
<1>6. ASSUME NEW i \in DOMAIN items
      PROVE  TaskOk(items[i], groups) /\ IsSequence(items[i].id)
  <2>1. i \in DOMAIN valid /\ items[i] = LoadedTask(valid[i], templates, mean)
    BY <1>4
  <2>2. PICK node : node = valid[i]
    OBVIOUS
  <2>3. /\ IsSequence(node.id) /\ Len(node.id) = 1
        /\ node.taskgroup \in DOMAIN groups /\ IsSequence(node.taskgroup)
    BY <1>2, <2>1, <2>2 DEF GroupsOk
  <2>4. PICK attrs, resources, triggers, subs, apply :
          items[i] = [id |-> node.taskgroup \o node.id, localId |-> node.id,
                      group |-> node.taskgroup, apply |-> apply,
                      attrs |-> WithImplicits(attrs), resources |-> resources,
                      triggers |-> triggers, subs |-> subs, otherTriggers |-> {}]
    BY <2>1, <2>2 DEF LoadedTask
  <2>5. /\ TaskFields \subseteq DOMAIN items[i] /\ items[i].attrs = WithImplicits(attrs)
        /\ items[i].id = node.taskgroup \o node.id /\ items[i].localId = node.id
        /\ items[i].group = node.taskgroup
    <3>1. PICK r : r = [id |-> node.taskgroup \o node.id, localId |-> node.id,
                        group |-> node.taskgroup, apply |-> apply,
                        attrs |-> WithImplicits(attrs), resources |-> resources,
                        triggers |-> triggers, subs |-> subs, otherTriggers |-> {}]
      OBVIOUS
    <3>2. /\ TaskFields \subseteq DOMAIN r /\ r.attrs = WithImplicits(attrs)
          /\ r.id = node.taskgroup \o node.id /\ r.localId = node.id
          /\ r.group = node.taskgroup
      BY <3>1 DEF TaskFields
    <3> QED BY <2>4, <3>1, <3>2
  <2>6. "target" \in DOMAIN WithImplicits(attrs)
    BY DEF WithImplicits, Override
  <2>7. IsSequence(node.taskgroup \o node.id)
    BY <2>3, SequencesConcat
  <2> QED BY <2>3, <2>5, <2>6, <2>7 DEF TaskOk
<1>7. PICK tasks : tasks = FirstOf(items)
  OBVIOUS
<1>8. /\ IsFiniteSet(DOMAIN tasks)
      /\ \A t \in DOMAIN tasks : \E i \in DOMAIN items : items[i].id = t /\ tasks[t] = items[i]
  <2>1. DOMAIN items = DOMAIN valid
    BY <1>4
  <2> QED BY <1>3, <1>7, <2>1, FirstIsFound
<1>9. \A i \in DOMAIN items : i \in DOMAIN nodes /\ nodes[i].taskgroup \in DOMAIN groups
  BY <1>2, <1>4
<1> QED BY <1>5, <1>6, <1>7, <1>8, <1>9 DEF TasksOk

\* A whole configuration.
Whole(c) ==
  /\ {"hosts", "clusters", "taskgroups", "tasks"} \subseteq DOMAIN c
  /\ HostsOk(c.hosts) /\ ClustersOk(c.clusters)
  /\ GroupsOk(c.taskgroups) /\ TasksOk(c.tasks, c.taskgroups)
  /\ DOMAIN c.hosts \cap DOMAIN c.clusters = {}
  /\ HostsAreShared(c)

\* What is read of a document is whole; it has no task if no task has a group.
LEMMA LoadedIsWhole ==
  ASSUME NEW doc, IsDocument(doc),
         \A i \in DOMAIN doc.clusters : IsInjective(doc.clusters[i].hosts),
         NEW mean
  PROVE  /\ Whole(Load(doc, mean))
         /\ (\A i \in DOMAIN doc.tasks : doc.tasks[i].taskgroup = NoId)
              => DOMAIN Load(doc, mean).tasks = {}
<1>1. PICK hosts, groups, templates, tasks, clusters, c :
        /\ hosts = LoadedHosts(doc.hosts)
        /\ groups = LoadedGroups(doc.taskgroups)
        /\ templates = LoadedTemplates(doc.templates)
        /\ tasks = LoadedTasks(doc.tasks, groups, templates, mean)
        /\ clusters = LoadedClusters(doc.clusters, hosts)
        /\ c = Load(doc, mean)
  OBVIOUS
<1>2. /\ {"hosts", "clusters", "taskgroups", "tasks"} \subseteq DOMAIN c
      /\ c.hosts = LimitedHosts(hosts, tasks) /\ c.clusters = clusters
      /\ c.taskgroups = groups
      /\ c.tasks = OtherTriggers(tasks, AllLinks(doc.subs, groups, tasks))
  BY <1>1 DEF Load
<1>3. /\ IsSequence(doc.hosts) /\ IsSequence(doc.clusters)
      /\ IsSequence(doc.taskgroups) /\ IsSequence(doc.tasks)
      /\ \A i \in DOMAIN doc.clusters : IsSequence(doc.clusters[i].hosts)
      /\ \A i \in DOMAIN doc.taskgroups : IsSequence(doc.taskgroups[i].id)
      /\ \A i \in DOMAIN doc.tasks :
           IsSequence(doc.tasks[i].id) /\ Len(doc.tasks[i].id) = 1
  BY DEF IsDocument
<1>4. HostsOk(hosts)
  BY <1>1, <1>3, HostsAreRead
<1>5. /\ ClustersOk(clusters)
      /\ \A k \in DOMAIN clusters :
           /\ k \notin DOMAIN hosts
           /\ \A m \in ToSet(clusters[k].hosts) : m.id \in DOMAIN hosts /\ m = hosts[m.id]
  BY <1>1, <1>3, <1>4, ClustersAreRead
<1>6. GroupsOk(groups) /\ NoId \notin DOMAIN groups
  BY <1>1, <1>3, GroupsAreRead
<1>7. /\ TasksOk(tasks, groups)
      /\ \A t \in DOMAIN tasks :
           /\ IsSequence(t)
           /\ \E i \in DOMAIN doc.tasks : doc.tasks[i].taskgroup \in DOMAIN groups
  BY <1>1, <1>3, <1>6, TasksAreRead
<1>8. /\ HostsOk(c.hosts) /\ DOMAIN c.hosts = DOMAIN hosts
      /\ \A h \in DOMAIN hosts :
           \/ c.hosts[h].data = hosts[h].data
           \/ \E kind \in DOMAIN c.hosts[h].resources : IsMaxPerHost(kind)
  BY <1>2, <1>4, <1>7, HostsAreLimited
<1>9. HostsAreShared(c)
  <2> SUFFICES ASSUME NEW k \in DOMAIN clusters, NEW m \in ToSet(clusters[k].hosts)
               PROVE  /\ m.id \in DOMAIN c.hosts
                      /\ \/ m.data = c.hosts[m.id].data
                         \/ \E kind \in DOMAIN c.hosts[m.id].resources : IsMaxPerHost(kind)
    BY <1>2 DEF HostsAreShared, Members
  <2>1. m.id \in DOMAIN hosts /\ m = hosts[m.id]
    BY <1>5
  <2> QED BY <1>8, <2>1
<1>10. DOMAIN c.tasks = DOMAIN tasks /\ TasksOk(c.tasks, groups)
  <2>1. PICK links : links = AllLinks(doc.subs, groups, tasks)
    OBVIOUS
  <2>2. DOMAIN c.tasks = DOMAIN tasks
    BY <1>2 DEF OtherTriggers
  <2>3. ASSUME NEW t \in DOMAIN tasks
        PROVE  c.tasks[t].id = t /\ TaskOk(c.tasks[t], groups)
    <3>1. PICK others : c.tasks[t] = [tasks[t] EXCEPT !.otherTriggers = others]
      BY <1>2, <2>1 DEF OtherTriggers
    <3>2. tasks[t].id = t /\ TaskOk(tasks[t], groups)
      BY <1>7 DEF TasksOk
    <3>3. \A f \in TaskFields : f \in DOMAIN tasks[t] /\ f # "otherTriggers"
      BY <3>2 DEF TaskOk, TaskFields
    <3>4. DOMAIN c.tasks[t] = DOMAIN tasks[t] /\ \A f \in TaskFields : c.tasks[t][f] = tasks[t][f]
      BY <3>1, <3>3
    <3>5. /\ c.tasks[t].id = tasks[t].id /\ c.tasks[t].localId = tasks[t].localId
          /\ c.tasks[t].group = tasks[t].group /\ c.tasks[t].attrs = tasks[t].attrs
      BY <3>4 DEF TaskFields
    <3> QED BY <3>2, <3>4, <3>5 DEF TaskOk
  <2> QED BY <1>7, <2>2, <2>3 DEF TasksOk
<1>11. DOMAIN c.hosts \cap DOMAIN c.clusters = {}
  BY <1>2, <1>5, <1>8
<1>12. (\A i \in DOMAIN doc.tasks : doc.tasks[i].taskgroup = NoId) => DOMAIN c.tasks = {}
  BY <1>6, <1>7, <1>10
<1> QED BY <1>1, <1>2, <1>5, <1>6, <1>8, <1>9, <1>10, <1>11, <1>12 DEF Whole

-----------------------------------------------------------------------------
(* Writing.                                                                 *)

\* The values of finitely many items, one after the other.
LEMMA ValuesAreListed ==
  ASSUME NEW f, IsFiniteSet(DOMAIN f)
  PROVE  /\ IsSequence(Values(f))
         /\ \A i \in DOMAIN Values(f) : \E x \in DOMAIN f : Values(f)[i] = f[x]
<1> DEFINE S == {f[x] : x \in DOMAIN f}
<1>1. IsFiniteSet(S)
  <2> DEFINE g == [x \in DOMAIN f |-> f[x]]
  <2>1. g \in Surjection(DOMAIN f, S)
    BY DEF Surjection
  <2> QED BY <2>1, FS_Surjection
<1>2. PICK n \in Nat : n = Cardinality(S) /\ ExistsBijection(1..n, S)
  BY <1>1, FS_CardinalityType
<1>3. \E g \in [1..n -> S] : IsInjective(g)
  <2>1. PICK g \in Bijection(1..n, S) : TRUE
    BY <1>2 DEF ExistsBijection
  <2>2. g \in [1..n -> S] /\ IsInjective(g)
    BY <2>1 DEF Bijection, Injection
  <2> QED BY <2>2
<1>4. PICK v : v = Values(f)
  OBVIOUS
<1>5. v = CHOOSE g \in [1..n -> S] : IsInjective(g)
  BY <1>2, <1>4 DEF Values, SetToSeq
<1>6. v \in [1..n -> S]
  BY <1>3, <1>5
<1> HIDE DEF S
<1>7. v \in Seq(S) /\ DOMAIN v = 1..n
  BY <1>6, SeqDef
<1>8. IsSequence(v)
  BY <1>7, SequencesOfElements DEF IsSequence
<1>9. \A i \in DOMAIN v : v[i] \in S
  BY <1>6, <1>7
<1> QED BY <1>4, <1>8, <1>9 DEF S

\* What is written is a document, whose clusters list each host once and whose
\* tasks have no group.
LEMMA WrittenIsDocument ==
  ASSUME NEW c, Whole(c)
  PROVE  /\ IsDocument(Write(c))
         /\ \A i \in DOMAIN Write(c).clusters : IsInjective(Write(c).clusters[i].hosts)
         /\ \A i \in DOMAIN Write(c).tasks : Write(c).tasks[i].taskgroup = NoId
<1>1. PICK kept : kept = Drop(c.clusters, NoId)
  OBVIOUS
<1>2. PICK hosts, clusters, groups, tasks, doc :
        /\ hosts = Values(c.hosts) /\ clusters = Values(kept)
        /\ groups = Values(c.taskgroups) /\ tasks = Values(c.tasks)
        /\ doc = Write(c)
  OBVIOUS
<1>3. /\ doc.hosts = [i \in DOMAIN hosts |-> WrittenHost(hosts[i])]
      /\ doc.clusters = [i \in DOMAIN clusters |-> WrittenCluster(clusters[i])]
      /\ doc.taskgroups = [i \in DOMAIN groups |-> WrittenGroup(groups[i])]
      /\ doc.tasks = [i \in DOMAIN tasks |-> WrittenTask(tasks[i])]
  BY <1>1, <1>2 DEF Write, Written
<1>4. /\ IsFiniteSet(DOMAIN c.hosts) /\ IsFiniteSet(DOMAIN c.clusters)
      /\ IsFiniteSet(DOMAIN c.taskgroups) /\ IsFiniteSet(DOMAIN c.tasks)
  BY DEF Whole, HostsOk, ClustersOk, GroupsOk, TasksOk
<1>5. /\ DOMAIN kept \subseteq DOMAIN c.clusters /\ IsFiniteSet(DOMAIN kept)
      /\ \A k \in DOMAIN kept : kept[k] = c.clusters[k]
  BY <1>1, <1>4, FS_Subset DEF Drop
<1>6. /\ IsSequence(hosts) /\ IsSequence(clusters) /\ IsSequence(groups) /\ IsSequence(tasks)
      /\ \A i \in DOMAIN clusters : \E k \in DOMAIN c.clusters : clusters[i] = c.clusters[k]
      /\ \A i \in DOMAIN groups : \E g \in DOMAIN c.taskgroups : groups[i] = c.taskgroups[g]
      /\ \A i \in DOMAIN tasks : \E t \in DOMAIN c.tasks : tasks[i] = c.tasks[t]
  BY <1>2, <1>4, <1>5, ValuesAreListed
<1>7. ASSUME NEW s, IsSequence(s), NEW f, f = [i \in DOMAIN s |-> f[i]]
      PROVE  IsSequence(f)
  <2>1. DOMAIN s = 1..Len(s) /\ Len(s) \in Nat
    BY <1>7 DEF IsSequence
  <2> QED BY <1>7, <2>1, FunctionsAreSequences
<1>8. /\ IsSequence(doc.hosts) /\ IsSequence(doc.clusters)
      /\ IsSequence(doc.taskgroups) /\ IsSequence(doc.tasks)
  BY <1>3, <1>6, <1>7
<1>9. ASSUME NEW i \in DOMAIN doc.clusters
      PROVE  IsSequence(doc.clusters[i].hosts) /\ IsInjective(doc.clusters[i].hosts)
  <2>1. PICK k \in DOMAIN c.clusters : clusters[i] = c.clusters[k]
    BY <1>3, <1>6
  <2>2. PICK members : members = c.clusters[k].hosts
    OBVIOUS
  <2>3. IsSequence(members) /\ \A m, n \in DOMAIN members : members[m].id = members[n].id => m = n
    BY <2>2 DEF Whole, ClustersOk, OneEach
  <2>4. PICK ids : ids = [j \in DOMAIN members |-> members[j].id]
    OBVIOUS
  <2>5. doc.clusters[i].hosts = ids
    BY <1>3, <2>1, <2>2, <2>4 DEF WrittenCluster
  <2>6. IsSequence(ids)
    BY <1>7, <2>3, <2>4
  <2> QED BY <2>3, <2>4, <2>5, <2>6 DEF IsInjective
<1>10. ASSUME NEW i \in DOMAIN doc.taskgroups PROVE IsSequence(doc.taskgroups[i].id)
  <2>1. PICK g \in DOMAIN c.taskgroups : groups[i] = c.taskgroups[g]
    BY <1>3, <1>6
  <2>2. doc.taskgroups[i].id = c.taskgroups[g].id
    BY <1>3, <2>1 DEF WrittenGroup
  <2> QED BY <2>2 DEF Whole, GroupsOk
<1>11. ASSUME NEW i \in DOMAIN doc.tasks
       PROVE  /\ IsSequence(doc.tasks[i].id) /\ Len(doc.tasks[i].id) = 1
              /\ doc.tasks[i].taskgroup = NoId
  <2>1. PICK t \in DOMAIN c.tasks : tasks[i] = c.tasks[t]
    BY <1>3, <1>6
  <2>2. doc.tasks[i].id = c.tasks[t].localId /\ doc.tasks[i].taskgroup = NoId
    BY <1>3, <2>1 DEF WrittenTask
  <2> QED BY <2>2 DEF Whole, TasksOk, TaskOk
<1> QED BY <1>2, <1>8, <1>9, <1>10, <1>11 DEF IsDocument
-----------------------------------------------------------------------------
(* Items that are changed.                                                  *)

\* A changed item takes the place of the old one, in finitely many.
LEMMA ItemsAreChanged ==
  ASSUME NEW items, IsFiniteSet(DOMAIN items), NEW old, NEW new, NEW id, new.id = id
  PROVE  /\ DOMAIN ChangeItem(items, old, new) = (DOMAIN items \ {old}) \cup {id}
         /\ IsFiniteSet(DOMAIN ChangeItem(items, old, new))
<1>1. DOMAIN ChangeItem(items, old, new) = (DOMAIN items \ {old}) \cup {id}
  BY DEF ChangeItem, Override, Drop
<1>2. IsFiniteSet(DOMAIN items \ {old})
  BY FS_Subset
<1>3. IsFiniteSet((DOMAIN items \ {old}) \cup {id})
  BY <1>2, FS_AddElement
<1> QED BY <1>1, <1>3

\* Tasks are only given another target.
LEMMA TasksAreRetargeted ==
  ASSUME NEW tasks, NEW groups, TasksOk(tasks, groups), NEW old, NEW new
  PROVE  /\ TasksOk(Retargeted(tasks, old, new), groups)
         /\ DOMAIN Retargeted(tasks, old, new) = DOMAIN tasks
         /\ \A t \in DOMAIN tasks :
              LET target == tasks[t].attrs.target
              IN Retargeted(tasks, old, new)[t].attrs.target = IF target = old THEN new ELSE target
<1>1. PICK r : r = Retargeted(tasks, old, new)
  OBVIOUS
<1>2. DOMAIN r = DOMAIN tasks
  BY <1>1 DEF Retargeted
<1>3. ASSUME NEW t \in DOMAIN tasks
      PROVE  /\ r[t].id = t /\ TaskOk(r[t], groups)
             /\ r[t].attrs.target = IF tasks[t].attrs.target = old THEN new
                                    ELSE tasks[t].attrs.target
  <2>1. tasks[t].id = t /\ TaskOk(tasks[t], groups)
    BY DEF TasksOk
  <2>2. CASE tasks[t].attrs.target # old
    <3>1. r[t] = tasks[t]
      BY <1>1, <2>2 DEF Retargeted
    <3> QED BY <2>1, <2>2, <3>1
  <2>3. CASE tasks[t].attrs.target = old
    <3>1. r[t] = [tasks[t] EXCEPT !.attrs.target = new]
      BY <1>1, <2>3 DEF Retargeted
    <3>2. {"id", "localId", "group", "attrs"} \subseteq DOMAIN tasks[t]
          /\ "target" \in DOMAIN tasks[t].attrs
      BY <2>1 DEF TaskOk, TaskFields
    <3>3. /\ DOMAIN r[t] = DOMAIN tasks[t] /\ r[t].id = tasks[t].id
          /\ r[t].localId = tasks[t].localId /\ r[t].group = tasks[t].group
          /\ DOMAIN r[t].attrs = DOMAIN tasks[t].attrs /\ r[t].attrs.target = new
      BY <3>1, <3>2
    <3> QED BY <2>1, <2>3, <3>3 DEF TaskOk
  <2> QED BY <2>2, <2>3
<1> QED BY <1>1, <1>2, <1>3 DEF TasksOk

\* What comes before and after the i-th of the n elements of a sequence.
AreSlices(s, n, i, before, after) ==
  /\ IsSequence(before) /\ Len(before) = i - 1
  /\ \A j \in 1..(i - 1) : before[j] = s[j]
  /\ IsSequence(after) /\ Len(after) = n - i
  /\ \A j \in 1..(n - i) : after[j] = s[i + j]
LEMMA SlicesOfSequence ==
  ASSUME NEW s, IsSequence(s), NEW n \in Nat, n = Len(s),
         NEW i \in Nat, 1 <= i, i <= n,
         NEW before, before = SubSeq(s, 1, i - 1), NEW after, after = SubSeq(s, i + 1, n)
  PROVE  AreSlices(s, n, i, before, after)
<1>1. PICK S : S = ToSet(s)
  OBVIOUS
<1>2. \A j \in 1..n : s[j] \in S
  BY <1>1 DEF IsSequence, ToSet
<1>3. i - 1 \in Int /\ i + 1 \in Int /\ n \in Int /\ 1 \in Int
  OBVIOUS
<1>4. (\A j \in 1..(i - 1) : s[j] \in S) /\ (\A j \in (i + 1)..n : s[j] \in S)
  BY <1>2
<1>5. /\ SubSeq(s, 1, i - 1) \in Seq(S)
      /\ Len(SubSeq(s, 1, i - 1)) = IF 1 <= i - 1 THEN (i - 1) - 1 + 1 ELSE 0
      /\ \A j \in 1..((i - 1) - 1 + 1) : SubSeq(s, 1, i - 1)[j] = s[1 + j - 1]
  BY <1>3, <1>4, SubSeqProperties
<1>6. /\ SubSeq(s, i + 1, n) \in Seq(S)
      /\ Len(SubSeq(s, i + 1, n)) = IF i + 1 <= n THEN n - (i + 1) + 1 ELSE 0
      /\ \A j \in 1..(n - (i + 1) + 1) : SubSeq(s, i + 1, n)[j] = s[(i + 1) + j - 1]
  BY <1>3, <1>4, SubSeqProperties
<1>7. IsSequence(before) /\ IsSequence(after)
  BY <1>5, <1>6, SequencesOfElements DEF IsSequence
<1>8. Len(before) = i - 1 /\ \A j \in 1..(i - 1) : before[j] = s[j]
  <2>1. (i - 1) - 1 + 1 = i - 1 /\ \A j \in 1..(i - 1) : 1 + j - 1 = j
    OBVIOUS
  <2>2. (IF 1 <= i - 1 THEN (i - 1) - 1 + 1 ELSE 0) = i - 1
    OBVIOUS
  <2> QED BY <1>5, <2>1, <2>2
<1>9. Len(after) = n - i /\ \A j \in 1..(n - i) : after[j] = s[i + j]
  <2>1. n - (i + 1) + 1 = n - i /\ \A j \in 1..(n - i) : (i + 1) + j - 1 = i + j
    OBVIOUS
  <2>2. (IF i + 1 <= n THEN n - (i + 1) + 1 ELSE 0) = n - i
    OBVIOUS
  <2> QED BY <1>6, <2>1, <2>2
<1> QED BY <1>7, <1>8, <1>9 DEF AreSlices

\* The copy of a host is replaced by the one of the same host.
LEMMA CopyIsReplaced ==
  ASSUME NEW members, OneEach(members), NEW i \in DOMAIN members, NEW host,
         \A m \in ToSet(members) : m.id = host.id => m.id = members[i].id
  PROVE  LET list == SubSeq(members, 1, i - 1) \o <<host>>
                     \o SubSeq(members, i + 1, Len(members))
         IN /\ OneEach(list)
            /\ \A m \in ToSet(list) :
                 m = host \/ (m \in ToSet(members) /\ m.id # members[i].id)
<1>1. /\ IsSequence(members) /\ Len(members) \in Nat /\ DOMAIN members = 1..Len(members)
      /\ i \in 1..Len(members)
      /\ \A j, k \in DOMAIN members : members[j].id = members[k].id => j = k
  BY DEF OneEach, IsSequence
<1>2. PICK n, before, after, list :
        /\ n = Len(members) /\ before = SubSeq(members, 1, i - 1)
        /\ after = SubSeq(members, i + 1, n) /\ list = before \o <<host>> \o after
  OBVIOUS
<1>0. n \in Nat /\ i \in Nat /\ 1 <= i /\ i <= n
  <2>1. Len(members) \in Nat /\ i \in 1..Len(members)
    BY <1>1
  <2> QED BY <1>2, <2>1
<1>3. \A j \in 1..n : members[j] \in ToSet(members)
  BY <1>1, <1>2 DEF ToSet
<1>4. /\ IsSequence(before) /\ Len(before) = i - 1
      /\ \A j \in 1..(i - 1) : before[j] = members[j]
      /\ IsSequence(after) /\ Len(after) = n - i
      /\ \A j \in 1..(n - i) : after[j] = members[i + j]
  <2>1. IsSequence(members) /\ n = Len(members)
    BY <1>1, <1>2
  <2>2. before = SubSeq(members, 1, i - 1) /\ after = SubSeq(members, i + 1, n)
    BY <1>2
  <2>3. AreSlices(members, n, i, before, after)
    BY <1>0, <2>1, <2>2, SlicesOfSequence
  <2> QED BY <2>3 DEF AreSlices
<1>6. /\ IsSequence(list) /\ Len(list) = n
      /\ \A j \in 1..n : list[j] = IF j = i THEN host ELSE members[j]
  <2>1. IsSequence(before) /\ IsSequence(after) /\ IsSequence(<<host>>) /\ Len(<<host>>) = 1
    BY <1>4 DEF IsSequence, ToSet
  <2>2. PICK front : front = before \o <<host>>
    OBVIOUS
  <2>3. /\ IsSequence(front) /\ Len(front) = i
        /\ \A j \in 1..(i - 1) : front[j] = members[j]
        /\ front[i] = host
    <3>1. /\ IsSequence(front) /\ Len(front) = (i - 1) + 1
          /\ \A j \in 1..(i - 1) : front[j] = before[j]
          /\ front[(i - 1) + 1] = <<host>>[1]
      BY <1>4, <2>1, <2>2, SequencesConcat
    <3> QED BY <1>1, <1>4, <3>1
  <2>4. /\ IsSequence(list) /\ Len(list) = n
        /\ \A j \in 1..i : list[j] = front[j]
        /\ \A j \in 1..(n - i) : list[i + j] = after[j]
    <3>1. /\ IsSequence(list) /\ Len(list) = Len(front) + Len(after)
          /\ \A j \in 1..Len(front) : list[j] = front[j]
          /\ \A j \in 1..Len(after) : list[Len(front) + j] = after[j]
      <4>1. list = front \o after
        BY <1>2, <2>2
      <4>2. /\ IsSequence(front \o after) /\ Len(front \o after) = Len(front) + Len(after)
            /\ \A j \in 1..Len(front) : (front \o after)[j] = front[j]
            /\ \A j \in 1..Len(after) : (front \o after)[Len(front) + j] = after[j]
        BY <2>1, <2>3, SequencesConcat
      <4> QED BY <4>1, <4>2
    <3>2. Len(front) = i /\ Len(after) = n - i /\ i + (n - i) = n
      BY <1>0, <1>4, <2>3
    <3> QED BY <3>1, <3>2
  <2>5. ASSUME NEW j \in 1..n, i < j PROVE list[j] = members[j]
    <3>1. j - i \in 1..(n - i) /\ i + (j - i) = j
      BY <1>0, <2>5
    <3>2. list[i + (j - i)] = after[j - i] /\ after[j - i] = members[i + (j - i)]
      BY <1>4, <2>4, <3>1
    <3> QED BY <3>1, <3>2
  <2>6. ASSUME NEW j \in 1..n, j < i PROVE list[j] = members[j]
    <3>1. j \in 1..i /\ j \in 1..(i - 1)
      BY <1>0, <2>6
    <3> QED BY <2>3, <2>4, <3>1
  <2>7. i \in 1..i /\ \A j \in 1..n : j = i \/ j < i \/ i < j
    BY <1>0
  <2> QED BY <2>3, <2>4, <2>5, <2>6, <2>7
<1>7. DOMAIN list = 1..n
  BY <1>6 DEF IsSequence
<1>8. \A j \in 1..n : j # i => members[j].id # members[i].id
  BY <1>1, <1>2
<1>9. OneEach(list)
  <2> SUFFICES ASSUME NEW j \in 1..n, NEW k \in 1..n, list[j].id = list[k].id
               PROVE  j = k
    BY <1>6, <1>7 DEF OneEach
  <2>1. \A x \in 1..n : x # i => members[x].id # host.id
    BY <1>3, <1>8
  <2> QED BY <1>1, <1>2, <1>6, <2>1
<1>10. \A m \in ToSet(list) : m = host \/ (m \in ToSet(members) /\ m.id # members[i].id)
  <2> SUFFICES ASSUME NEW j \in 1..n, j # i
               PROVE  list[j] \in ToSet(members) /\ list[j].id # members[i].id
    BY <1>6, <1>7 DEF ToSet
  <2> QED BY <1>3, <1>6, <1>8
<1> QED BY <1>2, <1>9, <1>10

\* The copy of a host is removed.
LEMMA CopyIsRemoved ==
  ASSUME NEW members, OneEach(members), NEW i \in DOMAIN members
  PROVE  LET list == SubSeq(members, 1, i - 1) \o <<>>
                     \o SubSeq(members, i + 1, Len(members))
         IN /\ OneEach(list)
            /\ \A m \in ToSet(list) : m \in ToSet(members) /\ m.id # members[i].id
<1>1. /\ IsSequence(members) /\ Len(members) \in Nat /\ DOMAIN members = 1..Len(members)
      /\ i \in 1..Len(members)
      /\ \A j, k \in DOMAIN members : members[j].id = members[k].id => j = k
  BY DEF OneEach, IsSequence
<1>2. PICK n, before, after, list :
        /\ n = Len(members) /\ before = SubSeq(members, 1, i - 1)
        /\ after = SubSeq(members, i + 1, n) /\ list = before \o <<>> \o after
  OBVIOUS
<1>0. n \in Nat /\ i \in Nat /\ 1 <= i /\ i <= n
  <2>1. Len(members) \in Nat /\ i \in 1..Len(members)
    BY <1>1
  <2> QED BY <1>2, <2>1
<1>3. \A j \in 1..n : members[j] \in ToSet(members)
  BY <1>1, <1>2 DEF ToSet
<1>4. /\ IsSequence(before) /\ Len(before) = i - 1
      /\ \A j \in 1..(i - 1) : before[j] = members[j]
      /\ IsSequence(after) /\ Len(after) = n - i
      /\ \A j \in 1..(n - i) : after[j] = members[i + j]
  <2>1. IsSequence(members) /\ n = Len(members)
    BY <1>1, <1>2
  <2>2. before = SubSeq(members, 1, i - 1) /\ after = SubSeq(members, i + 1, n)
    BY <1>2
  <2>3. AreSlices(members, n, i, before, after)
    BY <1>0, <2>1, <2>2, SlicesOfSequence
  <2> QED BY <2>3 DEF AreSlices
<1>6. /\ IsSequence(list) /\ Len(list) = n - 1
      /\ \A j \in 1..(n - 1) : list[j] = IF j < i THEN members[j] ELSE members[j + 1]
  <2>1. IsSequence(before) /\ IsSequence(after)
    BY <1>4
  <2>2. before \o <<>> = before
    BY <1>4, ConcatEmptySeq DEF IsSequence
  <2>3. /\ IsSequence(list) /\ Len(list) = n - 1
        /\ \A j \in 1..(i - 1) : list[j] = before[j]
        /\ \A j \in 1..(n - i) : list[(i - 1) + j] = after[j]
    <3>1. /\ IsSequence(list) /\ Len(list) = Len(before) + Len(after)
          /\ \A j \in 1..Len(before) : list[j] = before[j]
          /\ \A j \in 1..Len(after) : list[Len(before) + j] = after[j]
      <4>1. list = before \o after
        BY <1>2, <2>2
      <4> QED BY <2>1, <4>1, SequencesConcat
    <3>2. Len(before) = i - 1 /\ Len(after) = n - i /\ (i - 1) + (n - i) = n - 1
      BY <1>0, <1>4
    <3> QED BY <3>1, <3>2
  <2>4. ASSUME NEW j \in 1..(n - 1), i <= j PROVE list[j] = members[j + 1]
    <3>1. /\ j - (i - 1) \in 1..(n - i) /\ (i - 1) + (j - (i - 1)) = j
          /\ i + (j - (i - 1)) = j + 1
      BY <1>0, <2>4
    <3>2. /\ list[(i - 1) + (j - (i - 1))] = after[j - (i - 1)]
          /\ after[j - (i - 1)] = members[i + (j - (i - 1))]
      BY <1>4, <2>3, <3>1
    <3> QED BY <3>1, <3>2
  <2>5. ASSUME NEW j \in 1..(n - 1), j < i PROVE list[j] = members[j]
    <3>1. j \in 1..(i - 1)
      BY <1>0, <2>5
    <3> QED BY <1>4, <2>3, <3>1
  <2>6. \A j \in 1..(n - 1) : j < i \/ (i <= j /\ ~(j < i))
    BY <1>0
  <2> QED BY <2>3, <2>4, <2>5, <2>6
<1>7. DOMAIN list = 1..(n - 1)
  BY <1>6 DEF IsSequence
<1>8. \A j \in 1..n : j # i => members[j].id # members[i].id
  BY <1>1, <1>2
<1>9. \A j \in 1..(n - 1) : \E k \in 1..n :
        /\ k = (IF j < i THEN j ELSE j + 1) /\ k # i /\ list[j] = members[k]
  <2> SUFFICES ASSUME NEW j \in 1..(n - 1)
               PROVE  \E k \in 1..n : /\ k = (IF j < i THEN j ELSE j + 1) /\ k # i
                                       /\ list[j] = members[k]
    OBVIOUS
  <2>1. PICK k : k = IF j < i THEN j ELSE j + 1
    OBVIOUS
  <2>2. k \in 1..n /\ k # i
    BY <1>0, <2>1
  <2>3. list[j] = members[k]
    BY <1>6, <2>1
  <2> QED BY <2>1, <2>2, <2>3
<1>10. OneEach(list)
  <2> SUFFICES ASSUME NEW j \in 1..(n - 1), NEW k \in 1..(n - 1), list[j].id = list[k].id
               PROVE  j = k
    BY <1>6, <1>7 DEF OneEach
  <2>1. PICK x \in 1..n : x = (IF j < i THEN j ELSE j + 1) /\ list[j] = members[x]
    BY <1>9
  <2>2. PICK y \in 1..n : y = (IF k < i THEN k ELSE k + 1) /\ list[k] = members[y]
    BY <1>9
  <2>3. x = y
    BY <1>1, <1>2, <2>1, <2>2
  <2> QED BY <1>1, <1>2, <2>1, <2>2, <2>3
<1>11. \A m \in ToSet(list) : m \in ToSet(members) /\ m.id # members[i].id
  BY <1>3, <1>7, <1>8, <1>9 DEF ToSet
<1> QED BY <1>2, <1>10, <1>11
\* The clusters are given the copy of a host in place of that of the old one, or
\* none.
LEMMA ClustersAreReplaced ==
  ASSUME NEW clusters, ClustersOk(clusters), NEW old, NEW hosts,
         \/ hosts = <<>>
         \/ \E host : /\ hosts = <<host>>
                      /\ \A k \in DOMAIN clusters : \A m \in ToSet(clusters[k].hosts) :
                           m.id = host.id => m.id = old
  PROVE  /\ ClustersOk(Replaced(clusters, old, hosts))
         /\ DOMAIN Replaced(clusters, old, hosts) = DOMAIN clusters
         /\ \A k \in DOMAIN clusters : \A m \in ToSet(Replaced(clusters, old, hosts)[k].hosts) :
              \/ m \in ToSet(hosts)
              \/ (m \in ToSet(clusters[k].hosts) /\ m.id # old)
<1>1. PICK r : r = Replaced(clusters, old, hosts)
  OBVIOUS
<1>2. DOMAIN r = DOMAIN clusters
  BY <1>1 DEF Replaced
<1>3. ASSUME NEW k \in DOMAIN clusters
      PROVE  /\ {"id", "hosts"} \subseteq DOMAIN r[k] /\ r[k].id = k /\ OneEach(r[k].hosts)
             /\ \A m \in ToSet(r[k].hosts) :
                  m \in ToSet(hosts) \/ (m \in ToSet(clusters[k].hosts) /\ m.id # old)
  <2>1. PICK members, is :
          members = clusters[k].hosts /\ is = {i \in DOMAIN members : members[i].id = old}
    OBVIOUS
  <2>2. /\ {"id", "hosts"} \subseteq DOMAIN clusters[k] /\ clusters[k].id = k
        /\ OneEach(members)
    BY <2>1 DEF ClustersOk
  <2>3. CASE is = {}
    <3>1. r[k] = clusters[k]
      BY <1>1, <2>1, <2>3 DEF Replaced
    <3>2. \A m \in ToSet(members) : m.id # old
      BY <2>1, <2>3 DEF ToSet
    <3> QED BY <2>1, <2>2, <3>1, <3>2
  <2>4. CASE is # {}
    <3>1. PICK i : i = Min(is)
      OBVIOUS
    <3>2. is \subseteq Nat
      <4>1. IsSequence(members) /\ is \subseteq DOMAIN members
        BY <2>1, <2>2 DEF OneEach
      <4> QED BY <4>1, IndexesOfSequence
    <3>3. i \in DOMAIN members /\ members[i].id = old
      BY <2>1, <2>4, <3>1, <3>2, LeastIsOne
    <3>4. PICK list : list = SubSeq(members, 1, i - 1) \o hosts
                             \o SubSeq(members, i + 1, Len(members))
      OBVIOUS
    <3>5. r[k] = [clusters[k] EXCEPT !.hosts = list]
      BY <1>1, <2>1, <2>4, <3>1, <3>4 DEF Replaced
    <3>6. /\ DOMAIN r[k] = DOMAIN clusters[k] /\ r[k].id = clusters[k].id
          /\ r[k].hosts = list
      BY <2>2, <3>5
    <3>7. /\ OneEach(list)
          /\ \A m \in ToSet(list) :
               m \in ToSet(hosts) \/ (m \in ToSet(members) /\ m.id # old)
      <4>1. CASE hosts = <<>>
        BY <2>2, <3>3, <3>4, <4>1, CopyIsRemoved
      <4>2. CASE hosts # <<>>
        <5>1. PICK host : /\ hosts = <<host>>
                          /\ \A m \in ToSet(members) : m.id = host.id => m.id = old
          BY <2>1, <4>2
        <5>2. list = SubSeq(members, 1, i - 1) \o <<host>> \o SubSeq(members, i + 1, Len(members))
          BY <3>4, <5>1
        <5>3. /\ OneEach(list)
              /\ \A m \in ToSet(list) : m = host \/ (m \in ToSet(members) /\ m.id # old)
          <6>1. \A m \in ToSet(members) : m.id = host.id => m.id = members[i].id
            BY <3>3, <5>1
          <6>2. LET l == SubSeq(members, 1, i - 1) \o <<host>>
                         \o SubSeq(members, i + 1, Len(members))
                IN /\ OneEach(l)
                   /\ \A m \in ToSet(l) :
                        m = host \/ (m \in ToSet(members) /\ m.id # members[i].id)
            BY <2>2, <3>3, <6>1, CopyIsReplaced
          <6> QED BY <3>3, <5>2, <6>2
        <5>4. host \in ToSet(hosts)
          BY <5>1 DEF ToSet
        <5> QED BY <5>3, <5>4
      <4> QED BY <4>1, <4>2
    <3> QED BY <2>1, <2>2, <3>6, <3>7
  <2> QED BY <2>3, <2>4
<1>4. ClustersOk(r)
  BY <1>2, <1>3 DEF ClustersOk
<1> QED BY <1>1, <1>2, <1>3, <1>4

\* A task that is moved is named after its new group.
LEMMA TaskIsMoved ==
  ASSUME NEW task, NEW groups, GroupsOk(groups), TaskOk(task, groups),
         NEW new, IsSequence(new), NEW more, new \in DOMAIN more
  PROVE  TaskOk(Moved(task, new), more) /\ Moved(task, new).attrs = task.attrs
<1>1. /\ TaskFields \subseteq DOMAIN task /\ "target" \in DOMAIN task.attrs
      /\ IsSequence(task.localId) /\ Len(task.localId) = 1
      /\ IsSequence(task.group) /\ task.id = task.group \o task.localId
  BY DEF TaskOk, GroupsOk
<1>2. PICK id, local, group, name :
        /\ id = task.id /\ local = task.localId /\ group = task.group /\ name = local[1]
  OBVIOUS
<1>3. local = <<name>>
  BY <1>1, <1>2 DEF IsSequence
<1>4. Len(id) = Len(group) + 1 /\ id[Len(group) + 1] = name
  <2>1. /\ Len(group \o local) = Len(group) + Len(local)
        /\ \A i \in 1..Len(local) : (group \o local)[Len(group) + i] = local[i]
    <3>1. IsSequence(group) /\ IsSequence(local)
      BY <1>1, <1>2
    <3> QED BY <3>1, SequencesConcat
  <2>2. id = group \o local /\ Len(local) = 1
    BY <1>1, <1>2
  <2>3. 1 \in 1..Len(local)
    BY <2>2
  <2> QED BY <1>2, <2>1, <2>2, <2>3
<1>5. PICK moved : moved = Moved(task, new)
  OBVIOUS
<1>6. /\ DOMAIN moved = DOMAIN task /\ moved.group = new /\ moved.id = Append(new, name)
      /\ moved.localId = task.localId /\ moved.attrs = task.attrs
  <2>1. moved = [task EXCEPT !.group = new, !.id = Append(new, name)]
    BY <1>2, <1>4, <1>5 DEF Moved
  <2>2. {"id", "localId", "group", "attrs"} \subseteq DOMAIN task
    BY <1>1 DEF TaskFields
  <2> QED BY <2>1, <2>2
<1>7. Append(new, name) = new \o <<name>>
  <2>1. new \in Seq(ToSet(new) \cup {name})
    BY SeqMonotonic DEF IsSequence
  <2>2. name \in ToSet(new) \cup {name}
    OBVIOUS
  <2> QED BY <2>1, <2>2, AppendIsConcat
<1>8. moved.id = new \o moved.localId
  BY <1>2, <1>3, <1>6, <1>7
<1> QED BY <1>1, <1>5, <1>6, <1>8 DEF TaskOk

\* The tasks of a renamed group are those of the new one.
LEMMA TasksAreMoved ==
  ASSUME NEW tasks, NEW groups, GroupsOk(groups), TasksOk(tasks, groups),
         NEW old, NEW new, IsSequence(new),
         NEW more, new \in DOMAIN more, DOMAIN groups \ {old} \subseteq DOMAIN more
  PROVE  /\ TasksOk(MovedTasks(tasks, old, new), more)
         /\ \A id \in DOMAIN MovedTasks(tasks, old, new) : \E t \in DOMAIN tasks :
              MovedTasks(tasks, old, new)[id].attrs = tasks[t].attrs
<1> DEFINE moved(t) == IF tasks[t].group = old THEN Moved(tasks[t], new) ELSE tasks[t]
<1>1. PICK r : r = MovedTasks(tasks, old, new)
  OBVIOUS
<1>2. /\ DOMAIN r = {moved(t).id : t \in DOMAIN tasks}
      /\ \A id \in DOMAIN r : r[id] = moved(CHOOSE t \in DOMAIN tasks : moved(t).id = id)
  BY <1>1 DEF MovedTasks
<1>3. ASSUME NEW t \in DOMAIN tasks
      PROVE  TaskOk(moved(t), more) /\ moved(t).attrs = tasks[t].attrs
  <2>1. TaskOk(tasks[t], groups)
    BY DEF TasksOk
  <2>2. CASE tasks[t].group = old
    BY <2>1, <2>2, TaskIsMoved
  <2>3. CASE tasks[t].group # old
    <3>1. tasks[t].group \in DOMAIN more
      BY <2>1, <2>3 DEF TaskOk
    <3> QED BY <2>1, <2>3, <3>1 DEF TaskOk
  <2> QED BY <2>2, <2>3
<1>4. IsFiniteSet(DOMAIN r)
  <2>1. IsFiniteSet(DOMAIN tasks)
    BY DEF TasksOk
  <2>2. [t \in DOMAIN tasks |-> moved(t).id] \in Surjection(DOMAIN tasks, DOMAIN r)
    BY <1>2 DEF Surjection
  <2> QED BY <2>1, <2>2, FS_Surjection
<1>5. ASSUME NEW id \in DOMAIN r
      PROVE  \E t \in DOMAIN tasks : r[id] = moved(t) /\ moved(t).id = id
  <2>1. PICK t : t = CHOOSE u \in DOMAIN tasks : moved(u).id = id
    OBVIOUS
  <2>2. \E u \in DOMAIN tasks : moved(u).id = id
    BY <1>2
  <2>3. t \in DOMAIN tasks /\ moved(t).id = id
    BY <2>1, <2>2
  <2>4. r[id] = moved(t)
    BY <1>2, <2>1
  <2> QED BY <2>3, <2>4
<1> HIDE DEF moved
<1> QED BY <1>1, <1>3, <1>4, <1>5 DEF TasksOk
-----------------------------------------------------------------------------
(* Each edit keeps the configuration whole, and the targets of its tasks.   *)

Sound(c) == Whole(c) /\ TargetsExist(c)

\* What follows of the parts of a configuration.
LEMMA PartsAreSound ==
  ASSUME NEW c, Whole(c), NEW d, DOMAIN d = DOMAIN c,
         HostsOk(d.hosts), ClustersOk(d.clusters),
         GroupsOk(d.taskgroups), TasksOk(d.tasks, d.taskgroups),
         DOMAIN d.hosts \cap DOMAIN d.clusters = {},
         HostsAreShared(d), TargetsExist(d)
  PROVE  Sound(d)
BY DEF Sound, Whole

\* Hosts, when the old one is edited and given another id.
EditedHosts(hosts, old, new, host, edited) ==
  /\ HostsOk(edited) /\ DOMAIN edited = (DOMAIN hosts \ {old}) \cup {new}
  /\ edited[new] = host
  /\ \A h \in DOMAIN hosts \ {old} : h # new /\ edited[h] = hosts[h]

LEMMA HostsAreEdited ==
  ASSUME NEW hosts, HostsOk(hosts), NEW old \in DOMAIN hosts, NEW new, IsFree(hosts, old, new),
         NEW host, {"id", "resources", "data"} \subseteq DOMAIN host, host.id = new,
         NEW edited, edited = ChangeItem(hosts, old, host)
  PROVE  EditedHosts(hosts, old, new, host, edited)
<1>1. PICK more : more = edited
  OBVIOUS
<1>2. IsFiniteSet(DOMAIN hosts)
  BY DEF HostsOk
<1>3. /\ DOMAIN more = (DOMAIN hosts \ {old}) \cup {host.id}
      /\ IsFiniteSet(DOMAIN more) /\ more[host.id] = host
      /\ \A h \in DOMAIN hosts \ {old} : h # host.id => more[h] = hosts[h]
  <2>1. /\ DOMAIN ChangeItem(hosts, old, host) = (DOMAIN hosts \ {old}) \cup {new}
        /\ IsFiniteSet(DOMAIN ChangeItem(hosts, old, host))
    BY <1>2, ItemsAreChanged
  <2>2. /\ ChangeItem(hosts, old, host)[new] = host
        /\ \A h \in DOMAIN hosts \ {old} : h # new => ChangeItem(hosts, old, host)[h] = hosts[h]
    BY DEF ChangeItem, Override, Drop
  <2> QED BY <1>1, <2>1, <2>2
<1>4. \A h \in DOMAIN hosts \ {old} : h # new
  BY DEF IsFree
<1>5. HostsOk(more)
  BY <1>3, <1>4 DEF HostsOk
<1> QED BY <1>1, <1>3, <1>4, <1>5 DEF EditedHosts

\* Renaming a host.
LEMMA HostIsEdited ==
  ASSUME NEW c, Sound(c), NEW old \in DOMAIN c.hosts, NEW new,
         IsFree(c.hosts, old, new), new \notin DOMAIN c.clusters, NEW data,
         NEW host, host = [c.hosts[old] EXCEPT !.id = new, !.data = data],
         NEW d, d = [c EXCEPT !.hosts = ChangeItem(@, old, host),
                              !.tasks = Retargeted(@, old, new),
                              !.clusters = Replaced(@, old, <<host>>)]
  PROVE  Sound(d)
<1>1. /\ Whole(c) /\ {"hosts", "clusters", "taskgroups", "tasks"} \subseteq DOMAIN c
      /\ HostsOk(c.hosts) /\ ClustersOk(c.clusters) /\ GroupsOk(c.taskgroups)
      /\ TasksOk(c.tasks, c.taskgroups) /\ DOMAIN c.hosts \cap DOMAIN c.clusters = {}
      /\ HostsAreShared(c) /\ TargetsExist(c)
  BY DEF Sound, Whole
<1>2. /\ DOMAIN d = DOMAIN c /\ d.taskgroups = c.taskgroups
      /\ d.hosts = ChangeItem(c.hosts, old, host) /\ d.tasks = Retargeted(c.tasks, old, new)
      /\ d.clusters = Replaced(c.clusters, old, <<host>>)
  BY <1>1
<1>3. /\ DOMAIN host = DOMAIN c.hosts[old] /\ {"id", "resources", "data"} \subseteq DOMAIN host
      /\ host.id = new /\ host.resources = c.hosts[old].resources
  <2>1. {"id", "resources", "data"} \subseteq DOMAIN c.hosts[old]
    BY <1>1 DEF HostsOk
  <2> QED BY <2>1
<1>4. PICK hosts, edited : hosts = c.hosts /\ edited = ChangeItem(hosts, old, host)
  OBVIOUS
<1>5. /\ HostsOk(d.hosts) /\ DOMAIN d.hosts = (DOMAIN c.hosts \ {old}) \cup {new}
      /\ d.hosts[new] = host
      /\ \A h \in DOMAIN c.hosts \ {old} : h # new /\ d.hosts[h] = c.hosts[h]
  <2>1. HostsOk(hosts) /\ old \in DOMAIN hosts /\ IsFree(hosts, old, new)
    BY <1>1, <1>4
  <2>2. EditedHosts(hosts, old, new, host, edited)
    BY <1>3, <1>4, <2>1, HostsAreEdited
  <2> QED BY <1>2, <1>4, <2>2 DEF EditedHosts
<1>6. \A k \in DOMAIN c.clusters : \A m \in ToSet(c.clusters[k].hosts) : m.id \in DOMAIN c.hosts
  BY <1>1 DEF HostsAreShared, Members
<1>7. /\ ClustersOk(d.clusters) /\ DOMAIN d.clusters = DOMAIN c.clusters
      /\ \A k \in DOMAIN c.clusters : \A m \in ToSet(d.clusters[k].hosts) :
           m = host \/ (m \in ToSet(c.clusters[k].hosts) /\ m.id # old)
  <2>1. \A k \in DOMAIN c.clusters : \A m \in ToSet(c.clusters[k].hosts) :
          m.id = host.id => m.id = old
    BY <1>3, <1>6 DEF IsFree
  <2>2. PICK copies : copies = <<host>>
    OBVIOUS
  <2>3. /\ ClustersOk(d.clusters) /\ DOMAIN d.clusters = DOMAIN c.clusters
        /\ \A k \in DOMAIN c.clusters : \A m \in ToSet(d.clusters[k].hosts) :
             m \in ToSet(copies) \/ (m \in ToSet(c.clusters[k].hosts) /\ m.id # old)
    <3>1. \E x : /\ copies = <<x>>
                 /\ \A k \in DOMAIN c.clusters : \A m \in ToSet(c.clusters[k].hosts) :
                      m.id = x.id => m.id = old
      BY <2>1, <2>2
    <3>2. LET r == Replaced(c.clusters, old, copies)
          IN /\ ClustersOk(r) /\ DOMAIN r = DOMAIN c.clusters
             /\ \A k \in DOMAIN c.clusters : \A m \in ToSet(r[k].hosts) :
                  m \in ToSet(copies) \/ (m \in ToSet(c.clusters[k].hosts) /\ m.id # old)
      BY <1>1, <3>1, ClustersAreReplaced
    <3>3. d.clusters = Replaced(c.clusters, old, copies)
      BY <1>2, <2>2
    <3> QED BY <3>2, <3>3
  <2>4. ToSet(copies) = {host}
    BY <2>2 DEF ToSet
  <2> QED BY <2>3, <2>4
<1>8. /\ TasksOk(d.tasks, d.taskgroups) /\ DOMAIN d.tasks = DOMAIN c.tasks
      /\ \A t \in DOMAIN c.tasks :
           d.tasks[t].attrs.target = IF c.tasks[t].attrs.target = old THEN new
                                     ELSE c.tasks[t].attrs.target
  BY <1>1, <1>2, TasksAreRetargeted
<1>9. DOMAIN d.hosts \cap DOMAIN d.clusters = {}
  BY <1>1, <1>5, <1>7
<1>10. HostsAreShared(d)
  <2> SUFFICES ASSUME NEW k \in DOMAIN c.clusters, NEW m \in ToSet(d.clusters[k].hosts)
               PROVE  /\ m.id \in DOMAIN d.hosts
                      /\ \/ m.data = d.hosts[m.id].data
                         \/ \E kind \in DOMAIN d.hosts[m.id].resources : IsMaxPerHost(kind)
    BY <1>7 DEF HostsAreShared, Members
  <2>1. CASE m = host
    BY <1>3, <1>5, <2>1
  <2>2. CASE m \in ToSet(c.clusters[k].hosts) /\ m.id # old
    BY <1>1, <1>5, <2>2 DEF HostsAreShared, Members
  <2> QED BY <1>7, <2>1, <2>2
<1>11. TargetsExist(d)
  <2> SUFFICES ASSUME NEW t \in DOMAIN c.tasks, d.tasks[t].attrs.target \in HostIds
               PROVE  d.tasks[t].attrs.target \in DOMAIN d.hosts \cup DOMAIN d.clusters
    BY <1>8 DEF TargetsExist
  <2> QED BY <1>1, <1>5, <1>7, <1>8 DEF TargetsExist
<1> QED BY <1>1, <1>2, <1>5, <1>7, <1>8, <1>9, <1>10, <1>11, PartsAreSound

\* Creating a host.
LEMMA HostIsCreated ==
  ASSUME NEW c, Sound(c), NEW new, new \notin DOMAIN c.hosts \cup DOMAIN c.clusters, NEW data,
         NEW d, d = [c EXCEPT !.hosts = Override(@, [h \in {new} |-> Host(HostNode(new), data)])]
  PROVE  Sound(d)
<1>1. /\ Whole(c) /\ {"hosts", "clusters", "taskgroups", "tasks"} \subseteq DOMAIN c
      /\ HostsOk(c.hosts) /\ ClustersOk(c.clusters) /\ GroupsOk(c.taskgroups)
      /\ TasksOk(c.tasks, c.taskgroups) /\ DOMAIN c.hosts \cap DOMAIN c.clusters = {}
      /\ HostsAreShared(c) /\ TargetsExist(c)
  BY DEF Sound, Whole
<1>2. PICK host : host = Host(HostNode(new), data)
  OBVIOUS
<1>3. /\ DOMAIN d = DOMAIN c /\ d.taskgroups = c.taskgroups
      /\ d.hosts = Override(c.hosts, [h \in {new} |-> host])
      /\ d.tasks = c.tasks /\ d.clusters = c.clusters
  BY <1>1, <1>2
<1>4. {"id", "resources", "data"} \subseteq DOMAIN host /\ host.id = new
  BY <1>2 DEF Host, HostNode
<1>5. /\ DOMAIN d.hosts = DOMAIN c.hosts \cup {new} /\ IsFiniteSet(DOMAIN d.hosts)
      /\ d.hosts[new] = host /\ \A h \in DOMAIN c.hosts : d.hosts[h] = c.hosts[h]
  <2>1. IsFiniteSet(DOMAIN c.hosts)
    BY <1>1 DEF HostsOk
  <2>2. IsFiniteSet(DOMAIN c.hosts \cup {new})
    BY <2>1, FS_AddElement
  <2>3. /\ DOMAIN d.hosts = DOMAIN c.hosts \cup {new} /\ d.hosts[new] = host
        /\ \A h \in DOMAIN c.hosts : d.hosts[h] = c.hosts[h]
    BY <1>3 DEF Override
  <2> QED BY <2>2, <2>3
<1>6. HostsOk(d.hosts)
  BY <1>1, <1>4, <1>5 DEF HostsOk
<1>7. HostsAreShared(d)
  BY <1>1, <1>3, <1>5 DEF HostsAreShared, Members
<1>8. TargetsExist(d)
  BY <1>1, <1>3, <1>5 DEF TargetsExist
<1>9. DOMAIN d.hosts \cap DOMAIN d.clusters = {}
  BY <1>1, <1>3, <1>5
<1> QED BY <1>1, <1>3, <1>6, <1>7, <1>8, <1>9, PartsAreSound

\* Deleting a host.
LEMMA HostIsDeleted ==
  ASSUME NEW c, Sound(c), NEW old \in DOMAIN c.hosts,
         NEW d, d = [c EXCEPT !.hosts = Drop(@, old), !.tasks = Retargeted(@, old, NoId),
                              !.clusters = Replaced(@, old, <<>>)]
  PROVE  Sound(d)
<1>1. /\ Whole(c) /\ {"hosts", "clusters", "taskgroups", "tasks"} \subseteq DOMAIN c
      /\ HostsOk(c.hosts) /\ ClustersOk(c.clusters) /\ GroupsOk(c.taskgroups)
      /\ TasksOk(c.tasks, c.taskgroups) /\ DOMAIN c.hosts \cap DOMAIN c.clusters = {}
      /\ HostsAreShared(c) /\ TargetsExist(c)
  BY DEF Sound, Whole
<1>2. /\ DOMAIN d = DOMAIN c /\ d.taskgroups = c.taskgroups
      /\ d.hosts = Drop(c.hosts, old) /\ d.tasks = Retargeted(c.tasks, old, NoId)
      /\ d.clusters = Replaced(c.clusters, old, <<>>)
  BY <1>1
<1>3. /\ DOMAIN d.hosts = DOMAIN c.hosts \ {old} /\ IsFiniteSet(DOMAIN d.hosts)
      /\ \A h \in DOMAIN d.hosts : d.hosts[h] = c.hosts[h]
  BY <1>1, <1>2, FS_Subset DEF HostsOk, Drop
<1>4. HostsOk(d.hosts)
  BY <1>1, <1>3 DEF HostsOk
<1>5. /\ ClustersOk(d.clusters) /\ DOMAIN d.clusters = DOMAIN c.clusters
      /\ \A k \in DOMAIN c.clusters : \A m \in ToSet(d.clusters[k].hosts) :
           m \in ToSet(c.clusters[k].hosts) /\ m.id # old
  <2>1. PICK hosts : hosts = <<>>
    OBVIOUS
  <2>2. /\ ClustersOk(d.clusters) /\ DOMAIN d.clusters = DOMAIN c.clusters
        /\ \A k \in DOMAIN c.clusters : \A m \in ToSet(d.clusters[k].hosts) :
             m \in ToSet(hosts) \/ (m \in ToSet(c.clusters[k].hosts) /\ m.id # old)
    BY <1>1, <1>2, <2>1, ClustersAreReplaced
  <2>3. ToSet(hosts) = {}
    BY <2>1 DEF ToSet
  <2> QED BY <2>2, <2>3
<1>6. /\ TasksOk(d.tasks, d.taskgroups) /\ DOMAIN d.tasks = DOMAIN c.tasks
      /\ \A t \in DOMAIN c.tasks :
           d.tasks[t].attrs.target = IF c.tasks[t].attrs.target = old THEN NoId
                                     ELSE c.tasks[t].attrs.target
  BY <1>1, <1>2, TasksAreRetargeted
<1>7. HostsAreShared(d)
  <2> SUFFICES ASSUME NEW k \in DOMAIN c.clusters, NEW m \in ToSet(d.clusters[k].hosts)
               PROVE  /\ m.id \in DOMAIN d.hosts
                      /\ \/ m.data = d.hosts[m.id].data
                         \/ \E kind \in DOMAIN d.hosts[m.id].resources : IsMaxPerHost(kind)
    BY <1>5 DEF HostsAreShared, Members
  <2> QED BY <1>1, <1>3, <1>5 DEF HostsAreShared, Members
<1>8. TargetsExist(d)
  <2> SUFFICES ASSUME NEW t \in DOMAIN c.tasks, d.tasks[t].attrs.target \in HostIds
               PROVE  d.tasks[t].attrs.target \in DOMAIN d.hosts \cup DOMAIN d.clusters
    BY <1>6 DEF TargetsExist
  <2>1. c.tasks[t].attrs.target # old
    BY <1>6, NamesAssumption
  <2> QED BY <1>1, <1>3, <1>5, <1>6, <2>1 DEF TargetsExist
<1>9. DOMAIN d.hosts \cap DOMAIN d.clusters = {}
  BY <1>1, <1>3, <1>5
<1> QED BY <1>1, <1>2, <1>4, <1>5, <1>6, <1>7, <1>8, <1>9, PartsAreSound
\* Renaming a cluster.
LEMMA ClusterIsEdited ==
  ASSUME NEW c, Sound(c), NEW old \in DOMAIN c.clusters, NEW new,
         IsFree(c.clusters, old, new), new \notin DOMAIN c.hosts,
         NEW cluster, cluster = [c.clusters[old] EXCEPT !.id = new],
         NEW d, d = [c EXCEPT !.clusters = ChangeItem(@, old, cluster),
                              !.tasks = Retargeted(@, old, new)]
  PROVE  Sound(d)
<1>1. /\ Whole(c) /\ {"hosts", "clusters", "taskgroups", "tasks"} \subseteq DOMAIN c
      /\ HostsOk(c.hosts) /\ ClustersOk(c.clusters) /\ GroupsOk(c.taskgroups)
      /\ TasksOk(c.tasks, c.taskgroups) /\ DOMAIN c.hosts \cap DOMAIN c.clusters = {}
      /\ HostsAreShared(c) /\ TargetsExist(c)
  BY DEF Sound, Whole
<1>2. /\ DOMAIN d = DOMAIN c /\ d.taskgroups = c.taskgroups /\ d.hosts = c.hosts
      /\ d.clusters = ChangeItem(c.clusters, old, cluster)
      /\ d.tasks = Retargeted(c.tasks, old, new)
  BY <1>1
<1>3. /\ {"id", "hosts"} \subseteq DOMAIN cluster /\ cluster.id = new
      /\ cluster.hosts = c.clusters[old].hosts /\ OneEach(cluster.hosts)
  <2>1. {"id", "hosts"} \subseteq DOMAIN c.clusters[old] /\ OneEach(c.clusters[old].hosts)
    BY <1>1 DEF ClustersOk
  <2> QED BY <2>1
<1>4. PICK clusters, edited : clusters = c.clusters /\ edited = d.clusters
  OBVIOUS
<1>5. /\ ClustersOk(clusters) /\ DOMAIN edited = (DOMAIN clusters \ {old}) \cup {new}
      /\ IsFiniteSet(DOMAIN edited) /\ edited[new] = cluster
      /\ \A k \in DOMAIN clusters \ {old} : k # new /\ edited[k] = clusters[k]
  <2>1. ClustersOk(clusters) /\ IsFiniteSet(DOMAIN clusters)
    BY <1>1, <1>4 DEF ClustersOk
  <2>2. edited = ChangeItem(clusters, old, cluster)
    BY <1>2, <1>4
  <2>3. /\ DOMAIN edited = (DOMAIN clusters \ {old}) \cup {new}
        /\ IsFiniteSet(DOMAIN edited)
    BY <1>3, <2>1, <2>2, ItemsAreChanged
  <2>4. \A k \in DOMAIN clusters \ {old} : k # new
    BY <1>4 DEF IsFree
  <2>5. /\ edited[new] = cluster
        /\ \A k \in DOMAIN clusters \ {old} : k # new => edited[k] = clusters[k]
    BY <1>3, <2>2 DEF ChangeItem, Override, Drop
  <2> QED BY <2>1, <2>3, <2>4, <2>5
<1>6. ClustersOk(edited)
  BY <1>3, <1>5 DEF ClustersOk
<1>7. Members(d) \subseteq Members(c)
  <2> SUFFICES ASSUME NEW k \in DOMAIN edited
               PROVE  \E l \in DOMAIN clusters : edited[k].hosts = clusters[l].hosts
    BY <1>4 DEF Members
  <2> QED BY <1>3, <1>4, <1>5
<1>8. /\ TasksOk(d.tasks, d.taskgroups) /\ DOMAIN d.tasks = DOMAIN c.tasks
      /\ \A t \in DOMAIN c.tasks :
           d.tasks[t].attrs.target = IF c.tasks[t].attrs.target = old THEN new
                                     ELSE c.tasks[t].attrs.target
  BY <1>1, <1>2, TasksAreRetargeted
<1>9. HostsAreShared(d)
  BY <1>1, <1>2, <1>7 DEF HostsAreShared
<1>10. TargetsExist(d)
  <2> SUFFICES ASSUME NEW t \in DOMAIN c.tasks, d.tasks[t].attrs.target \in HostIds
               PROVE  d.tasks[t].attrs.target \in DOMAIN d.hosts \cup DOMAIN d.clusters
    BY <1>8 DEF TargetsExist
  <2> QED BY <1>1, <1>2, <1>4, <1>5, <1>8 DEF TargetsExist
<1>11. DOMAIN d.hosts \cap DOMAIN d.clusters = {}
  BY <1>1, <1>2, <1>4, <1>5
<1> QED BY <1>1, <1>2, <1>4, <1>6, <1>8, <1>9, <1>10, <1>11, PartsAreSound

\* Creating a cluster.
LEMMA ClusterIsCreated ==
  ASSUME NEW c, Sound(c), NEW new, new \notin DOMAIN c.hosts \cup DOMAIN c.clusters,
         NEW d, d = [c EXCEPT !.clusters = Override(@, [k \in {new} |->
                       [id |-> new, balancing |-> "roundrobin", hosts |-> <<>>]])]
  PROVE  Sound(d)
<1>1. /\ Whole(c) /\ {"hosts", "clusters", "taskgroups", "tasks"} \subseteq DOMAIN c
      /\ HostsOk(c.hosts) /\ ClustersOk(c.clusters) /\ GroupsOk(c.taskgroups)
      /\ TasksOk(c.tasks, c.taskgroups) /\ DOMAIN c.hosts \cap DOMAIN c.clusters = {}
      /\ HostsAreShared(c) /\ TargetsExist(c)
  BY DEF Sound, Whole
<1>2. PICK cluster : cluster = [id |-> new, balancing |-> "roundrobin", hosts |-> <<>>]
  OBVIOUS
<1>3. /\ DOMAIN d = DOMAIN c /\ d.taskgroups = c.taskgroups
      /\ d.hosts = c.hosts /\ d.tasks = c.tasks
      /\ d.clusters = Override(c.clusters, [k \in {new} |-> cluster])
  BY <1>1, <1>2
<1>4. /\ {"id", "hosts"} \subseteq DOMAIN cluster /\ cluster.id = new
      /\ cluster.hosts = <<>> /\ OneEach(cluster.hosts)
  <2>1. OneEach(<<>>)
    BY DEF OneEach, IsSequence, ToSet
  <2> QED BY <1>2, <2>1
<1>5. PICK clusters, more : clusters = c.clusters /\ more = d.clusters
  OBVIOUS
<1>6. /\ ClustersOk(clusters) /\ DOMAIN more = DOMAIN clusters \cup {new}
      /\ IsFiniteSet(DOMAIN more) /\ more[new] = cluster
      /\ \A k \in DOMAIN clusters : more[k] = clusters[k]
  <2>1. ClustersOk(clusters) /\ IsFiniteSet(DOMAIN clusters)
    BY <1>1, <1>5 DEF ClustersOk
  <2>2. IsFiniteSet(DOMAIN clusters \cup {new})
    BY <2>1, FS_AddElement
  <2>3. /\ DOMAIN more = DOMAIN clusters \cup {new} /\ more[new] = cluster
        /\ \A k \in DOMAIN clusters : more[k] = clusters[k]
    BY <1>3, <1>5 DEF Override
  <2> QED BY <2>1, <2>2, <2>3
<1>7. ClustersOk(more)
  BY <1>4, <1>6 DEF ClustersOk
<1>8. Members(d) \subseteq Members(c)
  <2> SUFFICES ASSUME NEW k \in DOMAIN more, NEW m \in ToSet(more[k].hosts)
               PROVE  k \in DOMAIN clusters /\ more[k] = clusters[k]
    BY <1>5 DEF Members
  <2>1. ToSet(<<>>) = {}
    BY DEF ToSet
  <2> QED BY <1>4, <1>6, <2>1
<1>9. HostsAreShared(d)
  BY <1>1, <1>3, <1>8 DEF HostsAreShared
<1>10. TargetsExist(d)
  BY <1>1, <1>3, <1>5, <1>6 DEF TargetsExist
<1>11. DOMAIN d.hosts \cap DOMAIN d.clusters = {}
  BY <1>1, <1>3, <1>5, <1>6
<1> QED BY <1>1, <1>3, <1>5, <1>7, <1>9, <1>10, <1>11, PartsAreSound

\* Deleting a cluster.
LEMMA ClusterIsDeleted ==
  ASSUME NEW c, Sound(c), NEW old \in DOMAIN c.clusters,
         NEW d, d = [c EXCEPT !.clusters = Drop(@, old), !.tasks = Retargeted(@, old, NoId)]
  PROVE  Sound(d)
<1>1. /\ Whole(c) /\ {"hosts", "clusters", "taskgroups", "tasks"} \subseteq DOMAIN c
      /\ HostsOk(c.hosts) /\ ClustersOk(c.clusters) /\ GroupsOk(c.taskgroups)
      /\ TasksOk(c.tasks, c.taskgroups) /\ DOMAIN c.hosts \cap DOMAIN c.clusters = {}
      /\ HostsAreShared(c) /\ TargetsExist(c)
  BY DEF Sound, Whole
<1>2. /\ DOMAIN d = DOMAIN c /\ d.taskgroups = c.taskgroups /\ d.hosts = c.hosts
      /\ d.clusters = Drop(c.clusters, old) /\ d.tasks = Retargeted(c.tasks, old, NoId)
  BY <1>1
<1>3. PICK clusters, left : clusters = c.clusters /\ left = d.clusters
  OBVIOUS
<1>4. /\ ClustersOk(clusters) /\ DOMAIN left = DOMAIN clusters \ {old}
      /\ IsFiniteSet(DOMAIN left) /\ \A k \in DOMAIN left : left[k] = clusters[k]
  BY <1>1, <1>2, <1>3, FS_Subset DEF ClustersOk, Drop
<1>5. ClustersOk(left)
  BY <1>4 DEF ClustersOk
<1>6. Members(d) \subseteq Members(c)
  BY <1>3, <1>4 DEF Members
<1>7. /\ TasksOk(d.tasks, d.taskgroups) /\ DOMAIN d.tasks = DOMAIN c.tasks
      /\ \A t \in DOMAIN c.tasks :
           d.tasks[t].attrs.target = IF c.tasks[t].attrs.target = old THEN NoId
                                     ELSE c.tasks[t].attrs.target
  BY <1>1, <1>2, TasksAreRetargeted
<1>8. HostsAreShared(d)
  BY <1>1, <1>2, <1>6 DEF HostsAreShared
<1>9. TargetsExist(d)
  <2> SUFFICES ASSUME NEW t \in DOMAIN c.tasks, d.tasks[t].attrs.target \in HostIds
               PROVE  d.tasks[t].attrs.target \in DOMAIN d.hosts \cup DOMAIN d.clusters
    BY <1>7 DEF TargetsExist
  <2>1. c.tasks[t].attrs.target # old
    BY <1>7, NamesAssumption
  <2> QED BY <1>1, <1>2, <1>3, <1>4, <1>7, <2>1 DEF TargetsExist
<1>10. DOMAIN d.hosts \cap DOMAIN d.clusters = {}
  BY <1>1, <1>2, <1>3, <1>4
<1> QED BY <1>1, <1>2, <1>3, <1>5, <1>7, <1>8, <1>9, <1>10, PartsAreSound

\* Edits of the groups and the tasks alone.
LEMMA TasksAreEdited ==
  ASSUME NEW c, Sound(c), NEW d, DOMAIN d = DOMAIN c, d.hosts = c.hosts, d.clusters = c.clusters,
         GroupsOk(d.taskgroups), TasksOk(d.tasks, d.taskgroups),
         \A t \in DOMAIN d.tasks : \E u \in DOMAIN c.tasks :
           d.tasks[t].attrs.target = c.tasks[u].attrs.target
  PROVE  Sound(d)
<1>1. /\ Whole(c) /\ {"hosts", "clusters", "taskgroups", "tasks"} \subseteq DOMAIN c
      /\ HostsOk(c.hosts) /\ ClustersOk(c.clusters) /\ GroupsOk(c.taskgroups)
      /\ TasksOk(c.tasks, c.taskgroups) /\ DOMAIN c.hosts \cap DOMAIN c.clusters = {}
      /\ HostsAreShared(c) /\ TargetsExist(c)
  BY DEF Sound, Whole
<1>2. HostsAreShared(d)
  BY <1>1 DEF HostsAreShared, Members
<1>3. TargetsExist(d)
  BY <1>1 DEF TargetsExist
<1> QED BY <1>1, <1>2, <1>3, PartsAreSound

\* Renaming a group.
LEMMA GroupIsEdited ==
  ASSUME NEW c, Sound(c), NEW old \in DOMAIN c.taskgroups, NEW new, IsSequence(new),
         IsFree(c.taskgroups, old, new),
         NEW group, group = [c.taskgroups[old] EXCEPT !.id = new],
         NEW d, d = [c EXCEPT !.taskgroups = ChangeItem(@, old, group),
                              !.tasks = MovedTasks(c.tasks, old, new)]
  PROVE  Sound(d)
<1>1. /\ Whole(c) /\ {"hosts", "clusters", "taskgroups", "tasks"} \subseteq DOMAIN c
      /\ HostsOk(c.hosts) /\ ClustersOk(c.clusters) /\ GroupsOk(c.taskgroups)
      /\ TasksOk(c.tasks, c.taskgroups) /\ DOMAIN c.hosts \cap DOMAIN c.clusters = {}
      /\ HostsAreShared(c) /\ TargetsExist(c)
  BY DEF Sound, Whole
<1>2. /\ DOMAIN d = DOMAIN c /\ d.hosts = c.hosts /\ d.clusters = c.clusters
      /\ d.taskgroups = ChangeItem(c.taskgroups, old, group)
      /\ d.tasks = MovedTasks(c.tasks, old, new)
  BY <1>1
<1>3. PICK groups, edited, tasks, moved :
        groups = c.taskgroups /\ edited = d.taskgroups /\ tasks = c.tasks /\ moved = d.tasks
  OBVIOUS
<1>4. "id" \in DOMAIN group /\ group.id = new
  <2>1. "id" \in DOMAIN c.taskgroups[old]
    BY <1>1 DEF GroupsOk
  <2> QED BY <2>1
<1>5. /\ GroupsOk(groups) /\ DOMAIN edited = (DOMAIN groups \ {old}) \cup {new}
      /\ IsFiniteSet(DOMAIN edited) /\ edited[new] = group
      /\ \A g \in DOMAIN groups \ {old} : g # new /\ edited[g] = groups[g]
  <2>1. GroupsOk(groups) /\ IsFiniteSet(DOMAIN groups)
    BY <1>1, <1>3 DEF GroupsOk
  <2>2. edited = ChangeItem(groups, old, group)
    BY <1>2, <1>3
  <2>3. DOMAIN edited = (DOMAIN groups \ {old}) \cup {new} /\ IsFiniteSet(DOMAIN edited)
    BY <1>4, <2>1, <2>2, ItemsAreChanged
  <2>4. \A g \in DOMAIN groups \ {old} : g # new
    BY <1>3 DEF IsFree
  <2>5. /\ edited[new] = group
        /\ \A g \in DOMAIN groups \ {old} : g # new => edited[g] = groups[g]
    BY <1>4, <2>2 DEF ChangeItem, Override, Drop
  <2> QED BY <2>1, <2>3, <2>4, <2>5
<1>6. GroupsOk(edited)
  BY <1>4, <1>5 DEF GroupsOk
<1>7. /\ TasksOk(moved, edited)
      /\ \A id \in DOMAIN moved : \E t \in DOMAIN tasks : moved[id].attrs = tasks[t].attrs
  <2>1. /\ GroupsOk(groups) /\ TasksOk(tasks, groups) /\ moved = MovedTasks(tasks, old, new)
        /\ new \in DOMAIN edited /\ DOMAIN groups \ {old} \subseteq DOMAIN edited
    BY <1>1, <1>2, <1>3, <1>5
  <2>2. /\ TasksOk(MovedTasks(tasks, old, new), edited)
        /\ \A id \in DOMAIN MovedTasks(tasks, old, new) : \E t \in DOMAIN tasks :
             MovedTasks(tasks, old, new)[id].attrs = tasks[t].attrs
    BY <2>1, TasksAreMoved
  <2> QED BY <2>1, <2>2
<1>8. \A t \in DOMAIN d.tasks : \E u \in DOMAIN c.tasks :
        d.tasks[t].attrs.target = c.tasks[u].attrs.target
  BY <1>3, <1>7
<1>9. GroupsOk(d.taskgroups) /\ TasksOk(d.tasks, d.taskgroups)
  BY <1>3, <1>6, <1>7
<1> QED BY <1>2, <1>8, <1>9, TasksAreEdited

\* Creating a group.
LEMMA GroupIsCreated ==
  ASSUME NEW c, Sound(c), NEW new, IsSequence(new), new \notin DOMAIN c.taskgroups,
         NEW group, "id" \in DOMAIN group, group.id = new,
         NEW d, d = [c EXCEPT !.taskgroups = Override(@, [g \in {new} |-> group])]
  PROVE  Sound(d)
<1>1. /\ Whole(c) /\ {"hosts", "clusters", "taskgroups", "tasks"} \subseteq DOMAIN c
      /\ HostsOk(c.hosts) /\ ClustersOk(c.clusters) /\ GroupsOk(c.taskgroups)
      /\ TasksOk(c.tasks, c.taskgroups) /\ DOMAIN c.hosts \cap DOMAIN c.clusters = {}
      /\ HostsAreShared(c) /\ TargetsExist(c)
  BY DEF Sound, Whole
<1>2. /\ DOMAIN d = DOMAIN c /\ d.hosts = c.hosts /\ d.clusters = c.clusters
      /\ d.taskgroups = Override(c.taskgroups, [g \in {new} |-> group])
      /\ d.tasks = c.tasks
  BY <1>1
<1>3. PICK groups, more : groups = c.taskgroups /\ more = d.taskgroups
  OBVIOUS
<1>4. /\ GroupsOk(groups) /\ DOMAIN more = DOMAIN groups \cup {new}
      /\ IsFiniteSet(DOMAIN more) /\ more[new] = group
      /\ \A g \in DOMAIN groups : more[g] = groups[g]
  <2>1. GroupsOk(groups) /\ IsFiniteSet(DOMAIN groups)
    BY <1>1, <1>3 DEF GroupsOk
  <2>2. IsFiniteSet(DOMAIN groups \cup {new})
    BY <2>1, FS_AddElement
  <2>3. /\ DOMAIN more = DOMAIN groups \cup {new} /\ more[new] = group
        /\ \A g \in DOMAIN groups : more[g] = groups[g]
    BY <1>2, <1>3 DEF Override
  <2> QED BY <2>1, <2>2, <2>3
<1>5. GroupsOk(more)
  BY <1>4 DEF GroupsOk
<1>6. TasksOk(d.tasks, more)
  BY <1>1, <1>2, <1>3, <1>4 DEF TasksOk, TaskOk
<1> QED BY <1>2, <1>3, <1>5, <1>6, TasksAreEdited

\* Deleting a group, with its tasks.
LEMMA GroupIsDeleted ==
  ASSUME NEW c, Sound(c), NEW old, NEW kept, kept = {t \in DOMAIN c.tasks : c.tasks[t].group # old},
         NEW d, d = [c EXCEPT !.taskgroups = Drop(@, old), !.tasks = [t \in kept |-> c.tasks[t]]]
  PROVE  Sound(d)
<1>1. /\ Whole(c) /\ {"hosts", "clusters", "taskgroups", "tasks"} \subseteq DOMAIN c
      /\ HostsOk(c.hosts) /\ ClustersOk(c.clusters) /\ GroupsOk(c.taskgroups)
      /\ TasksOk(c.tasks, c.taskgroups) /\ DOMAIN c.hosts \cap DOMAIN c.clusters = {}
      /\ HostsAreShared(c) /\ TargetsExist(c)
  BY DEF Sound, Whole
<1>2. /\ DOMAIN d = DOMAIN c /\ d.hosts = c.hosts /\ d.clusters = c.clusters
      /\ d.taskgroups = Drop(c.taskgroups, old)
      /\ d.tasks = [t \in kept |-> c.tasks[t]]
  BY <1>1
<1>3. PICK groups, left : groups = c.taskgroups /\ left = d.taskgroups
  OBVIOUS
<1>4. /\ GroupsOk(groups) /\ DOMAIN left = DOMAIN groups \ {old}
      /\ IsFiniteSet(DOMAIN left) /\ \A g \in DOMAIN left : left[g] = groups[g]
  BY <1>1, <1>2, <1>3, FS_Subset DEF GroupsOk, Drop
<1>5. GroupsOk(left)
  BY <1>4 DEF GroupsOk
<1>6. /\ DOMAIN d.tasks = kept /\ kept \subseteq DOMAIN c.tasks /\ IsFiniteSet(kept)
      /\ \A t \in kept : d.tasks[t] = c.tasks[t] /\ c.tasks[t].group # old
  <2>1. IsFiniteSet(DOMAIN c.tasks)
    BY <1>1 DEF TasksOk
  <2> QED BY <1>2, <2>1, FS_Subset
<1>7. TasksOk(d.tasks, left)
  BY <1>1, <1>3, <1>4, <1>6 DEF TasksOk, TaskOk
<1> QED BY <1>2, <1>3, <1>5, <1>6, <1>7, TasksAreEdited

\* Changing a task.
LEMMA TaskIsChanged ==
  ASSUME NEW c, Sound(c), NEW old \in DOMAIN c.tasks,
         NEW new, TaskOk(new, c.taskgroups), IsFree(c.tasks, old, new.id),
         new.attrs.target = c.tasks[old].attrs.target,
         NEW d, d = [c EXCEPT !.tasks = ChangeItem(@, old, new)]
  PROVE  Sound(d)
<1>1. /\ Whole(c) /\ {"hosts", "clusters", "taskgroups", "tasks"} \subseteq DOMAIN c
      /\ HostsOk(c.hosts) /\ ClustersOk(c.clusters) /\ GroupsOk(c.taskgroups)
      /\ TasksOk(c.tasks, c.taskgroups) /\ DOMAIN c.hosts \cap DOMAIN c.clusters = {}
      /\ HostsAreShared(c) /\ TargetsExist(c)
  BY DEF Sound, Whole
<1>2. /\ DOMAIN d = DOMAIN c /\ d.hosts = c.hosts /\ d.clusters = c.clusters
      /\ d.taskgroups = c.taskgroups /\ d.tasks = ChangeItem(c.tasks, old, new)
  BY <1>1
<1>3. PICK tasks, changed, id : tasks = c.tasks /\ changed = d.tasks /\ id = new.id
  OBVIOUS
<1>4. /\ DOMAIN changed = (DOMAIN tasks \ {old}) \cup {id}
      /\ IsFiniteSet(DOMAIN changed) /\ changed[id] = new
      /\ \A t \in DOMAIN tasks \ {old} : t # id /\ changed[t] = tasks[t]
  <2>1. IsFiniteSet(DOMAIN tasks)
    BY <1>1, <1>3 DEF TasksOk
  <2>2. changed = ChangeItem(tasks, old, new)
    BY <1>2, <1>3
  <2>3. DOMAIN changed = (DOMAIN tasks \ {old}) \cup {id} /\ IsFiniteSet(DOMAIN changed)
    BY <1>3, <2>1, <2>2, ItemsAreChanged
  <2>4. \A t \in DOMAIN tasks \ {old} : t # id
    BY <1>3 DEF IsFree
  <2>5. /\ changed[id] = new
        /\ \A t \in DOMAIN tasks \ {old} : t # id => changed[t] = tasks[t]
    BY <1>3, <2>2 DEF ChangeItem, Override, Drop
  <2> QED BY <2>3, <2>4, <2>5
<1>5. TasksOk(changed, d.taskgroups)
  <2>1. \A t \in DOMAIN tasks : tasks[t].id = t /\ TaskOk(tasks[t], d.taskgroups)
    BY <1>1, <1>2, <1>3 DEF TasksOk
  <2>2. TaskOk(new, d.taskgroups)
    BY <1>2
  <2> QED BY <1>3, <1>4, <2>1, <2>2 DEF TasksOk
<1>6. \A t \in DOMAIN changed : \E u \in DOMAIN tasks :
        changed[t].attrs.target = tasks[u].attrs.target
  BY <1>3, <1>4
<1>7. GroupsOk(d.taskgroups)
  BY <1>1, <1>2
<1>8. /\ GroupsOk(d.taskgroups) /\ TasksOk(d.tasks, d.taskgroups)
      /\ \A t \in DOMAIN d.tasks : \E u \in DOMAIN c.tasks :
           d.tasks[t].attrs.target = c.tasks[u].attrs.target
  BY <1>3, <1>5, <1>6, <1>7
<1> QED BY <1>2, <1>8, TasksAreEdited

\* Deleting a task.
LEMMA TaskIsDeleted ==
  ASSUME NEW c, Sound(c), NEW old, NEW d, d = [c EXCEPT !.tasks = Drop(@, old)]
  PROVE  Sound(d)
<1>1. /\ Whole(c) /\ {"hosts", "clusters", "taskgroups", "tasks"} \subseteq DOMAIN c
      /\ HostsOk(c.hosts) /\ ClustersOk(c.clusters) /\ GroupsOk(c.taskgroups)
      /\ TasksOk(c.tasks, c.taskgroups) /\ DOMAIN c.hosts \cap DOMAIN c.clusters = {}
      /\ HostsAreShared(c) /\ TargetsExist(c)
  BY DEF Sound, Whole
<1>2. /\ DOMAIN d = DOMAIN c /\ d.hosts = c.hosts /\ d.clusters = c.clusters
      /\ d.taskgroups = c.taskgroups /\ d.tasks = Drop(c.tasks, old)
  BY <1>1
<1>3. PICK tasks, left : tasks = c.tasks /\ left = d.tasks
  OBVIOUS
<1>4. /\ DOMAIN left = DOMAIN tasks \ {old} /\ IsFiniteSet(DOMAIN left)
      /\ \A t \in DOMAIN left : left[t] = tasks[t]
  BY <1>1, <1>2, <1>3, FS_Subset DEF TasksOk, Drop
<1>5. TasksOk(left, d.taskgroups)
  BY <1>1, <1>2, <1>3, <1>4 DEF TasksOk
<1>6. \A t \in DOMAIN left : \E u \in DOMAIN tasks :
        left[t].attrs.target = tasks[u].attrs.target
  BY <1>4
<1>7. GroupsOk(d.taskgroups)
  BY <1>1, <1>2
<1>8. /\ GroupsOk(d.taskgroups) /\ TasksOk(d.tasks, d.taskgroups)
      /\ \A t \in DOMAIN d.tasks : \E u \in DOMAIN c.tasks :
           d.tasks[t].attrs.target = c.tasks[u].attrs.target
  BY <1>3, <1>5, <1>6, <1>7
<1> QED BY <1>2, <1>8, TasksAreEdited
-----------------------------------------------------------------------------
(* Every step keeps the configuration sound.                                *)

\* Hosts.
LEMMA HostsStaySound == Sound(config) /\ EditHosts => Sound(config')
<1> SUFFICES ASSUME Sound(config), EditHosts PROVE Sound(config')
  OBVIOUS
<1>1. ASSUME NEW new \in HostIds, CreateHost(new) PROVE Sound(config')
  <2>1. PICK data : data = FreshObject
    OBVIOUS
  <2>2. /\ new \notin DOMAIN config.hosts \cup DOMAIN config.clusters
        /\ config' = [config EXCEPT
             !.hosts = Override(@, [h \in {new} |-> Host(HostNode(new), data)])]
    BY <1>1, <2>1 DEF CreateHost
  <2> QED BY <2>2, HostIsCreated
<1>2. ASSUME NEW old \in DOMAIN config.hosts, DeleteHost(old) PROVE Sound(config')
  <2>1. config' = [config EXCEPT !.hosts = Drop(@, old), !.tasks = Retargeted(@, old, NoId),
                                 !.clusters = Replaced(@, old, <<>>)]
    BY <1>2 DEF DeleteHost
  <2> QED BY <2>1, HostIsDeleted
<1>3. ASSUME NEW old \in DOMAIN config.hosts, NEW new \in HostIds, EditHost(old, new)
      PROVE  Sound(config')
  <2>1. PICK data, host :
          data = FreshObject /\ host = [config.hosts[old] EXCEPT !.id = new, !.data = data]
    OBVIOUS
  <2>2. /\ IsFree(config.hosts, old, new) /\ new \notin DOMAIN config.clusters
        /\ config' = [config EXCEPT
             !.hosts = ChangeItem(@, old, host), !.tasks = Retargeted(@, old, new),
             !.clusters = Replaced(@, old, <<host>>)]
    BY <1>3, <2>1 DEF EditHost
  <2> QED BY <2>1, <2>2, HostIsEdited
<1> QED BY <1>1, <1>2, <1>3 DEF EditHosts

\* Clusters.
LEMMA ClustersStaySound == Sound(config) /\ EditClusters => Sound(config')
<1> SUFFICES ASSUME Sound(config), EditClusters PROVE Sound(config')
  OBVIOUS
<1>1. ASSUME NEW new \in HostIds, CreateCluster(new) PROVE Sound(config')
  <2>1. /\ new \notin DOMAIN config.hosts \cup DOMAIN config.clusters
        /\ config' = [config EXCEPT !.clusters = Override(@, [k \in {new} |->
             [id |-> new, balancing |-> "roundrobin", hosts |-> <<>>]])]
    BY <1>1 DEF CreateCluster
  <2> QED BY <2>1, ClusterIsCreated
<1>2. ASSUME NEW old \in DOMAIN config.clusters, DeleteCluster(old) PROVE Sound(config')
  <2>1. config' = [config EXCEPT !.clusters = Drop(@, old), !.tasks = Retargeted(@, old, NoId)]
    BY <1>2 DEF DeleteCluster
  <2> QED BY <2>1, ClusterIsDeleted
<1>3. ASSUME NEW old \in DOMAIN config.clusters, NEW new \in HostIds, EditCluster(old, new)
      PROVE  Sound(config')
  <2>1. PICK cluster : cluster = [config.clusters[old] EXCEPT !.id = new]
    OBVIOUS
  <2>2. /\ IsFree(config.clusters, old, new) /\ new \notin DOMAIN config.hosts
        /\ config' = [config EXCEPT !.clusters = ChangeItem(@, old, cluster),
                                    !.tasks = Retargeted(@, old, new)]
    BY <1>3, <2>1 DEF EditCluster
  <2> QED BY <2>1, <2>2, ClusterIsEdited
<1> QED BY <1>1, <1>2, <1>3 DEF EditClusters

\* A local id is empty, or one name.
LEMMA LocalIds ==
  ASSUME NEW id
  PROVE  IsSequence(LocalId(id)) /\ (id # NoId => Len(LocalId(id)) = 1)
<1>1. CASE id = NoId
  <2>1. LocalId(id) = <<>>
    BY <1>1 DEF LocalId, NoId
  <2>2. IsSequence(<<>>)
    BY DEF IsSequence, ToSet
  <2> QED BY <1>1, <2>1, <2>2
<1>2. CASE id # NoId
  <2>1. PICK name : LocalId(id) = <<name>>
    BY <1>2 DEF LocalId
  <2>2. IsSequence(<<name>>) /\ Len(<<name>>) = 1
    BY DEF IsSequence, ToSet
  <2> QED BY <2>1, <2>2
<1> QED BY <1>1, <1>2

\* Groups.
LEMMA GroupsStaySound == Sound(config) /\ EditGroups => Sound(config')
<1> SUFFICES ASSUME Sound(config), EditGroups PROVE Sound(config')
  OBVIOUS
<1>1. ASSUME NEW new \in GroupIds, CreateGroup(new) PROVE Sound(config')
  <2>1. PICK group : group = [id |-> new, parent |-> NoId, subs |-> NoSubscription]
    OBVIOUS
  <2>2. "id" \in DOMAIN group /\ group.id = new
    BY <2>1
  <2>3. /\ new \notin DOMAIN config.taskgroups
        /\ config' = [config EXCEPT !.taskgroups = Override(@, [g \in {new} |-> group])]
    BY <1>1, <2>1 DEF CreateGroup
  <2>4. IsSequence(new)
    BY NamesAssumption
  <2> QED BY <2>2, <2>3, <2>4, GroupIsCreated
<1>2. ASSUME NEW old \in DOMAIN config.taskgroups, DeleteGroup(old) PROVE Sound(config')
  <2>1. PICK kept : kept = {t \in DOMAIN config.tasks : config.tasks[t].group # old}
    OBVIOUS
  <2>2. config' = [config EXCEPT !.taskgroups = Drop(@, old),
                                 !.tasks = [t \in kept |-> config.tasks[t]]]
    BY <1>2, <2>1 DEF DeleteGroup
  <2> QED BY <2>1, <2>2, GroupIsDeleted
<1>3. ASSUME NEW old \in DOMAIN config.taskgroups, NEW new \in NewGroupIds(old), EditGroup(old, new)
      PROVE  Sound(config')
  <2>1. IsSequence(new)
    <3>1. CASE \E g \in GroupIds : new = LocalId(g)
      BY <3>1, LocalIds
    <3>2. CASE \E g \in GroupIds : new = Append(g, Last(old))
      <4>1. PICK g \in GroupIds : new = Append(g, Last(old))
        BY <3>2
      <4>2. PICK last, S : last = Last(old) /\ S = ToSet(g) \cup {last}
        OBVIOUS
      <4>3. IsSequence(g)
        BY NamesAssumption
      <4>4. g \in Seq(S) /\ last \in S
        BY <4>2, <4>3, SeqMonotonic DEF IsSequence
      <4>5. new \in Seq(S)
        BY <4>1, <4>2, <4>4, AppendProperties
      <4> QED BY <4>5, SequencesOfElements DEF IsSequence
    <3> QED BY <3>1, <3>2 DEF NewGroupIds
  <2>2. PICK group : group = [config.taskgroups[old] EXCEPT !.id = new]
    OBVIOUS
  <2>3. /\ IsFree(config.taskgroups, old, new)
        /\ config' = [config EXCEPT !.taskgroups = ChangeItem(@, old, group),
                                    !.tasks = MovedTasks(config.tasks, old, new)]
    BY <1>3, <2>2 DEF EditGroup
  <2> QED BY <2>1, <2>2, <2>3, GroupIsEdited
<1> QED BY <1>1, <1>2, <1>3 DEF EditGroups

\* Tasks.
LEMMA TasksStaySound == Sound(config) /\ EditTasks => Sound(config')
<1> SUFFICES ASSUME Sound(config), NEW old \in DOMAIN config.tasks,
                    \/ \E name \in TaskIds : RenameTask(old, name)
                    \/ \E group \in GroupIds : MoveTask(old, group)
                    \/ SetMean(old, "ssh")
                    \/ SetResources(old, [k \in {<<"memory">>} |-> 2])
                    \/ DeleteTask(old)
             PROVE  Sound(config')
  BY DEF EditTasks
<1>1. PICK task, groups : task = config.tasks[old] /\ groups = config.taskgroups
  OBVIOUS
<1>2. TaskOk(task, groups) /\ GroupsOk(groups)
  BY <1>1 DEF Sound, Whole, TasksOk
<1>3. ASSUME NEW new, TaskOk(new, groups), new.attrs.target = task.attrs.target,
             ChangeTask(old, new)
      PROVE  Sound(config')
  <2>1. /\ IsFree(config.tasks, old, new.id)
        /\ config' = [config EXCEPT !.tasks = ChangeItem(@, old, new)]
    BY <1>3 DEF ChangeTask
  <2> QED BY <1>1, <1>3, <2>1, TaskIsChanged
<1>4. /\ TaskFields \subseteq DOMAIN task /\ "target" \in DOMAIN task.attrs
      /\ IsSequence(task.localId) /\ Len(task.localId) = 1
      /\ task.group \in DOMAIN groups /\ task.id = task.group \o task.localId
  BY <1>2 DEF TaskOk
<1>5. ASSUME NEW name \in TaskIds, RenameTask(old, name) PROVE Sound(config')
  <2>1. PICK local, id, new :
          /\ local = LocalId(name) /\ id = task.group \o local
          /\ new = [task EXCEPT !.id = id, !.localId = local]
    OBVIOUS
  <2>2. IsSequence(local) /\ Len(local) = 1
    BY <2>1, LocalIds, NamesAssumption
  <2>3. /\ DOMAIN new = DOMAIN task /\ new.id = id /\ new.localId = local
        /\ new.group = task.group /\ new.attrs = task.attrs
    BY <1>4, <2>1 DEF TaskFields
  <2>4. TaskOk(new, groups)
    BY <1>4, <2>1, <2>2, <2>3 DEF TaskOk
  <2>5. ChangeTask(old, new)
    BY <1>1, <1>5, <2>1 DEF RenameTask
  <2> QED BY <1>3, <2>3, <2>4, <2>5
<1>6. ASSUME NEW group \in GroupIds, MoveTask(old, group) PROVE Sound(config')
  <2>1. group \in DOMAIN groups /\ ChangeTask(old, Moved(task, group))
    BY <1>1, <1>6 DEF MoveTask
  <2>2. IsSequence(group)
    BY NamesAssumption
  <2>3. TaskOk(Moved(task, group), groups) /\ Moved(task, group).attrs = task.attrs
    BY <1>2, <2>1, <2>2, TaskIsMoved
  <2>4. PICK new : new = Moved(task, group)
    OBVIOUS
  <2> QED BY <1>3, <2>1, <2>3, <2>4
<1>7. ASSUME SetMean(old, "ssh") PROVE Sound(config')
  <2>1. PICK new : new = [task EXCEPT !.attrs.mean = "ssh"]
    OBVIOUS
  <2>2. /\ DOMAIN new = DOMAIN task /\ new.id = task.id /\ new.localId = task.localId
        /\ new.group = task.group
        /\ DOMAIN new.attrs = DOMAIN task.attrs /\ new.attrs.target = task.attrs.target
    BY <1>4, <2>1 DEF TaskFields
  <2>3. TaskOk(new, groups)
    BY <1>4, <2>2 DEF TaskOk
  <2>4. ChangeTask(old, new)
    BY <1>1, <1>7, <2>1 DEF SetMean
  <2> QED BY <1>3, <2>2, <2>3, <2>4
<1>8. ASSUME SetResources(old, [k \in {<<"memory">>} |-> 2]) PROVE Sound(config')
  <2>1. PICK resources, new :
          resources = [k \in {<<"memory">>} |-> 2] /\ new = [task EXCEPT !.resources = resources]
    OBVIOUS
  <2>2. /\ DOMAIN new = DOMAIN task /\ new.id = task.id /\ new.localId = task.localId
        /\ new.group = task.group /\ new.attrs = task.attrs
    BY <1>4, <2>1 DEF TaskFields
  <2>3. TaskOk(new, groups)
    BY <1>4, <2>2 DEF TaskOk
  <2>4. ChangeTask(old, new)
    BY <1>1, <1>8, <2>1 DEF SetResources
  <2> QED BY <1>3, <2>2, <2>3, <2>4
<1>9. ASSUME DeleteTask(old) PROVE Sound(config')
  <2>1. config' = [config EXCEPT !.tasks = Drop(@, old)]
    BY <1>9 DEF DeleteTask
  <2> QED BY <2>1, TaskIsDeleted
<1> QED BY <1>5, <1>6, <1>7, <1>8, <1>9

\* What is loaded is sound.
LEMMA LoadedIsSound ==
  ASSUME ListedOnce, TargetsDeclared, NEW new \in Configs PROVE Sound(new)
<1>1. PICK doc \in Documents : \E mean \in Uninitialized : new = Load(doc, mean)
  BY DEF Configs, Loaded
<1>2. PICK mean \in Uninitialized : new = Load(doc, mean)
  BY <1>1
<1>3. IsDocument(doc)
  BY DocumentsAssumption
<1>4. \A i \in DOMAIN doc.clusters : IsInjective(doc.clusters[i].hosts)
  BY DEF ListedOnce
<1>5. Whole(new)
  BY <1>2, <1>3, <1>4, LoadedIsWhole
<1>6. TargetsExist(new)
  BY DEF TargetsDeclared
<1> QED BY <1>5, <1>6 DEF Sound

\* What is read back has no task, and is sound.
LEMMA ReadBackIsSound ==
  ASSUME NEW c, Sound(c), NEW new \in Loaded(Write(c)) PROVE Sound(new)
<1>1. PICK mean \in Uninitialized : new = Load(Write(c), mean)
  BY DEF Loaded
<1>2. PICK doc : doc = Write(c)
  OBVIOUS
<1>3. /\ IsDocument(doc)
      /\ \A i \in DOMAIN doc.clusters : IsInjective(doc.clusters[i].hosts)
      /\ \A i \in DOMAIN doc.tasks : doc.tasks[i].taskgroup = NoId
  BY <1>2, WrittenIsDocument DEF Sound
<1>4. Whole(new) /\ DOMAIN new.tasks = {}
  BY <1>1, <1>2, <1>3, LoadedIsWhole
<1> QED BY <1>4 DEF Sound, TargetsExist

\* Init, and every step.
LEMMA StaysSound ==
  ASSUME ListedOnce, TargetsDeclared
  PROVE  /\ Init => Sound(config)
         /\ Sound(config) /\ [Next]_vars => Sound(config')
<1>1. Init => Sound(config)
  BY LoadedIsSound DEF Init
<1>2. ASSUME Sound(config), [Next]_vars PROVE Sound(config')
  <2>1. CASE ActivateConfig
    BY <2>1, LoadedIsSound DEF ActivateConfig, Activated
  <2>2. CASE SaveAndReload
    BY <1>2, <2>2, ReadBackIsSound DEF SaveAndReload, Activated
  <2>3. CASE Edit
    BY <1>2, <2>3, HostsStaySound, ClustersStaySound, GroupsStaySound, TasksStaySound DEF Edit
  <2>4. CASE Monitor
    <3>1. config' = config
      BY <2>4 DEF Monitor, AsyncProcessing, ProcessFinished, ProcessError, Elapse, Checked
    <3> QED BY <1>2, <3>1
  <2>5. CASE UNCHANGED vars
    <3>1. config' = config
      BY <2>5 DEF vars
    <3> QED BY <1>2, <3>1
  <2> QED BY <1>2, <2>1, <2>2, <2>3, <2>4, <2>5 DEF Next
<1> QED BY <1>1, <1>2

\* Items of a sound configuration refer to items of that configuration.
LEMMA SoundReferences == Sound(config) => ReferencesHold
BY DEF Sound, Whole, HostsOk, ClustersOk, GroupsOk, TasksOk, TaskOk, ReferencesHold, KeysAreIds,
       TasksHaveGroups

\* Whatever documents are activated, when their clusters list each host once and
\* their tasks have targets that are declared, edits never leave a reference to an
\* item that is renamed or deleted.
THEOREM ReferencesAlwaysHold ==
  ASSUME ListedOnce, TargetsDeclared PROVE Spec => []ReferencesHold
<1>1. Init => Sound(config)
  BY StaysSound
<1>2. Sound(config) /\ [Next]_vars => Sound(config')
  BY StaysSound
<1>3. Sound(config)' <=> Sound(config')
  BY DEF Sound, Whole, HostsAreShared, Members, TargetsExist
<1> QED BY <1>1, <1>2, <1>3, SoundReferences, PTL DEF Spec
=============================================================================
