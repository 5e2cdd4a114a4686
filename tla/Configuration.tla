---------------------------- MODULE Configuration ----------------------------
(***************************************************************************)
(* The configuration of a running scheduler: activated from a document,    *)
(* edited item by item through the document manager, and written back; and *)
(* the host monitor, whose health checks tell which hosts are available.   *)
(*                                                                         *)
(* An edit is a transaction: the change of an item is checked, and changes *)
(* the items that refer to it, or is refused as a whole.                   *)
(***************************************************************************)
EXTENDS ConfigDocument

CONSTANTS
  Documents,     \* the documents that may be activated
  Uninitialized, \* what the uninitialized mean of a new task may be
  HostIds,       \* ids given to hosts and clusters
  GroupIds,      \* ids given to groups
  TaskIds,       \* local ids given to tasks
  MaxCommands,   \* bound on the commands that check a host at the same time
  MaxEdits       \* bound on the edits since a document is activated

ASSUME DocumentsAssumption == \A doc \in Documents : IsDocument(doc)
ASSUME NamesAssumption ==
  /\ NoId \notin HostIds \cup GroupIds \cup TaskIds
  /\ \A g \in GroupIds : IsSequence(g)
ASSUME BoundsAssumption == MaxCommands \in Nat /\ MaxEdits \in Nat

VARIABLES
  config,      \* _config
  available,   \* the objects whose _is_available is true
  monitored,   \* the hosts of the configuration that the host monitor has
  commands,    \* how many commands check each host
  recent,      \* hosts checked less than their interval ago
  edits        \* how many edits since a document was activated

monitorVars == <<monitored, commands, recent>>
vars == <<config, available, monitorVars, edits>>

Members(c) == UNION {ToSet(c.clusters[k].hosts) : k \in DOMAIN c.clusters}
Objects(c) == {c.hosts[h].data : h \in DOMAIN c.hosts} \cup {m.data : m \in Members(c)}
MonitoredObjects == {monitored[h].data : h \in DOMAIN monitored}
IsAvailable(host) == host.data \in available

\* What may be loaded from a document; the same memory serves for every task of it.
Loaded(doc) == {Load(doc, mean) : mean \in Uninitialized}
Configs == UNION {Loaded(doc) : doc \in Documents}

\* A new HostData is available.
Activated(new, unavailable) ==
  /\ config' = new
  /\ available' = Objects(new) \ {new.hosts[h].data : h \in unavailable \cap DOMAIN new.hosts}
  /\ monitored' = new.hosts
  /\ recent' = {}

Init ==
  \E new \in Configs :
    /\ config = new
    /\ available = Objects(new)
    /\ monitored = new.hosts
    /\ commands = [h \in HostIds |-> 0]
    /\ recent = {}
    /\ edits = 0

-----------------------------------------------------------------------------
(* Activation.                                                              *)

\* copyLiveAttributesFromOldHosts()
Unavailable == {h \in DOMAIN config.hosts : ~IsAvailable(config.hosts[h])}

ActivateConfig ==
  /\ \E new \in Configs : Activated(new, Unavailable)
  /\ edits' = 0
  /\ UNCHANGED commands

\* The configuration is written, and what is written is activated.
SaveAndReload ==
  /\ \E new \in Loaded(Write(config)) : Activated(new, Unavailable)
  /\ UNCHANGED <<commands, edits>>

-----------------------------------------------------------------------------
(* Edits.                                                                   *)

\* An id of a changed item is not that of another one.
IsFree(items, old, new) == new # NoId /\ (new = old \/ new \notin DOMAIN items)

\* changeItem(): the item takes the place of the old one.
ChangeItem(items, old, new) == Override(Drop(items, old), [x \in {new.id} |-> new])

\* Tasks whose target was the old id get the new one, none when it is deleted.
Retargeted(tasks, old, new) ==
  [t \in DOMAIN tasks |->
    IF tasks[t].attrs.target = old THEN [tasks[t] EXCEPT !.attrs.target = new] ELSE tasks[t]]

\* In every cluster the first copy of the old host is replaced, or removed.
Replaced(clusters, old, hosts) ==
  [k \in DOMAIN clusters |->
    LET members == clusters[k].hosts
        is == {i \in DOMAIN members : members[i].id = old}
    IN IF is = {} THEN clusters[k]
       ELSE [clusters[k] EXCEPT !.hosts = SubSeq(@, 1, Min(is) - 1) \o hosts
                                          \o SubSeq(@, Min(is) + 1, Len(@))]]

\* An object that nothing holds.
FreshObject ==
  LET held == Objects(config) \cup MonitoredObjects
  IN Min(1..(Cardinality(held) + 1) \ held)

\* An edit keeps the availability of the objects that are still held.
Keeping(objects) == available' = objects \cap (Objects(config') \cup MonitoredObjects)

\* Host::setUiData() detaches the data of the host, with its availability.
EditHost(old, new) ==
  LET host == [config.hosts[old] EXCEPT !.id = new, !.data = FreshObject]
  IN /\ IsFree(config.hosts, old, new)
     /\ new \notin DOMAIN config.clusters
     /\ config' = [config EXCEPT
          !.hosts = ChangeItem(@, old, host),
          !.tasks = Retargeted(@, old, new),
          !.clusters = Replaced(@, old, <<host>>)]
     /\ Keeping(IF IsAvailable(config.hosts[old]) THEN available \cup {host.data}
                ELSE available \ {host.data})

CreateHost(new) ==
  /\ new \notin DOMAIN config.hosts \cup DOMAIN config.clusters
  /\ config' = [config EXCEPT
       !.hosts = Override(@, [h \in {new} |-> Host(HostNode(new), FreshObject)])]
  /\ Keeping(available \cup {FreshObject})

DeleteHost(old) ==
  /\ config' = [config EXCEPT
       !.hosts = Drop(@, old), !.tasks = Retargeted(@, old, NoId),
       !.clusters = Replaced(@, old, <<>>)]
  /\ Keeping(available)

EditCluster(old, new) ==
  /\ IsFree(config.clusters, old, new)
  /\ new \notin DOMAIN config.hosts
  /\ config' = [config EXCEPT
       !.clusters = ChangeItem(@, old, [config.clusters[old] EXCEPT !.id = new]),
       !.tasks = Retargeted(@, old, new)]
  /\ Keeping(available)

CreateCluster(new) ==
  /\ new \notin DOMAIN config.hosts \cup DOMAIN config.clusters
  /\ config' = [config EXCEPT
       !.clusters = Override(@, [k \in {new} |->
         [id |-> new, balancing |-> "roundrobin", hosts |-> <<>>]])]
  /\ Keeping(available)

DeleteCluster(old) ==
  /\ config' = [config EXCEPT !.clusters = Drop(@, old), !.tasks = Retargeted(@, old, NoId)]
  /\ Keeping(available)

\* setTaskGroup()
Moved(task, group) == [task EXCEPT !.group = group, !.id = Append(group, @[Len(@)])]

\* Mutant: the tasks of a renamed group stay where they are.
MovedNowhere(tasks, old, new) == tasks

\* The tasks of a renamed group follow it.
MovedTasks(tasks, old, new) ==
  LET moved(t) == IF tasks[t].group = old THEN Moved(tasks[t], new) ELSE tasks[t]
  IN [id \in {moved(t).id : t \in DOMAIN tasks} |->
       moved(CHOOSE t \in DOMAIN tasks : moved(t).id = id)]

\* The new id of a group is an unqualified one, or a parent for the old one.
NewGroupIds(old) ==
  {LocalId(g) : g \in GroupIds} \cup {Append(g, Last(old)) : g \in GroupIds}

EditGroup(old, new) ==
  LET tasks == MovedTasks(config.tasks, old, new)
  IN /\ IsFree(config.taskgroups, old, new)
     /\ Cardinality(DOMAIN tasks) = Cardinality(DOMAIN config.tasks)
     /\ config' = [config EXCEPT
          !.taskgroups = ChangeItem(@, old, [config.taskgroups[old] EXCEPT !.id = new]),
          !.tasks = tasks]
     /\ Keeping(available)

CreateGroup(new) ==
  /\ new \notin DOMAIN config.taskgroups
  /\ config' = [config EXCEPT
       !.taskgroups = Override(@, [g \in {new} |->
         [id |-> new, parent |-> NoId, subs |-> NoSubscription]])]
  /\ Keeping(available)

\* The foreign key of tasks cascades.
DeleteGroup(old) ==
  LET kept == {t \in DOMAIN config.tasks : config.tasks[t].group # old}
  IN /\ config' = [config EXCEPT !.taskgroups = Drop(@, old),
                                 !.tasks = [t \in kept |-> config.tasks[t]]]
     /\ Keeping(available)

ChangeTask(old, new) ==
  /\ IsFree(config.tasks, old, new.id)
  /\ config' = [config EXCEPT !.tasks = ChangeItem(@, old, new)]
  /\ Keeping(available)

RenameTask(old, name) ==
  LET task == config.tasks[old]
  IN ChangeTask(old, [task EXCEPT !.id = task.group \o LocalId(name), !.localId = LocalId(name)])
MoveTask(old, group) ==
  /\ group \in DOMAIN config.taskgroups
  /\ ChangeTask(old, Moved(config.tasks[old], group))
SetMean(old, mean) ==
  /\ mean \in Means
  /\ ChangeTask(old, [config.tasks[old] EXCEPT !.attrs.mean = mean])
SetResources(old, resources) ==
  ChangeTask(old, [config.tasks[old] EXCEPT !.resources = resources])
DeleteTask(old) ==
  /\ config' = [config EXCEPT !.tasks = Drop(@, old)]
  /\ Keeping(available)

EditHosts ==
  \/ \E new \in HostIds : CreateHost(new)
  \/ \E old \in DOMAIN config.hosts : DeleteHost(old) \/ \E new \in HostIds : EditHost(old, new)
EditClusters ==
  \/ \E new \in HostIds : CreateCluster(new)
  \/ \E old \in DOMAIN config.clusters :
       DeleteCluster(old) \/ \E new \in HostIds : EditCluster(old, new)
EditGroups ==
  \/ \E new \in GroupIds : CreateGroup(new)
  \/ \E old \in DOMAIN config.taskgroups :
       DeleteGroup(old) \/ \E new \in NewGroupIds(old) : EditGroup(old, new)
EditTasks ==
  \E old \in DOMAIN config.tasks :
    \/ \E name \in TaskIds : RenameTask(old, name)
    \/ \E group \in GroupIds : MoveTask(old, group)
    \/ SetMean(old, "ssh")
    \/ SetResources(old, [k \in {<<"memory">>} |-> 2])
    \/ DeleteTask(old)

\* A change of the document: the host monitor is not told.
Edit ==
  /\ edits < MaxEdits
  /\ edits' = edits + 1
  /\ EditHosts \/ EditClusters \/ EditGroups \/ EditTasks
  /\ UNCHANGED monitorVars

-----------------------------------------------------------------------------
(* The host monitor.                                                        *)

ToBeChecked == {h \in DOMAIN monitored : monitored[h].check /\ h \notin recent}

AsyncProcessing ==
  /\ ToBeChecked # {}
  /\ \A h \in ToBeChecked : commands[h] < MaxCommands
  /\ commands' = [h \in HostIds |-> IF h \in ToBeChecked THEN commands[h] + 1 ELSE commands[h]]
  /\ recent' = recent \cup ToBeChecked
  /\ UNCHANGED <<config, available, monitored, edits>>

\* The result of a check is for the host that has that id now, if any.
Checked(h, success) ==
  /\ recent' = recent \cup {h}
  /\ available' = IF h \notin DOMAIN monitored THEN available
                  ELSE IF success THEN available \cup {monitored[h].data}
                  ELSE available \ {monitored[h].data}
  /\ UNCHANGED <<config, monitored, edits>>

ProcessFinished(h, success) ==
  /\ commands[h] > 0
  /\ commands' = [commands EXCEPT ![h] = @ - 1]
  /\ Checked(h, success)

\* A command that cannot start, crashes, or is killed after the timeout signals an
\* error; its end, when it is signaled too, is processed as the same failure again.
ProcessError(h) ==
  /\ commands[h] > 0
  /\ commands' = [commands EXCEPT ![h] = @ - 1]
  /\ Checked(h, FALSE)

\* The check interval of a host elapses.
Elapse(h) ==
  /\ h \in recent
  /\ recent' = recent \ {h}
  /\ UNCHANGED <<config, available, monitored, commands, edits>>

Monitor ==
  \/ AsyncProcessing
  \/ \E h \in HostIds :
       \/ \E success \in BOOLEAN : ProcessFinished(h, success)
       \/ ProcessError(h)
       \/ Elapse(h)

Next ==
  \/ ActivateConfig
  \/ SaveAndReload
  \/ Edit
  \/ Monitor

Spec == Init /\ [][Next]_vars
=============================================================================
