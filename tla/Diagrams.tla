------------------------------- MODULE Diagrams -------------------------------
(***************************************************************************)
(* The diagrams of a configuration: where tasks are deployed, what         *)
(* triggers them and the resources they need.  A diagram is a set of nodes *)
(* and a set of edges between two of them; hosts, clusters, groups and     *)
(* tasks are named by their ids, other nodes by a prefixed name.           *)
(***************************************************************************)
EXTENDS ConfigDocument

Tasks(config) == {config.tasks[t] : t \in DOMAIN config.tasks}

\* The group and those that contain it, whether they are declared or not.
GroupAndParents(group) == {SubSeq(group, 1, n) : n \in 1..Len(group)}

DisplayedGroups(tasks) == UNION {GroupAndParents(task.group) : task \in tasks}

DisplayedHosts(config) ==
  ({task.attrs.target : task \in Tasks(config)} \ {NoId})
  \cup UNION {{m.id : m \in ToSet(config.clusters[k].hosts)} : k \in DOMAIN config.clusters}

Resource(kind) == <<"resource__">> \o kind
Notice(name) == <<"$notice_">> \o name
Global(event) == <<"$global_", event>>

GroupEdges(groups) == {<<Front(g), g>> : g \in {h \in groups : Len(h) > 1 /\ Front(h) \in groups}}
GroupTaskEdges(tasks) == {<<task.group, task.id>> : task \in tasks}

-----------------------------------------------------------------------------

TasksDeployment(config) ==
  LET tasks == Tasks(config)
      groups == DisplayedGroups(tasks)
      hosts == DisplayedHosts(config) \cap DOMAIN config.hosts
      clusters == DOMAIN config.clusters \ {NoId}
  IN [nodes |-> hosts \cup clusters \cup groups \cup {task.id : task \in tasks},
      edges |-> UNION {{<<k, m.id>> : m \in ToSet(config.clusters[k].hosts)} : k \in clusters}
                \cup GroupEdges(groups) \cup GroupTaskEdges(tasks)
                \cup {<<task.id, task.attrs.target>> : task \in tasks}]

-----------------------------------------------------------------------------

SchedulerEvents == <<"onnotice", "onschedulerstart", "onconfigload">>
SchedulerSubscriptions(config) ==
  FlattenSeq([i \in DOMAIN SchedulerEvents |-> config.events[SchedulerEvents[i]]])

\* What may plan or notify when something occurs to the task.
SubscriptionsOf(config, task) ==
  ToSet(AllSubscriptions(config.root)) \cup ToSet(config.events["onlog"])
  \cup ToSet(AllSubscriptions([task.subs EXCEPT !.onnostderr = <<>>]))
  \cup ToSet(AllSubscriptions([config.taskgroups[task.group].subs EXCEPT !.onnostderr = <<>>]))

Actions(subs, type) == UNION {{a \in ToSet(s.actions) : a.type = type} : s \in subs}

Notices(config) ==
  UNION {{a.target : a \in Actions(SubscriptionsOf(config, task), "postnotice")}
         \cup {<<t.expression>> : t \in {u \in ToSet(task.triggers) : u.type = "notice"}}
           : task \in Tasks(config)}
  \cup {a.target : a \in Actions(ToSet(SchedulerSubscriptions(config)), "postnotice")}

DisplayedGlobalEvents(config) ==
  {s.event : s \in {x \in ToSet(SchedulerSubscriptions(config)) :
     Actions({x}, "postnotice") \cup Actions({x}, "plantask") # {}}}

Cron(task, i) == <<"$cron_", i>> \o task.id
NoTrigger(task) == <<"$notrigger_">> \o task.id

TriggerEdges(task) ==
  {<<task.id, IF task.triggers[i].type = "cron" THEN Cron(task, i)
              ELSE Notice(<<task.triggers[i].expression>>)>> : i \in DOMAIN task.triggers}
  \cup (IF task.triggers = <<>> /\ task.otherTriggers = {}
        THEN {<<task.id, NoTrigger(task)>>} ELSE {})

\* Mutant: names without a dot are not looked for in the group of the task.
PlanEdgesOfFullNames(config, task) ==
  {<<task.id, a.target>> : a \in
     {x \in Actions(SubscriptionsOf(config, task), "plantask") : x.target \in DOMAIN config.tasks}}

\* A name without a dot is that of a task of the same group; the target may not exist.
PlanEdges(config, task) ==
  LET targets == {IF Len(a.target) = 1 THEN task.group \o a.target ELSE a.target
                    : a \in Actions(SubscriptionsOf(config, task), "plantask")}
  IN {<<task.id, t>> : t \in targets \cap DOMAIN config.tasks}
NoticeEdges(config, task) ==
  {<<task.id, Notice(a.target)>> : a \in Actions(SubscriptionsOf(config, task), "postnotice")}

GlobalEdges(config) ==
  UNION {{<<Notice(a.target), Global(s.event)>> : a \in Actions({s}, "postnotice")}
         \cup {<<a.target, Global(s.event)>> : a \in
                 {x \in Actions({s}, "plantask") : x.target \in DOMAIN config.tasks}}
           : s \in ToSet(SchedulerSubscriptions(config))}

TasksTrigger(config) ==
  LET tasks == Tasks(config)
      groups == DisplayedGroups(tasks)
      triggers == UNION {TriggerEdges(task) : task \in tasks}
  IN [nodes |-> {Global(e) : e \in DisplayedGlobalEvents(config)}
                \cup {Notice(n) : n \in Notices(config)}
                \cup groups \cup {task.id : task \in tasks}
                \cup UNION {{Cron(task, i) : i \in
                               {j \in DOMAIN task.triggers : task.triggers[j].type = "cron"}}
                              : task \in tasks}
                \cup {NoTrigger(task) : task \in
                        {t \in tasks : <<t.id, NoTrigger(t)>> \in TriggerEdges(t)}},
      edges |-> GroupEdges(groups) \cup GroupTaskEdges(tasks) \cup triggers
                \cup UNION {PlanEdges(config, task) \cup NoticeEdges(config, task) : task \in tasks}
                \cup GlobalEdges(config)]

-----------------------------------------------------------------------------

TasksResourcesHosts(config) ==
  LET tasks == {task \in Tasks(config) : DOMAIN task.resources # {}}
      groups == DisplayedGroups(tasks)
      offers == {h \in DOMAIN config.hosts : DOMAIN config.hosts[h].resources # {}}
      needed == UNION {DOMAIN task.resources : task \in tasks}
      offered == UNION {DOMAIN config.hosts[h].resources : h \in offers}
  IN [nodes |-> {Resource(k) : k \in needed \cup offered} \cup offers
                \cup groups \cup {task.id : task \in tasks},
      edges |-> UNION {{<<Resource(k), h>> : k \in DOMAIN config.hosts[h].resources} : h \in offers}
                \cup GroupEdges(groups) \cup GroupTaskEdges(tasks)
                \cup UNION {{<<task.id, Resource(k)>> : k \in DOMAIN task.resources} : task \in tasks}]

ConfigDiagrams(config) ==
  {TasksDeployment(config), TasksTrigger(config), TasksResourcesHosts(config)}
=============================================================================
