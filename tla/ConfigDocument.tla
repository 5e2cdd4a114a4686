---------------------------- MODULE ConfigDocument ----------------------------
(***************************************************************************)
(* Reading a configuration from a document and writing it back.            *)
(*                                                                         *)
(* A document is the tree of nodes a configuration file is parsed into, a  *)
(* record with one field for each kind of node.  An id is the sequence of  *)
(* the names between its dots.  Attributes whose values nothing depends on *)
(* (labels, parameters, durations) are left out, or stand for their like.  *)
(***************************************************************************)
EXTENDS Integers, SequencesExt

NoId == <<>>
Localhost == <<"localhost">>

IsSequence(s) == s \in Seq(ToSet(s))

\* What is read of a document: nodes one after the other, and ids that are made of
\* names, one for a task in its group.
IsDocument(doc) ==
  /\ \A nodes \in {doc.hosts, doc.clusters, doc.taskgroups, doc.tasks} : IsSequence(nodes)
  /\ \A i \in DOMAIN doc.clusters : IsSequence(doc.clusters[i].hosts)
  /\ \A i \in DOMAIN doc.taskgroups : IsSequence(doc.taskgroups[i].id)
  /\ \A i \in DOMAIN doc.tasks : IsSequence(doc.tasks[i].id) /\ Len(doc.tasks[i].id) = 1

\* An unqualified id is made of one name: a dot in it is removed.
LocalId(id) == IF id = NoId THEN NoId ELSE <<FoldLeft(LAMBDA x, y : x \o y, "", id)>>

\* Items by id, where the first of those that share one is kept, or the last one.
Ids(items) == {items[i].id : i \in DOMAIN items}
FirstOf(items) ==
  [id \in Ids(items) |-> items[Min({i \in DOMAIN items : items[i].id = id})]]
LastOf(items) ==
  [id \in Ids(items) |-> items[Max({i \in DOMAIN items : items[i].id = id})]]

Override(f, g) == [x \in DOMAIN f \cup DOMAIN g |-> IF x \in DOMAIN g THEN g[x] ELSE f[x]]
Drop(f, x) == [y \in DOMAIN f \ {x} |-> f[y]]

-----------------------------------------------------------------------------
(* Event subscriptions: a list for each event, where onfinish subscribes to *)
(* success and to failure.                                                  *)

TaskEvents ==
  <<"onplan", "onstart", "onsuccess", "onfailure", "onstderr", "onstdout", "onnostderr">>
GlobalEvents == <<"onlog", "onnotice", "onschedulerstart", "onconfigload">>

Listed(subs, event) ==
  SelectSeq(subs, LAMBDA s : s.event = event)
  \o IF event \in {"onsuccess", "onfailure"}
     THEN SelectSeq(subs, LAMBDA s : s.event = "onfinish") ELSE <<>>

NoSubscription == [e \in ToSet(TaskEvents) |-> <<>>]
Subscribed(lists, subs) == [e \in DOMAIN lists |-> lists[e] \o Listed(subs, e)]

\* Mutant: those to onfinish are written twice.
WrittenEventsTwice(lists, events) ==
  FlattenSeq([i \in DOMAIN events |->
    SelectSeq(lists[events[i]], LAMBDA s : s.actions # <<>>)])

\* Subscriptions without an action are not written, nor twice those to onfinish.
WrittenEvents(lists, events) ==
  FlattenSeq([i \in DOMAIN events |->
    SelectSeq(lists[events[i]],
              LAMBDA s : s.actions # <<>> /\ ~(events[i] = "onfailure" /\ s.event = "onfinish"))])

AllSubscriptions(lists) == FlattenSeq([i \in DOMAIN TaskEvents |-> lists[TaskEvents[i]]])

-----------------------------------------------------------------------------
(* Hosts and clusters.  Copies of a host share its data, an object that is  *)
(* changed in place for its availability only: data names that object.      *)

\* The kind of the resource that bounds how many instances of a task a host runs.
MaxPerHost(id) == <<"<maxperhost>">> \o id
IsMaxPerHost(kind) == Head(kind) = "<maxperhost>"

ResourcesSet(resources) ==
  [kind \in {k \in DOMAIN resources : resources[k] >= 0} |-> resources[kind]]

Host(node, data) ==
  [id |-> node.id, hostname |-> node.hostname, check |-> node.check,
   resources |-> ResourcesSet(node.resources), data |-> data]
HostNode(id) == [id |-> id, hostname |-> "", check |-> FALSE, resources |-> [k \in {} |-> 0]]

LoadedHosts(nodes) ==
  LET declared == [i \in DOMAIN nodes |-> Host(nodes[i], i)]
  IN FirstOf(IF Localhost \in Ids(nodes) THEN declared
             ELSE Append(declared, Host(HostNode(Localhost), Len(nodes) + 1)))

Balancings == {"first", "roundrobin", "random"}
NullCluster == [id |-> NoId, balancing |-> "unknown", hosts |-> <<>>]

\* Hosts that are not declared are skipped.
Declared(ids, hosts) ==
  LET appended[i \in 0..Len(ids)] ==
        IF i = 0 THEN <<>>
        ELSE IF ids[i] \in DOMAIN hosts THEN Append(appended[i - 1], hosts[ids[i]])
        ELSE appended[i - 1]
  IN appended[Len(ids)]

\* A cluster with an unknown balancing is null.
LoadedCluster(node, hosts) ==
  IF node.balancing \notin Balancings THEN NullCluster
  ELSE [id |-> node.id, balancing |-> node.balancing, hosts |-> Declared(node.hosts, hosts)]

LoadedClusters(nodes, hosts) ==
  LET clusters == [i \in DOMAIN nodes |-> LoadedCluster(nodes[i], hosts)]
  IN FirstOf(RestrictValues(clusters, LAMBDA c : c.id \notin DOMAIN hosts))

WrittenHost(host) ==
  [id |-> host.id, hostname |-> IF <<host.hostname>> = host.id THEN "" ELSE host.hostname,
   check |-> host.check,
   resources |-> [k \in {k \in DOMAIN host.resources : ~IsMaxPerHost(k)} |-> host.resources[k]]]

WrittenCluster(cluster) ==
  [id |-> cluster.id, balancing |-> cluster.balancing,
   hosts |-> [i \in DOMAIN cluster.hosts |-> cluster.hosts[i].id]]

-----------------------------------------------------------------------------
(* Task groups.                                                             *)

ParentGroupId(id) == IF id = NoId THEN NoId ELSE Front(id)

\* Nodes are sorted, so that a group comes after its parent.
LoadedGroups(nodes) ==
  LET named == FirstOf(RestrictValues(nodes, LAMBDA n : n.id # NoId))
  IN [id \in DOMAIN named |->
       [id |-> id,
        parent |-> IF ParentGroupId(id) \in DOMAIN named THEN ParentGroupId(id) ELSE NoId,
        subs |-> Subscribed(NoSubscription, named[id].subs)]]

WrittenGroup(group) == [id |-> group.id, subs |-> WrittenEvents(group.subs, TaskEvents)]

-----------------------------------------------------------------------------
(* Tasks and templates.                                                     *)

TargetlessMeans == {"local", "background", "donothing", "docker", "scatter"}
Means == TargetlessMeans \cup {"ssh", "http"}
Policies == {"allsuccess", "nofailure", "onesuccess", "ownstatus", "nowait"}

\* The attributes of a task that has none.
Default ==
  [mean |-> "", target |-> NoId, command |-> "", statuscommand |-> "", abortcommand |-> "",
   info |-> <<>>, maxinstances |-> 1, maxtries |-> 1, maxperhost |-> 0,
   pausebetweentries |-> 0, maxqueuedinstances |-> "%!maxinstances",
   deduplicatecriterion |-> "", herdingpolicy |-> "allsuccess"]

\* Attributes that make the task invalid when they are.
AreValid(attrs) ==
  /\ "mean" \in DOMAIN attrs => attrs.mean \in Means
  /\ "herdingpolicy" \in DOMAIN attrs => attrs.herdingpolicy \in Policies
  /\ \A a \in {"maxinstances", "maxtries", "maxperhost"} \cap DOMAIN attrs : attrs[a] > 0
IsValid(node) ==
  /\ AreValid(node.attrs)
  /\ node.requestforms <= 1
  /\ \A i \in DOMAIN node.triggers :
       node.triggers[i].type \in {"cron", "notice"} => node.triggers[i].expression # ""

\* The templates of a task are loaded into it one after the other, then its own
\* node: an attribute overrides, info, triggers and subscriptions add up.  The mean is
\* not initialized: mean is what the memory happens to hold.
NewData(mean) ==
  [attrs |-> [Default EXCEPT !.mean = mean], resources |-> [k \in {} |-> 0], triggers |-> <<>>,
   subs |-> NoSubscription]
LoadAttributes(attrs, node) ==
  [Override(attrs, node) EXCEPT !.info = IF "info" \in DOMAIN node THEN attrs.info \o @ ELSE @]
LoadConfig(d, node, id) ==
  LET attrs == LoadAttributes(d.attrs, node.attrs)
      resources == Override(d.resources, ResourcesSet(node.resources))
  IN [attrs |-> attrs,
      resources |-> IF attrs.maxperhost > 0
                    THEN Override(resources, [k \in {MaxPerHost(id)} |-> 1]) ELSE resources,
      triggers |-> d.triggers
                   \o SelectSeq(node.triggers, LAMBDA t : t.type \in {"cron", "notice"}),
      subs |-> Subscribed(d.subs, node.subs)]

LoadedTemplates(nodes) == FirstOf(RestrictValues(nodes, IsValid))

Nodes(node, templates) ==
  LET applied == SelectSeq(node.apply, LAMBDA t : t \in DOMAIN templates)
  IN Append([i \in DOMAIN applied |-> templates[applied[i]]], node)

WithImplicits(attrs) ==
  LET mean == IF attrs.mean = "" THEN "local" ELSE attrs.mean
      target == IF attrs.target = NoId /\ mean \in TargetlessMeans THEN Localhost
                ELSE attrs.target
  IN Override(attrs, [mean |-> mean, target |-> target])

\* A task, whose otherTriggers are set once all the tasks are known.
LoadedTask(node, templates, mean) ==
  LET id == node.taskgroup \o node.id
      d == FoldLeft(LAMBDA x, n : LoadConfig(x, n, id), NewData(mean), Nodes(node, templates))
  IN [id |-> id, localId |-> node.id, group |-> node.taskgroup,
      apply |-> SelectSeq(node.apply, LAMBDA t : t \in DOMAIN templates),
      attrs |-> WithImplicits(d.attrs), resources |-> d.resources, triggers |-> d.triggers,
      subs |-> d.subs, otherTriggers |-> {}]

LoadedTasks(nodes, groups, templates, mean) ==
  LET valid == RestrictValues(nodes, LAMBDA n : n.taskgroup \in DOMAIN groups /\ IsValid(n))
  IN FirstOf([i \in DOMAIN valid |-> LoadedTask(valid[i], templates, mean)])

\* The group of the task and the target of a targetless mean are not written, the
\* abort command is written as the status command, and the subscriptions twice.
WrittenAttributes(attrs) ==
  LET aborts == attrs.abortcommand # ""
      left == {"abortcommand"}
              \cup (IF attrs.mean \in TargetlessMeans \/ attrs.target = Localhost
                    THEN {"target"} ELSE {})
              \cup (IF attrs.mean = "donothing" THEN {"command"} ELSE {})
      kept == {a \in DOMAIN attrs : attrs[a] # Default[a]} \ left
  IN [a \in kept \cup (IF aborts THEN {"statuscommand"} ELSE {}) |->
       IF a = "statuscommand" /\ aborts THEN attrs.abortcommand ELSE attrs[a]]

WrittenTask(task) ==
  LET subs == WrittenEvents(task.subs, TaskEvents)
  IN [id |-> task.localId, taskgroup |-> NoId, apply |-> task.apply,
      attrs |-> WrittenAttributes(task.attrs),
      resources |-> [k \in {k \in DOMAIN task.resources : ~IsMaxPerHost(k)} |-> task.resources[k]],
      triggers |-> task.triggers, subs |-> subs \o subs, requestforms |-> 0]

-----------------------------------------------------------------------------
(* The tasks that the actions of groups, tasks and global events request.   *)

Links(subs, context, task) ==
  UNION {{[target |-> a.target, event |-> subs[i].event, context |-> context, task |-> task]
            : a \in {b \in ToSet(subs[i].actions) : b.type = "plantask"}}
          : i \in DOMAIN subs}

\* A name without a dot is that of a task of the same group.
Target(link) ==
  IF link.task # NoId /\ Len(link.target) = 1 THEN Front(link.task) \o link.target ELSE link.target

RootLinks(subs) ==
  Links(SelectSeq(subs, LAMBDA s : s.event \in {"onstart", "onsuccess", "onfailure", "onfinish"}
                                               \cup ToSet(GlobalEvents)),
        <<"*">>, NoId)

AllLinks(subs, groups, tasks) ==
  UNION {Links(AllSubscriptions(groups[g].subs), Append(g, "*"), NoId) : g \in DOMAIN groups}
  \cup UNION {Links(AllSubscriptions(tasks[t].subs), t, t) : t \in DOMAIN tasks}
  \cup RootLinks(subs)

OtherTriggers(tasks, links) ==
  [id \in DOMAIN tasks |->
    [tasks[id] EXCEPT !.otherTriggers =
      {<<l.event, l.context>> : l \in {x \in links : Target(x) = id}}]]

-----------------------------------------------------------------------------
(* The whole configuration.                                                 *)

DefaultMaxTotal == 16
DefaultMaxQueued == 128

\* The last positive number.
Limit(numbers, default) ==
  LET positive == SelectSeq(numbers, LAMBDA n : n > 0)
  IN IF positive = <<>> THEN default ELSE Last(positive)

Limited(tasks) == {id \in DOMAIN tasks : tasks[id].attrs.maxperhost > 0}

\* Every host offers what bounds the instances of every task: set_resource()
\* detaches its data from that of its copies in the clusters.
LimitedHosts(hosts, tasks) ==
  LET offer(h) == [k \in {MaxPerHost(t) : t \in Limited(tasks)} |->
                    tasks[CHOOSE t \in Limited(tasks) : MaxPerHost(t) = k].attrs.maxperhost]
      detached(h) == IF Limited(tasks) = {} THEN hosts[h].data ELSE - hosts[h].data
  IN [h \in DOMAIN hosts |->
       [hosts[h] EXCEPT !.resources = Override(@, offer(h)), !.data = detached(h)]]

Load(doc, mean) ==
  LET hosts == LoadedHosts(doc.hosts)
      groups == LoadedGroups(doc.taskgroups)
      templates == LoadedTemplates(doc.templates)
      tasks == LoadedTasks(doc.tasks, groups, templates, mean)
  IN [root |-> Subscribed(NoSubscription, doc.subs),
      events |-> [e \in ToSet(GlobalEvents) |-> Listed(doc.subs, e)],
      calendars |-> LastOf(RestrictValues(doc.calendars, LAMBDA c : c.id # "" /\ c.rules # <<>>)),
      hosts |-> LimitedHosts(hosts, tasks),
      clusters |-> LoadedClusters(doc.clusters, hosts),
      taskgroups |-> groups,
      templates |-> templates,
      tasks |-> OtherTriggers(tasks, AllLinks(doc.subs, groups, tasks)),
      maxtotaltaskinstances |-> Limit(doc.maxtotaltaskinstances, DefaultMaxTotal),
      maxqueuedrequests |-> Limit(doc.maxqueuedrequests, DefaultMaxQueued),
      alerts |-> IF doc.alerts = <<>> THEN "" ELSE Head(doc.alerts)]

WrittenLimit(n, default) == IF n = default THEN <<>> ELSE <<n>>
Values(f) == SetToSeq({f[x] : x \in DOMAIN f})
Written(items, Write(_)) == LET values == Values(items) IN [i \in DOMAIN values |-> Write(values[i])]

\* toPfNode(): neither the templates nor the planning subscriptions of the root are
\* written.
Write(config) ==
  [subs |-> WrittenEvents(config.root, <<"onstart", "onsuccess", "onfailure">>)
            \o WrittenEvents(config.events, GlobalEvents),
   calendars |-> Values(config.calendars),
   hosts |-> Written(config.hosts, WrittenHost),
   clusters |-> Written(Drop(config.clusters, NoId), WrittenCluster),
   taskgroups |-> Written(config.taskgroups, WrittenGroup),
   templates |-> <<>>,
   tasks |-> Written(config.tasks, WrittenTask),
   maxtotaltaskinstances |-> WrittenLimit(config.maxtotaltaskinstances, DefaultMaxTotal),
   maxqueuedrequests |-> WrittenLimit(config.maxqueuedrequests, DefaultMaxQueued),
   alerts |-> <<config.alerts>>]
=============================================================================
