------------------------ MODULE ConfigurationProperties ------------------------
(***************************************************************************)
(* What holds of a configuration through activations, edits and health     *)
(* checks, and of the diagrams drawn from it.                              *)
(***************************************************************************)
EXTENDS Configuration, Diagrams

-----------------------------------------------------------------------------
(* References between the items of the configuration.                       *)

KeysAreIds(c) ==
  /\ \A h \in DOMAIN c.hosts : c.hosts[h].id = h
  /\ \A k \in DOMAIN c.clusters : c.clusters[k].id = k
  /\ \A g \in DOMAIN c.taskgroups : c.taskgroups[g].id = g
  /\ \A t \in DOMAIN c.tasks : c.tasks[t].id = t

TasksHaveGroups(c) ==
  \A t \in DOMAIN c.tasks :
    LET task == c.tasks[t]
    IN task.group \in DOMAIN c.taskgroups /\ task.id = task.group \o task.localId

TargetsExist(c) ==
  \A t \in DOMAIN c.tasks :
    c.tasks[t].attrs.target \in HostIds =>
      c.tasks[t].attrs.target \in DOMAIN c.hosts \cup DOMAIN c.clusters

\* The copy of a host in a cluster shares the data of the host, its availability
\* included, unless the host was changed to offer a <maxperhost> resource after the
\* clusters were loaded.
HostsAreShared(c) ==
  \A m \in Members(c) :
    /\ m.id \in DOMAIN c.hosts
    /\ \/ m.data = c.hosts[m.id].data
       \/ \E kind \in DOMAIN c.hosts[m.id].resources : IsMaxPerHost(kind)

\* An edit changes every item that refers to the one it changes: whatever is renamed
\* or deleted, every item is found by its own id, every task is in a group that exists
\* and is named after it, every target is a host or a cluster, never both, and the
\* hosts of the clusters are those of the configuration.
ReferencesHold ==
  /\ KeysAreIds(config)
  /\ TasksHaveGroups(config)
  /\ TargetsExist(config)
  /\ DOMAIN config.hosts \cap DOMAIN config.clusters = {}
  /\ HostsAreShared(config)

\* Hypotheses on documents: a cluster lists each host once, and the targets of
\* the tasks that are loaded are declared.
ListedOnce ==
  \A doc \in Documents : \A i \in DOMAIN doc.clusters : IsInjective(doc.clusters[i].hosts)
TargetsDeclared == \A new \in Configs : TargetsExist(new)

-----------------------------------------------------------------------------
(* Writing the configuration and reading it back.                           *)

OwnResources(host) ==
  [k \in {k \in DOMAIN host.resources : ~IsMaxPerHost(k)} |-> host.resources[k]]
\* Without its object, nor what the tasks loaded with it make it offer.
OwnHost(host) ==
  [id |-> host.id, check |-> host.check, resources |-> OwnResources(host),
   hostname |-> IF host.hostname = "" THEN host.id ELSE <<host.hostname>>]

MemberIds(cluster) ==
  [balancing |-> cluster.balancing,
   hosts |-> [i \in DOMAIN cluster.hosts |-> cluster.hosts[i].id]]

Acting(subs) == SelectSeq(subs, LAMBDA s : s.actions # <<>>)
Kept(lists) == [e \in DOMAIN lists \ {"onnostderr"} |-> Acting(lists[e])]

SameInfrastructure(old, new) ==
  /\ {OwnHost(old.hosts[h]) : h \in DOMAIN old.hosts}
     \cup {OwnHost(Host(HostNode(Localhost), 0))}
       = {OwnHost(new.hosts[h]) : h \in DOMAIN new.hosts}
         \cup {OwnHost(Host(HostNode(Localhost), 0))}
  /\ \A k \in DOMAIN old.clusters \ {NoId, Localhost} :
       k \in DOMAIN new.clusters /\ MemberIds(new.clusters[k]) = MemberIds(old.clusters[k])
  /\ \A g \in DOMAIN old.taskgroups :
       g # NoId =>
         g \in DOMAIN new.taskgroups
         /\ Kept(new.taskgroups[g].subs) = Kept(old.taskgroups[g].subs)

\* What is written is read back as it was: hosts, clusters, groups, the subscriptions
\* to global events and the limits, and nothing is subscribed to twice.  Tasks are not,
\* for they are written without their group, nor is a cluster named localhost, an id
\* that the host added when none has it takes.
WrittenIsReadBack ==
  [][SaveAndReload =>
      /\ SameInfrastructure(config, config')
      /\ \A e \in ToSet(GlobalEvents) : config'.events[e] = Acting(config.events[e])
      /\ config'.maxtotaltaskinstances = config.maxtotaltaskinstances
      /\ config'.maxqueuedrequests = config.maxqueuedrequests
      /\ config'.calendars = config.calendars
      /\ \A e \in {"onstart", "onsuccess", "onfailure"} :
           config'.root[e] = Acting(config.root[e])]_vars

-----------------------------------------------------------------------------
(* Diagrams.                                                                *)

IsTargetOf(node) == \E t \in DOMAIN config.tasks : config.tasks[t].attrs.target = node

\* Both ends of an edge are drawn, but the target of a task that is neither a host nor
\* a cluster.
EdgesJoinNodes ==
  \A diagram \in ConfigDiagrams(config) : \A edge \in diagram.edges :
    /\ edge[1] \in diagram.nodes
    /\ \/ edge[2] \in diagram.nodes
       \/ IsTargetOf(edge[2])
          /\ edge[2] \notin DOMAIN config.hosts \cup (DOMAIN config.clusters \ {NoId})

\* As loaded, the events of other tasks that plan a task are edges that lead to it.
TriggersAreShown ==
  edits = 0 =>
    \A t \in DOMAIN config.tasks : \A trigger \in config.tasks[t].otherTriggers :
      trigger[2] \in DOMAIN config.tasks /\ trigger[1] # "onnostderr" =>
        <<trigger[2], t>> \in TasksTrigger(config).edges

\* The diagrams agree with the configuration, however it was edited: an edge never
\* refers to what is not drawn, which would have no label, no shape and no link, and
\* what a task is told to be triggered by is drawn.
DiagramsAreFaithful == EdgesJoinNodes /\ TriggersAreShown
=============================================================================
