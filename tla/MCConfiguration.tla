---------------------------- MODULE MCConfiguration ----------------------------
(* Small documents for the configuration.                                     *)
EXTENDS ConfigurationProperties

None == [k \in {} |-> 0]
Of(kind, n) == [k \in {kind} |-> n]
Plan(target) == [type |-> "plantask", target |-> target]
Post(notice) == [type |-> "postnotice", target |-> notice]
On(event, action) == [event |-> event, actions |-> <<action>>]

HostDoc(id, check, resources) ==
  [id |-> id, hostname |-> "", check |-> check, resources |-> resources]
GroupDoc(id, subs) == [id |-> id, subs |-> subs]
TaskDoc(id, group, apply, attrs, resources, triggers, subs) ==
  [id |-> id, taskgroup |-> group, apply |-> apply, attrs |-> attrs, resources |-> resources,
   triggers |-> triggers, subs |-> subs, requestforms |-> 0]

H1 == <<"h1">>
H2 == <<"h2">>
K == <<"k">>
App == <<"app">>
Db == <<"app", "db">>
A == <<"a">>
B == <<"b">>

Base ==
  [subs |-> <<On("onfinish", Post(<<"end">>)), On("onnotice", Plan(App \o A)),
              On("onconfigload", Post(<<"end">>))>>,
   calendars |-> <<[id |-> "week", rules |-> <<"exclude">>]>>,
   hosts |-> <<HostDoc(H1, TRUE, Of(<<"memory">>, 2))>>,
   clusters |-> <<[id |-> K, balancing |-> "roundrobin", hosts |-> <<H1, Localhost, <<"ghost">>>>]>>,
   taskgroups |-> <<GroupDoc(App, <<On("onfailure", Plan(App \o A))>>),
                    GroupDoc(Db, <<On("onfinish", Post(<<"done">>))>>)>>,
   templates |-> <<TaskDoc(<<"t">>, NoId, <<>>, [x \in {"mean"} |-> "ssh"], None,
                           <<[type |-> "cron", expression |-> "c"]>>, <<>>)>>,
   tasks |-> <<TaskDoc(A, App, <<>>, [mean |-> "ssh", target |-> H1], None,
                       <<[type |-> "notice", expression |-> "done"]>>,
                       <<On("onsuccess", Plan(B))>>),
               TaskDoc(B, App, <<<<"t">>>>, [x \in {"target"} |-> K], Of(<<"memory">>, 1), <<>>,
                       <<On("onfinish", Plan(Db \o A))>>),
               TaskDoc(A, Db, <<>>, [mean |-> "ssh", target |-> <<"nowhere">>], None, <<>>, <<>>)>>,
   maxtotaltaskinstances |-> <<4, 0>>,
   maxqueuedrequests |-> <<>>,
   alerts |-> <<>>]

\* A task whose instances are bounded on every host, and a group that is not declared.
Bounding ==
  [Base EXCEPT !.tasks = <<TaskDoc(A, Db, <<>>, [x \in {"maxperhost"} |-> 1], None, <<>>, <<>>)>>,
               !.taskgroups = <<GroupDoc(Db, <<>>)>>]

AllDocuments == {Base, Bounding}
\* No mean, which is the same as local, or another one.
AnyMean == {"", "http"}
AllHostIds == {H1, H2, K}
AllGroupIds == {App, Db}
AllTaskIds == {A, B}

ASSUME ProofHypotheses == ListedOnce /\ TargetsDeclared
=============================================================================
