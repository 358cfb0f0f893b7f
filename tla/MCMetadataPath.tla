---------------------------- MODULE MCMetadataPath ----------------------------
(* Two namespaces with a pod, workloads of every kind, their claims, accounts *)
(* and roles; objects that only some plans have; and the plans.               *)
EXTENDS MetadataPath

O(kind, ns, name, labels, flags, refs) ==
    [kind |-> kind, ns |-> ns, name |-> name, labels |-> labels, selects |-> {}, flags |-> flags,
     replicas |-> 0, refs |-> refs]

Selecting(o, selects) == [o EXCEPT !.selects = selects]

R(via, kind, ns, name) == [via |-> via, kind |-> kind, ns |-> ns, name |-> <<name>>]

Claim(ns, name, labels, refs) == O("PVC", ns, name, labels, {}, refs)
Fast                          == [via |-> "class", kind |-> "SC", ns |-> "cluster", name |-> <<"fast">>]
NoClass                       == [Fast EXCEPT !.name = <<>>]
BoundTo(v)                    == R("bound", "PV", "cluster", v)
Volume(v, flags)              == O("PV", "cluster", <<v>>, {}, flags, {})
Content(ns, name) ==
    O("VBC", "cluster", <<"content">> \o name, {"backup"}, {},
      {[via |-> "content", kind |-> "PVC", ns |-> ns, name |-> name]})

Objects ==
    [n1   |-> O("Namespace", "cluster", <<"n1">>, {}, {}, {}),
     n2   |-> O("Namespace", "cluster", <<"n2">>, {}, {}, {}),
     pod  |-> O("Pod", "n1", <<"pod">>, {"app"}, {},
                {R("volume", "PVC", "n1", "data"), R("volume", "ConfigMap", "n1", "conf"),
                 R("account", "ServiceAccount", "n1", "runner"), R("env", "Secret", "n1", "key")}),
     rpod |-> O("Pod", "n1", <<"rpod">>, {"app"}, {"owned"}, {R("volume", "PVC", "n1", "web")}),
     dep  |-> Selecting(O("Deployment", "n1", <<"dep">>, {"web"}, {},
                {R("volume", "PVC", "n1", "web"), R("volume", "Secret", "n1", "key"),
                 R("account", "ServiceAccount", "n1", "default"), R("envFrom", "ConfigMap", "n1", "conf")}),
                {"app"}),
     rset |-> Selecting(O("ReplicaSet", "n1", <<"rset">>, {"web"}, {"owned"}, {R("volume", "PVC", "n1", "web")}),
                {"app"}),
     sts  |-> [Selecting(O("StatefulSet", "n1", <<"sts">>, {"db"}, {},
                {R("template", "Template", "n1", "t"), Fast, R("account", "ServiceAccount", "n1", "runner"),
                 R("volume", "ConfigMap", "n1", "conf")}), {"db"}) EXCEPT !.replicas = 2],
     data |-> Claim("n1", <<"data">>, {}, {Fast, BoundTo("v1"), R("source", "VolumeSnapshot", "n1", "snap")}),
     web  |-> Claim("n1", <<"web">>, {"web"}, {Fast, BoundTo("v2")}),
     t0   |-> Claim("n1", <<"t", "sts", "0">>, {"db"}, {Fast, BoundTo("v3")}),
     t1   |-> Claim("n1", <<"t", "sts", "1">>, {"db"}, {Fast, BoundTo("v4")}),
     idle |-> Claim("n1", <<"idle">>, {}, {Fast}),
     v1   |-> Volume("v1", {"csi"}),
     v2   |-> Volume("v2", {"csi"}),
     v3   |-> Volume("v3", {"csi"}),
     v4   |-> Volume("v4", {"csi"}),
     v5   |-> Volume("v5", {"csi"}),
     fast |-> O("SC", "cluster", <<"fast">>, {}, {}, {}),
     runner |-> O("ServiceAccount", "n1", <<"runner">>, {}, {}, {}),
     defacc |-> O("ServiceAccount", "n1", <<"default">>, {}, {}, {}),
     rb   |-> O("RoleBinding", "n1", <<"rb">>, {}, {},
                {R("subject", "ServiceAccount", "n1", "runner"), R("role", "Role", "n1", "reader")}),
     rbc  |-> O("RoleBinding", "n1", <<"rbc">>, {}, {},
                {R("subject", "ServiceAccount", "n1", "runner"), R("role", "ClusterRole", "cluster", "view")}),
     role |-> O("Role", "n1", <<"reader">>, {}, {}, {}),
     crb  |-> O("ClusterRoleBinding", "cluster", <<"crb">>, {}, {},
                {R("subject", "ServiceAccount", "n1", "runner"), R("role", "ClusterRole", "cluster", "view")}),
     boot |-> O("ClusterRoleBinding", "cluster", <<"boot">>, {}, {"bootstrap"},
                {R("subject", "ServiceAccount", "n1", "runner"), R("role", "ClusterRole", "cluster", "view")}),
     view |-> O("ClusterRole", "cluster", <<"view">>, {}, {}, {}),
     svc  |-> Selecting(O("Service", "n1", <<"svc">>, {}, {"clusterIP", "nodePort"}, {}), {"app"}),
     conf |-> O("ConfigMap", "n1", <<"conf">>, {}, {}, {}),
     key  |-> O("Secret", "n1", <<"key">>, {}, {}, {}),
     ep   |-> O("Endpoint", "n1", <<"svc">>, {}, {}, {}),
     ds   |-> Selecting(O("DaemonSet", "n2", <<"ds">>, {}, {}, {R("volume", "PVC", "n2", "logs")}), {"agent"}),
     rs   |-> Selecting(O("ReplicaSet", "n2", <<"rs">>, {}, {}, {}), {"old"}),
     logs |-> Claim("n2", <<"logs">>, {}, {Fast, BoundTo("v5")}),
     k8s  |-> O("Service", "n2", <<"kubernetes">>, {}, {"clusterIP", "headless"}, {}),
     \* Only in some plans.
     host |-> Claim("n2", <<"host">>, {}, {Fast, BoundTo("v6")}),
     v6   |-> Volume("v6", {}),
     bare |-> Claim("n2", <<"bare">>, {}, {NoClass, BoundTo("v7")}),
     v7   |-> Volume("v7", {"csi"}),
     lost |-> O("Pod", "n2", <<"lost">>, {}, {}, {R("volume", "ConfigMap", "n2", "none")}),
     odep |-> Selecting(O("Deployment", "n2", <<"odep">>, {}, {"owned"}, {R("volume", "PVC", "n2", "bare")}), {"x"}),
     late |-> Claim("n2", <<"late">>, {}, {Fast, BoundTo("v8")}),
     v8   |-> Volume("v8", {"csi"}),
     cdata |-> Content("n1", <<"data">>),
     cweb |-> Content("n1", <<"web">>),
     ct0  |-> Content("n1", <<"t", "sts", "0">>),
     ct1  |-> Content("n1", <<"t", "sts", "1">>),
     cidle |-> Content("n1", <<"idle">>),
     clogs |-> Content("n2", <<"logs">>),
     chost |-> Content("n2", <<"host">>),
     cbare |-> Content("n2", <<"bare">>),
     clate |-> Content("n2", <<"late">>)]

MCObj == [u \in DOMAIN Objects |-> Objects[u]]

Extra   == {"host", "v6", "bare", "v7", "lost", "odep", "late", "v8"}
Usual   == {u \in DOMAIN MCObj : MCObj[u].kind # "VBC"} \ Extra
Names(kind) == {MCObj[u].name : u \in {x \in DOMAIN MCObj : MCObj[x].kind = kind}}

E(kind, matches) == [kind |-> kind, matches |-> matches, whole |-> FALSE]
All(kind)        == E(kind, Names(kind))
Whole(kind)      == [kind |-> kind, matches |-> {}, whole |-> TRUE]

Everything ==
    [includeNamespaces |-> <<>>, excludeNamespaces |-> <<>>, includeResources |-> <<>>,
     excludeResources |-> <<>>, label |-> {}, absent |-> {}, annotation |-> {}]

\* The lists of a Backup.
BackupSpecs ==
    [includeNamespaces : {<<>>}, excludeNamespaces : {<<>>, <<<<"n2">>>>},
     includeResources : {<<>>, <<All("Deployment")>>, <<E("PVC", {<<"data">>}), All("StatefulSet")>>,
                         <<All("Pod"), All("ReplicaSet"), All("Service")>>},
     excludeResources : {<<>>, <<E("PVC", {<<"web">>}), Whole("Pod")>>, <<E("Deployment", {<<"dep">>})>>},
     label : {{}, {"web"}}, absent : {{}}, annotation : {{}, {"Pod", "StatefulSet"}}]

X(kind, matches, isRegex) == [kind |-> kind, matches |-> matches, isRegex |-> isRegex]

NoMapping == [n \in {} |-> "n1"]

Plainly ==
    [includeNamespaces |-> {}, excludeNamespaces |-> {}, includeResources |-> {}, excludeResources |-> {},
     label |-> {}, mapping |-> NoMapping, prefix |-> <<>>, preserveIP |-> FALSE, preservePort |-> FALSE]

\* The lists, mapping and prefix of a Restore.
RestoreSpecs ==
    [includeNamespaces : {{}}, excludeNamespaces : {{}, {"n2"}},
     includeResources : {{}, {X("PVC", Names("PVC"), TRUE), X("PV", Names("PV"), FALSE)}},
     excludeResources : {{}, {X("SC", {<<"fast">>}, TRUE)}},
     label : {{}, {"db"}}, mapping : {NoMapping, [n1 |-> "new"], [n1 |-> "n2", n2 |-> "new"]},
     prefix : {<<>>, <<"pre">>}, preserveIP : {FALSE}, preservePort : {FALSE}]

Plan(objects, backs, rests) ==
    [cluster |-> objects, later |-> objects, lost |-> {}, backups |-> backs, restores |-> rests,
     inTurn |-> TRUE, deletes |-> {}, crashes |-> 0, failures |-> 0]

Back(handle, spec) == [handle |-> handle, spec |-> spec]

One(objects, spec, rspec) == Plan(objects, <<Back("h1", spec)>>, <<Back("h1", rspec)>>)

\* Every choice of lists, one after the other.
Selections ==
    {One(Usual, s, Plainly) : s \in BackupSpecs \cup {[Everything EXCEPT !.includeNamespaces = <<<<"n1">>>>]}}
        \cup {One(Usual, Everything, s) : s \in RestoreSpecs \cup {[Plainly EXCEPT !.includeNamespaces = {"n2"}]}}

Narrow == [Everything EXCEPT !.includeNamespaces = <<<<"n2">>>>]

\* Claims that cannot be archived, or not restored; objects that go or come after Sync.
Troubles ==
    LET failing == [Narrow EXCEPT !.includeResources = <<All("PVC"), All("Pod")>>]
    IN  {One(Usual \cup {"host", "v6"}, failing, Plainly),
         One(Usual \cup {"lost"}, failing, Plainly),
         One(Usual \cup {"bare", "v7", "odep"}, Narrow, Plainly),
         [One(Usual, Narrow, Plainly) EXCEPT !.later = @ \cup {"late", "v8"}],
         [One(Usual, [Narrow EXCEPT !.includeResources = <<All("DaemonSet")>>], Plainly) EXCEPT !.lost = {"logs"}]}

\* Calls for one name at the same time; two Backups, the first of which excludes a kind.
Small == [Narrow EXCEPT !.includeResources = <<All("DaemonSet")>>]

Shared(backs, rests) == [Plan(Usual, backs, rests) EXCEPT !.inTurn = FALSE]

Concurrent ==
    {Shared(<<Back("h1", Small)>>, <<Back("h1", Plainly), Back("h1", Plainly)>>),
     [Shared(<<Back("h1", Small)>>, <<Back("h1", Plainly)>>) EXCEPT !.crashes = 1],
     [Shared(<<Back("h1", Small)>>, <<Back("h1", Plainly)>>) EXCEPT !.failures = 1, !.deletes = {"h1"}],
     Shared(<<Back("h1", [Narrow EXCEPT !.excludeResources = <<Whole("DaemonSet")>>]), Back("h2", Narrow)>>, <<>>)}

MCPlans == Selections \cup Troubles \cup Concurrent

\* Two Backups, the first of which excludes a kind as a whole.
MCTwo == {Plan(Usual, <<Back("h1", [Everything EXCEPT !.excludeResources = <<Whole("DaemonSet")>>]),
                        Back("h2", Everything)>>, <<>>)}

=============================================================================
