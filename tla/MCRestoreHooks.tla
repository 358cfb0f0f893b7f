----------------------------- MODULE MCRestoreHooks -----------------------------
(* A deployment with one pod of two containers, a bare pod, a deployment of  *)
(* the archive that exists before the restore and has no pods, and a pod     *)
(* that exists and is not restored.                                          *)
EXTENDS RestoreHooks

MCPods       == {"web", "job", "old"}
MCWorkloads  == {"webs", "olds"}
MCNamespaces == {"ns"}
MCNsOf       == [x \in MCPods \cup MCWorkloads |-> "ns"]
MCLabels     == {"app", "data", "legacy"}
MCLabelsOf   == [web |-> {"app", "data"}, job |-> {}, old |-> {"data"}]
MCMatch      == [webs |-> {"app"}, olds |-> {"legacy"}]
MCKindOf     == [x \in MCWorkloads |-> "Deployment"]
MCContainers == [p \in MCPods |-> IF p = "web" THEN <<"c1", "c2">> ELSE <<"c1">>]
MCResources  == <<[kind |-> "Other", name |-> "cm"], [kind |-> "Workload", name |-> "olds"],
                  [kind |-> "Pod", name |-> "job"], [kind |-> "Workload", name |-> "webs"]>>
MCGoroutines == {<<"job", 3>>, <<"web", 4>>}
NoHooks      == <<>>

Hook(id, container, fail, wait, label, exclude) ==
    [id |-> id, container |-> container, fail |-> fail, wait |-> wait, init |-> FALSE,
     includeNamespaces |-> {}, excludeNamespaces |-> {}, labelSelector |-> label,
     includeResources |-> <<>>, excludeResources |-> exclude]

OldPod == <<[kind |-> "Pod", matches |-> {"old"}]>>

\* A hook of the deployment's pod and, as an external one, of the old pod, with
\* one of a container that only the deployment's pod has; a hook of the two
\* restored pods that waits for ever.
MCHookLists ==
    {<<Hook("h1", "c1", TRUE, 1, {"data"}, <<>>), Hook("h2", "c2", FALSE, 2, {}, <<>>)>>,
     <<Hook("h1", "c1", TRUE, 0, {}, OldPod)>>}

=============================================================================
