----------------------------- MODULE HookSelection -----------------------------
(***************************************************************************)
(* Which pods a hook specification selects (hooks/common.go and            *)
(* hooks/hooks.go).  The pods and workloads present when the code asks are *)
(* a parameter: the same specification may select a pod in one call and    *)
(* not in the next.  lost is the set of kinds whose listing fails in the   *)
(* call: such a failure is logged and its pods are left out.               *)
(***************************************************************************)
EXTENDS Naturals, Sequences, FiniteSets, NameLists

CONSTANTS
    Pods,          \* pod names, unique in the cluster
    Workloads,     \* deployments, daemon sets, stateful sets and replica sets
    Namespaces,
    Labels,
    NsOf,          \* namespace of a pod or a workload
    LabelsOf,      \* labels of a pod
    MatchLabels,   \* spec.selector.matchLabels of a workload
    KindOf         \* kind of a workload

WorkloadKinds == {"Deployment", "DaemonSet", "StatefulSet", "ReplicaSet"}
ListedKinds   == WorkloadKinds \cup {"Pod"}

ASSUME ClusterAssumption ==
    /\ IsFiniteSet(Pods) /\ IsFiniteSet(Workloads) /\ Pods \cap Workloads = {}
    /\ NsOf \in [Pods \cup Workloads -> Namespaces]
    /\ LabelsOf \in [Pods -> SUBSET Labels]
    /\ MatchLabels \in [Workloads -> SUBSET Labels]
    /\ KindOf \in [Workloads -> WorkloadKinds]

(* A CommonHookSpec without its hooks; an empty labelSelector is no selector. *)
SelectorSpec ==
    [includeNamespaces : SUBSET Namespaces, excludeNamespaces : SUBSET Namespaces,
     labelSelector : SUBSET Labels,
     includeResources : Seq(ResourceSpec(ListedKinds, Pods \cup Workloads)),
     excludeResources : Seq(ResourceSpec(ListedKinds, Pods \cup Workloads))]

filterIncludesExcludes(rawItems, includes, excludes) ==
    (IF includes # {} THEN includes \cap rawItems ELSE rawItems) \ excludes

FilterHookNamespaces(allNamespaces, s) ==
    filterIncludesExcludes(allNamespaces, s.includeNamespaces, s.excludeNamespaces)

checkInclude(in, ex, key) == key \notin ex /\ (in = {} \/ key \in in)

\* The pods a List with a label selector returns.
PodsWith(present, ns, labels) ==
    {p \in Pods \cap present : NsOf[p] = ns /\ labels \subseteq LabelsOf[p]}

getPodsFromPodResourceSpec(present, ns, s) ==
    FindMatchedStrings("Pod", PodsWith(present, ns, s.labelSelector), s.includeResources,
                       s.excludeResources)

\* The pods of the workloads of a kind that the resource lists select; the
\* label selector of the hook is not asked.
GetPodsFromWorkload(kind, present, ns, s) ==
    LET all  == {x \in Workloads \cap present : KindOf[x] = kind /\ NsOf[x] = ns}
        kept == FindMatchedStrings(kind, all, s.includeResources, s.excludeResources)
    IN  UNION {PodsWith(present, ns, MatchLabels[x]) : x \in kept}

GetPodsFromDeployment(present, ns, s)  == GetPodsFromWorkload("Deployment", present, ns, s)
GetPodsFromDaemonset(present, ns, s)   == GetPodsFromWorkload("DaemonSet", present, ns, s)
GetPodsFromStatefulset(present, ns, s) == GetPodsFromWorkload("StatefulSet", present, ns, s)
GetPodsFromReplicaset(present, ns, s)  == GetPodsFromWorkload("ReplicaSet", present, ns, s)

GetAllPodsForNamespace(present, ns, s, lost) ==
    UNION {IF kind \in lost THEN {}
           ELSE CASE kind = "Pod"         -> getPodsFromPodResourceSpec(present, ns, s)
                  [] kind = "Deployment"  -> GetPodsFromDeployment(present, ns, s)
                  [] kind = "DaemonSet"   -> GetPodsFromDaemonset(present, ns, s)
                  [] kind = "StatefulSet" -> GetPodsFromStatefulset(present, ns, s)
                  [] kind = "ReplicaSet"  -> GetPodsFromReplicaset(present, ns, s)
           : kind \in ListedKinds}

validateHook(present, s, p, lost) ==
    /\ checkInclude(s.includeNamespaces, s.excludeNamespaces, NsOf[p])
    /\ p \in GetAllPodsForNamespace(present, NsOf[p], s, lost)
    /\ s.labelSelector \subseteq LabelsOf[p]

=============================================================================
