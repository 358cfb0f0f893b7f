---------------------------- MODULE BackupSelection ----------------------------
(***************************************************************************)
(* The resources of a Backup as Sync finds them before the volumes are     *)
(* backed up (controllers/backup/backupresources.go and                    *)
(* dependencyresolver.go): the objects the specification selects, and the  *)
(* objects those depend on.  The claims among them get the                 *)
(* VolumeBackupContents.                                                   *)
(*                                                                         *)
(* A specification is a record: includeNamespaces, excludeNamespaces,      *)
(* includeResources, excludeResources (lists; an entry is [kind, matches,  *)
(* whole], matches the names it matches and whole: its name is empty),     *)
(* label (labels asked for), absent (labels an expression rules out) and   *)
(* annotation (the kinds of the option supportedResources, which the       *)
(* controller records in an annotation of the Backup; {}: not given).      *)
(***************************************************************************)
EXTENDS ClusterObjects

excludeResourceType == {"Node", "Event", "VolumeSnapshot", "EndpointSlice"}

filteredAPIResourcesByAnnotation(kinds, spec) ==
    IF spec.annotation = {} THEN kinds ELSE kinds \cap spec.annotation

filterApiResourceByIncludeResources(kinds, spec) ==
    IF spec.includeResources = <<>> THEN kinds
    ELSE kinds \cap {e.kind : e \in Elements(spec.includeResources)}

filterApiResourceByExcludeResources(kinds, spec) ==
    kinds \ {e.kind : e \in {x \in Elements(spec.excludeResources) : x.whole}}

\* The kinds with a namespace, less those never backed up, not in the annotation,
\* not among the included ones or excluded as a whole.
filteredAPIResources(spec, S) ==
    LET namespaced == {Obj[u].kind : u \in {x \in S : Obj[x].ns # "cluster"}}
        kinds      == filteredAPIResourcesByAnnotation(namespaced \ excludeResourceType, spec)
    IN  filterApiResourceByExcludeResources(
            filterApiResourceByIncludeResources(kinds, spec), spec)

collectNamespacesWithBackupSpec(spec, S) ==
    {u \in Kind("Namespace", S) :
        /\ Obj[u].name \notin Elements(spec.excludeNamespaces)
        /\ spec.includeNamespaces = <<>> \/ Obj[u].name \in Elements(spec.includeNamespaces)}

Matched(u, entries) ==
    \E e \in Elements(entries) : e.kind = Obj[u].kind /\ Obj[u].name \in e.matches

\* An exclusion wins over any number of inclusions.
isResourceNeedBackup(u, spec) ==
    /\ "owned" \notin Obj[u].flags
    /\ ~Matched(u, spec.excludeResources)
    /\ spec.includeResources = <<>> \/ Matched(u, spec.includeResources)

collectNamespaceResources(ns, kinds, spec, S) ==
    {u \in In(ns, S) : /\ Obj[u].kind \in kinds
                       /\ spec.label \subseteq Obj[u].labels
                       /\ spec.absent \cap Obj[u].labels = {}}

-----------------------------------------------------------------------------
(* What an object depends on.                                              *)

getPodDependency(u) == Via(u, "volume")

pvDependency(u) == Via(u, "claim")

\* A claim without a class, or not bound, brings nothing along.
pvcDependency(u) ==
    IF Via(u, "class") = {} \/ Via(u, "bound") = {} THEN {}
    ELSE Via(u, "class") \cup Via(u, "bound")

\* Mutant: a StatefulSet brings along the volumes of its pods only.
PodVolumesOnly(u, S) == getPodDependency(u)

\* The claims of a StatefulSet are found by its selector, if it has templates.
statefulsetDependency(u, S) ==
    LET claims == {c \in Kind("PVC", In(Obj[u].ns, S)) : Obj[u].selects \subseteq Obj[c].labels}
        named(c) == [via |-> "volume", kind |-> "PVC", ns |-> Obj[c].ns, name |-> Obj[c].name]
    IN  getPodDependency(u) \cup
        (IF Via(u, "template") = {} THEN {}
         ELSE UNION {{named(c)} \cup Via(c, "class") \cup Via(c, "bound") : c \in claims})

GetDependency(u, S) ==
    CASE Obj[u].kind = "PV"          -> pvDependency(u)
      [] Obj[u].kind = "PVC"         -> pvcDependency(u)
      [] Obj[u].kind = "StatefulSet" -> statefulsetDependency(u, S)
      [] Obj[u].kind \in {"Pod", "Deployment", "ReplicaSet", "DaemonSet"} -> getPodDependency(u)
      [] OTHER -> {}

\* A dependency that is in the cache already is passed over; the lookup of one that
\* is gone, or whose lookup fails (the objects "lost"), is only logged.
populateDependency(u, S, lost) == UNION {At(r, S \ lost) : r \in GetDependency(u, S)}

\* Dependencies of dependencies too, until nothing is added.
RECURSIVE Resolve(_, _, _)
Resolve(found, S, lost) ==
    LET more == found \cup UNION {populateDependency(u, S, lost) : u \in found}
    IN  IF more = found THEN found ELSE Resolve(more, S, lost)

\* The cache of Sync: the selected Namespaces, their resources that need backup, and
\* the dependencies. syncWithServer lists it in the status of the Backup.
Sync(spec, S, lost) ==
    LET namespaces == collectNamespacesWithBackupSpec(spec, S)
        kinds      == filteredAPIResources(spec, S)
        needed(n)  == {u \in collectNamespaceResources(Obj[n].name[1], kinds, spec, S) :
                          isResourceNeedBackup(u, spec)}
    IN  Resolve(namespaces \cup UNION {needed(n) : n \in namespaces}, S, lost)

\* The claims whose volumes are backed up.
getVolumes(resources) == Kind("PVC", resources)

=============================================================================
