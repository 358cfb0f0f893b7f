--------------------------- MODULE ArchiveCollection ---------------------------
(***************************************************************************)
(* What the Resources stage of a Backup sends to the metadata service      *)
(* (controllers/backup/backupmetadata.go, resourcecollector.go,            *)
(* deployments.go, pod.go, rolescollector.go).  It reads the cluster a     *)
(* second time, with selection rules of its own: it is not driven by the   *)
(* cache of Sync.                                                          *)
(*                                                                         *)
(* A collector is the set of the objects it sends.  Error is among them if *)
(* a call of it fails: the collector then stops, and what it sent before   *)
(* is some part of the rest of the set.                                    *)
(***************************************************************************)
EXTENDS BackupSelection

LOCAL INSTANCE SequencesExt

Error == "error"

FailsIf(condition) == IF condition THEN {Error} ELSE {}

-----------------------------------------------------------------------------
(* The kinds and namespaces of a Backup.                                   *)

\* In process-wide order; PV and SC have no collector of their own.
SupportedResourceList ==
    <<"Pod", "Service", "Deployment", "ReplicaSet", "StatefulSet", "DaemonSet", "ConfigMap",
      "Secret", "PVC", "PV", "Endpoint", "SC">>

\* RemoveItem on a slice moves the elements behind the one removed within the slice's
\* array: "shared" is the array, of which items is the beginning.
RemoveItem(r, kind) ==
    IF kind \notin Elements(r.items) THEN r
    ELSE LET left == RemoveFirst(r.items, kind)
         IN  [items |-> left, shared |-> left \o SubSeq(r.shared, Len(r.items), Len(r.shared))]

\* The kinds to collect, and the process-wide list afterwards. Without an include list
\* and an option of its own, the list of kinds IS the process-wide slice.
getResultant(spec, supported) ==
    LET whole    == SelectSeq(spec.excludeResources, LAMBDA e : e.whole)
        excluded == [i \in DOMAIN whole |-> whole[i].kind]
        included == {e.kind : e \in Elements(spec.includeResources)}
        left     == FoldLeft(RemoveItem, [items |-> supported, shared |-> supported], excluded)
        base     == IF spec.annotation = {} THEN Elements(supported) ELSE spec.annotation
    IN  IF included # {} THEN [kinds |-> base \cap included, supported |-> supported]
        ELSE IF spec.annotation # {}
             THEN [kinds |-> base \ Elements(excluded), supported |-> supported]
             ELSE [kinds |-> Elements(left.items), supported |-> left.shared]

ListNamespaces(S) == {Obj[u].name : u \in Kind("Namespace", S)}

resultantNamespace(spec, S) ==
    GetResultantItems(IF spec.includeNamespaces = <<>> THEN ListNamespaces(S) ELSE {},
                      spec.includeNamespaces, spec.excludeNamespaces)

-----------------------------------------------------------------------------
(* What a workload brings along.                                           *)

\* Sent with every claim: its class, if it names one.
GetSC(c, S) ==
    Targets(c, "class", S)
        \cup FailsIf(\E r \in Via(c, "class") : r.name # <<>> /\ At(r, S) = {})

CheckBackupSupport(c, S) == \E v \in Targets(c, "bound", S) : "csi" \in Obj[v].flags

\* Mutant: a claim is sent without its class.
GetPVCAlone(c, S) ==
    IF Via(c, "bound") = {} \/ "deleting" \in Obj[c].flags THEN {}
    ELSE {c} \cup FailsIf(~CheckBackupSupport(c, S))

\* A claim that is not bound or is being deleted is passed over.
GetPVC(c, S) ==
    IF Via(c, "bound") = {} \/ "deleting" \in Obj[c].flags THEN {}
    ELSE {c} \cup GetSC(c, S) \cup FailsIf(~CheckBackupSupport(c, S))

GetVolumesSpec(w, S) ==
    LET named == Targets(w, "volume", S)
    IN  (named \ Kind("PVC", named)) \cup UNION {GetPVC(c, S) : c \in Kind("PVC", named)}
            \cup FailsIf(Dangles(w, "volume", S))

GetServiceAccountSpec(w, S) == Targets(w, "account", S) \cup FailsIf(Dangles(w, "account", S))

getEnvFromsForPodSpec(w, S) == Targets(w, "envFrom", S) \cup FailsIf(Dangles(w, "envFrom", S))

getEnvValueForPodSpec(w, S) == Targets(w, "env", S) \cup FailsIf(Dangles(w, "env", S))

\* A Role is looked for in the namespace of the subject, whatever that of the binding;
\* one that is not found is no error (the code sends an object without a name).
GetRoleOrClusterRole(b, subject, S) ==
    UNION {At([r EXCEPT !.ns = IF r.kind = "Role" THEN subject.ns ELSE "cluster"], S) :
              r \in Via(b, "role")}

\* The bindings among B, with their roles, that name the account of a workload, in
\* whichever namespace.
Bindings(w, B, S) ==
    LET accounts == {r.name : r \in Via(w, "account")}
        named(b) == {s \in Via(b, "subject") : s.kind = "ServiceAccount" /\ s.name \in accounts}
    IN  UNION {{b} \cup UNION {GetRoleOrClusterRole(b, s, S) : s \in named(b)} :
                  b \in {x \in B : "bootstrap" \notin Obj[x].flags /\ named(x) # {}}}

getclusterRoleBindings(w, S) == Bindings(w, Kind("ClusterRoleBinding", S), S)

getRoleBindings(w, S) == Bindings(w, Kind("RoleBinding", In(Obj[w].ns, S)), S)

\* The services whose selector shares a label with the given ones.
GetServiceForPod(ns, labels, S) ==
    {v \in Kind("Service", In(ns, S)) : Obj[v].selects \cap labels # {}}

PodSpec(w, S) ==
    {w} \cup GetVolumesSpec(w, S) \cup GetServiceAccountSpec(w, S)
        \cup getclusterRoleBindings(w, S) \cup getRoleBindings(w, S)

Env(w, S) == getEnvFromsForPodSpec(w, S) \cup getEnvValueForPodSpec(w, S)

Independent(u) == "owned" \notin Obj[u].flags

-----------------------------------------------------------------------------
(* The collectors.                                                         *)

\* Every collector lists its kind by the labels of the Backup (its expressions are not
\* looked at) and picks the names its lists leave.
Listed(kind, ns, spec, S) ==
    LET found == {u \in Kind(kind, In(ns, S)) : spec.label \subseteq Obj[u].labels}
        names == FindMatchedStrings(kind, {Obj[u].name : u \in found},
                                    spec.includeResources, spec.excludeResources)
    IN  {u \in found : Obj[u].name \in names}

podBackup(ns, spec, S) ==
    LET pods == {p \in Listed("Pod", ns, spec, S) : Independent(p)}
    IN  UNION {PodSpec(p, S) \cup Env(p, S) \cup GetServiceForPod(ns, Obj[p].labels, S) : p \in pods}

\* A ReplicaSet's environment is not followed.
replicaSetBackup(ns, spec, S) ==
    LET sets == {w \in Listed("ReplicaSet", ns, spec, S) : Independent(w)}
    IN  UNION {PodSpec(w, S) \cup GetServiceForPod(ns, Obj[w].selects, S) : w \in sets}

Workload(w, S) == PodSpec(w, S) \cup Env(w, S) \cup GetServiceForPod(Obj[w].ns, Obj[w].selects, S)

deploymentBackup(ns, spec, S) == UNION {Workload(w, S) : w \in Listed("Deployment", ns, spec, S)}

daemonSetBackup(ns, spec, S) == UNION {Workload(w, S) : w \in Listed("DaemonSet", ns, spec, S)}

\* Its claims too, found by its selector.
getStatefulsets(ns, spec, S) ==
    LET claims(w) == {c \in Kind("PVC", In(ns, S)) : Obj[w].selects \subseteq Obj[c].labels}
    IN  UNION {Workload(w, S) \cup UNION {GetPVC(c, S) : c \in claims(w)} :
                  w \in Listed("StatefulSet", ns, spec, S)}

getPersistentVolumeClaims(ns, spec, S) ==
    UNION {GetPVC(c, S) : c \in Listed("PVC", ns, spec, S)}

getServices(ns, spec, S) == Listed("Service", ns, spec, S)

getConfigMapS(ns, spec, S) == Listed("ConfigMap", ns, spec, S)

getSecrets(ns, spec, S) == Listed("Secret", ns, spec, S)

getEndpoints(ns, spec, S) == Listed("Endpoint", ns, spec, S)

collect(ns, kind, spec, S) ==
    CASE kind = "Pod"         -> podBackup(ns, spec, S)
      [] kind = "Deployment"  -> deploymentBackup(ns, spec, S)
      [] kind = "ConfigMap"   -> getConfigMapS(ns, spec, S)
      [] kind = "PVC"         -> getPersistentVolumeClaims(ns, spec, S)
      [] kind = "Service"     -> getServices(ns, spec, S)
      [] kind = "Secret"      -> getSecrets(ns, spec, S)
      [] kind = "Endpoint"    -> getEndpoints(ns, spec, S)
      [] kind = "ReplicaSet"  -> replicaSetBackup(ns, spec, S)
      [] kind = "StatefulSet" -> getStatefulsets(ns, spec, S)
      [] kind = "DaemonSet"   -> daemonSetBackup(ns, spec, S)
      [] OTHER                -> {}

\* The VolumeBackupContents of the Backup, one for every claim whose volume it backed up.
backupVolumeBackupContent(volumes) ==
    {v \in Kind("VBC", DOMAIN Obj) : Targets(v, "content", volumes) # {}}

\* What each collector sends: one for every namespace and kind.
Collections(spec, kinds, S) ==
    LET names == resultantNamespace(spec, S)
    IN  {collect(ns[1], k, spec, S) : ns \in ListNamespaces(S) \cap names, k \in kinds}

\* The possible outcomes. The collectors run namespace by namespace and kind by kind, in
\* no particular order; the first one that fails ends the run.
runBackup(collections, volumes) ==
    LET bad == {sent \in collections : Error \in sent}
    IN  IF bad = {}
        THEN {[ok |-> TRUE, sent |-> (UNION collections) \cup backupVolumeBackupContent(volumes)]}
        ELSE {[ok |-> FALSE, sent |-> (UNION before) \cup part] :
                 before \in SUBSET (collections \ bad),
                 part \in UNION {SUBSET (sent \ {Error}) : sent \in bad}}

=============================================================================
