--------------------------- MODULE RestoreSelection ---------------------------
(***************************************************************************)
(* From the content of an archive to the objects a Restore creates         *)
(* (controllers/restore: getContent, filters.go, resolver.go, mutators.go, *)
(* restorehelper.go).                                                      *)
(*                                                                         *)
(* A specification is a record: includeNamespaces, excludeNamespaces       *)
(* (sets), includeResources, excludeResources (sets of [kind, matches,     *)
(* isRegex]), label (labels asked for), mapping (a function on the         *)
(* namespaces it maps), prefix (a sequence: <<>> for none), preserveIP and *)
(* preservePort.                                                           *)
(***************************************************************************)
EXTENDS ArchiveCollection

LOCAL INSTANCE SequencesExt

-----------------------------------------------------------------------------
(* The objects received, and the filters.                                  *)

excludeResource(u) ==
    \/ Obj[u].kind \in {"Node", "Namespace", "Event"}
    \/ Obj[u].kind = "Service" /\ Obj[u].name = <<"kubernetes">>

getContent(archive) == {u \in archive : ~excludeResource(u)}

\* The included namespaces have no effect: what they leave out is never added to the
\* excluded ones.
namespaceFilter(spec, I) == {u \in I : Obj[u].ns \notin spec.excludeNamespaces}

\* Only regular expressions match: an entry with a plain name matches nothing.
isMatch(u, e) == e.kind = Obj[u].kind /\ e.isRegex /\ Obj[u].name \in e.matches

isResourceNeedExclude(u, spec) ==
    \/ \E e \in spec.excludeResources : isMatch(u, e)
    \/ spec.includeResources # {} /\ \A e \in spec.includeResources : ~isMatch(u, e)

resourceFilter(spec, I) == {u \in I : ~isResourceNeedExclude(u, spec)}

labelSelectorFilter(spec, I) == {u \in I : spec.label \subseteq Obj[u].labels}

filter(spec, I) == labelSelectorFilter(spec, resourceFilter(spec, namespaceFilter(spec, I)))

-----------------------------------------------------------------------------
(* The objects the filtered ones need, from the whole backup B.            *)

\* The class of a claim; a claim whose class is named "" has no such object either.
pvcResolve(c, B) ==
    UNION {LET found == {s \in Kind("SC", B) : Obj[s].name = r.name}
           IN  found \cup FailsIf(found = {}) : r \in Via(c, "class")}

pvResolve(v, B) ==
    UNION {LET found == At(r, B)
           IN  found \cup FailsIf(found = {}) \cup UNION {pvcResolve(c, B) : c \in found} :
              r \in Via(v, "claim")}

ResolveRestore(I, B) ==
    I \cup (UNION {pvcResolve(c, B) : c \in Kind("PVC", I)})
      \cup UNION {pvResolve(v, B) : v \in Kind("PV", I)}

-----------------------------------------------------------------------------
(* The mutators, as what each makes of an object o; order is the one in    *)
(* which the mapping of namespaces is ranged over.                         *)

EditRefs(o, Edit(_)) == [o EXCEPT !.refs = {Edit(r) : r \in @}]

\* A name without a namespace is looked up in the namespace of the object that holds it;
\* the subjects of a binding and the volume of a content carry a namespace.
Implicit(r) == r.ns # "cluster" /\ r.via \notin {"subject", "content", "claim"}

SetNamespace(o, new) ==
    [EditRefs(o, LAMBDA r : IF Implicit(r) THEN [r EXCEPT !.ns = new] ELSE r) EXCEPT !.ns = new]

\* One entry of the mapping after the other, in the order a Go map is ranged over: what
\* one entry moved, a later one may move again.
namespaceMutation(o, spec, order) ==
    FoldLeft(LAMBDA x, old : IF x.ns = old THEN SetNamespace(x, spec.mapping[old]) ELSE x, o, order)

pvcMutation(o) ==
    IF o.kind = "PVC" THEN [o EXCEPT !.refs = {r \in @ : r.via # "source"}] ELSE o

\* A headless service keeps its lack of an address.
serviceMutation(o, spec) ==
    LET address == IF "headless" \in o.flags \/ spec.preserveIP THEN {} ELSE {"clusterIP"}
        ports   == IF spec.preservePort THEN {} ELSE {"nodePort"}
    IN  IF o.kind = "Service" THEN [o EXCEPT !.flags = (@ \ address) \ ports] ELSE o

mutateSubjectNamespace(r, spec) ==
    IF r.kind = "ServiceAccount" /\ r.ns \in DOMAIN spec.mapping
    THEN [r EXCEPT !.ns = spec.mapping[@]] ELSE r

Prefixed(r, prefix) == [r EXCEPT !.name = prefix \o @]

mutateSubjectName(r, spec) ==
    IF r.kind = "ServiceAccount" /\ r.name # <<"default">> THEN Prefixed(r, spec.prefix) ELSE r

\* roleKind: the kind of role whose name gets the prefix.
MutateBinding(o, spec, roleKind) ==
    EditRefs(o, LAMBDA r :
        CASE r.via = "subject" -> mutateSubjectName(mutateSubjectNamespace(r, spec), spec)
          [] r.via = "role" /\ r.kind = roleKind -> Prefixed(r, spec.prefix)
          [] OTHER -> r)

clusterRoleBindingMutation(o, spec) ==
    IF o.kind = "ClusterRoleBinding" THEN MutateBinding(o, spec, "ClusterRole") ELSE o

\* A RoleBinding to a ClusterRole keeps the old name of the role.
roleBindingMutation(o, spec) ==
    IF o.kind = "RoleBinding" THEN MutateBinding(o, spec, "Role") ELSE o

\* The account "default" is there in every namespace: it is neither marked nor renamed.
DefaultAccount(o) == o.kind = "ServiceAccount" /\ o.name = <<"default">>

restoreIdentificationMutation(o) ==
    IF DefaultAccount(o) THEN o ELSE [o EXCEPT !.flags = @ \cup {"identified"}]

-----------------------------------------------------------------------------
(* The prefix.                                                             *)

Ordinal == <<"0", "1", "2">>

\* The names of the claims of a StatefulSet.
ClaimNames(o) ==
    {r.name \o o.name \o <<Ordinal[i]>> : r \in {x \in o.refs : x.via = "template"}, i \in 1..o.replicas}

\* Are there StatefulSets, and have all of them templates?
isStatefulSetPresent(I) ==
    LET sets == Kind("StatefulSet", I)
    IN  sets # {} /\ \A u \in sets : Via(u, "template") # {}

\* By name only: a claim of that name in any namespace is taken for one of the StatefulSet.
statefulSetPVC(name, I) == {u \in Kind("StatefulSet", I) : name \in ClaimNames(Obj[u])}

\* Mutant: the prefix goes before the name of a claim, whoever owns it.
PVCNameOnce(name, prefix, I) == prefix \o name

\* The prefix goes before the template's name and before the StatefulSet's.
PVCName(name, prefix, I) ==
    IF isStatefulSetPresent(I) /\ statefulSetPVC(name, I) # {}
    THEN LET s == CHOOSE u \in statefulSetPVC(name, I) : TRUE
             t == CHOOSE r \in Via(s, "template") :
                      \E i \in 1..Obj[s].replicas : name = r.name \o Obj[s].name \o <<Ordinal[i]>>
         IN  prefix \o t.name \o prefix \o Obj[s].name \o <<name[Len(name)]>>
    ELSE prefix \o name

serviceAccountSectionUpdate(r, prefix) == IF r.name = <<"default">> THEN r ELSE Prefixed(r, prefix)

\* Pods, Deployments, DaemonSets and ReplicaSets: account and volumes. The names in the
\* environment of their containers are kept.
updatePodContent(o, prefix) ==
    EditRefs(o, LAMBDA r : CASE r.via = "account" -> serviceAccountSectionUpdate(r, prefix)
                             [] r.via = "volume"  -> Prefixed(r, prefix)
                             [] OTHER -> r)

\* A class named "" is left as it is.
updatePVCContent(o, prefix) ==
    EditRefs(o, LAMBDA r : IF r.via = "class" /\ r.name # <<>> THEN Prefixed(r, prefix) ELSE r)

\* A StatefulSet: account and claim template, with its class. Its other volumes and its
\* environment keep the old names. (A template without a class would keep the templates
\* after it from being renamed: the StatefulSets here have one template at most.)
updateStatefulSetContent(o, prefix) ==
    EditRefs(o, LAMBDA r : CASE r.via = "account" -> serviceAccountSectionUpdate(r, prefix)
                             [] r.via \in {"template", "class"} -> Prefixed(r, prefix)
                             [] OTHER -> r)

prefixMutation(o, spec, I) ==
    LET p       == spec.prefix
        name    == IF o.kind = "PVC" THEN PVCName(o.name, p, I) ELSE p \o o.name
        content == CASE o.kind \in {"Pod", "Deployment", "DaemonSet", "ReplicaSet"} -> updatePodContent(o, p)
                     [] o.kind = "PVC"         -> updatePVCContent(o, p)
                     [] o.kind = "StatefulSet" -> updateStatefulSetContent(o, p)
                     [] OTHER -> o
    IN  IF p = <<>> \/ DefaultAccount(o) THEN o ELSE [content EXCEPT !.name = name]

\* The chain of mutators.
mutate(u, spec, order, I) ==
    LET moved == namespaceMutation(Obj[u], spec, order)
        bound == roleBindingMutation(clusterRoleBindingMutation(serviceMutation(pvcMutation(moved), spec), spec), spec)
    IN  prefixMutation(restoreIdentificationMutation(bound), spec, I)

=============================================================================
