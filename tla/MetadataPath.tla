----------------------------- MODULE MetadataPath -----------------------------
(***************************************************************************)
(* The way of the objects from the cluster through the archive into a      *)
(* Restore: the selection of a Backup (BackupSelection), the collectors    *)
(* that fill its archive (ArchiveCollection), the metadata service that    *)
(* keeps it (MetaService) and the filters, the resolver and the mutators   *)
(* of a Restore (RestoreSelection).  What the controllers do around these  *)
(* steps is BackupController and RestoreController.                        *)
(*                                                                         *)
(* A plan, chosen at the start, is one use of the system: cluster, the     *)
(* objects at first; later, the objects after the one change there may be; *)
(* lost, those whose lookup fails in Sync; backups, a sequence of [handle, *)
(* spec]; restores, a sequence of [handle, spec]; inTurn, do the Restores  *)
(* wait for the Backups; deletes, handles; crashes and failures, how often *)
(* the backup controller, and the service or its provider, may fail.       *)
(***************************************************************************)
EXTENDS MetaService, RestoreSelection

CONSTANT Plans

VARIABLES plan,
          cluster,        \* the objects there are
          supported,      \* utils.SupportedResourceList of the backup controller's process
          crashes,
          backups,        \* per Backup of the plan: state, call, volumes and what was sent
          restores,       \* per Restore: state, call and the objects to create
          received        \* per call of Backup: the objects sent up to the end of the stream

vars == <<serviceVars, plan, cluster, supported, crashes, backups, restores, received>>

controllerVars == <<plan, cluster, supported, crashes, backups, restores, received>>

BackupStates  == {"new", "synced", "sending", "waiting", "Completed", "Failed"}
RestoreStates == {"new", "fetching", "populated", "Failed"}

TypeOK ==
    /\ ServiceTypeOK
    /\ plan \in Plans
    /\ cluster \in {plan.cluster, plan.later}
    /\ Elements(supported) \subseteq Elements(SupportedResourceList)
    /\ Len(supported) = Len(SupportedResourceList)
    /\ crashes \in 0..plan.crashes
    /\ \A b \in DOMAIN backups : /\ backups[b].state \in BackupStates
                                 /\ backups[b].call \in 0..Len(calls)
                                 /\ backups[b].volumes \subseteq Kind("PVC", DOMAIN Obj)
                                 /\ backups[b].sent \subseteq DOMAIN Obj
                                 /\ {backups[b].ok, backups[b].disturbed} \subseteq BOOLEAN
    /\ \A r \in DOMAIN restores : /\ restores[r].state \in RestoreStates
                                  /\ restores[r].call \in 0..Len(calls)
                                  /\ DOMAIN restores[r].objects \subseteq DOMAIN Obj
    /\ received \in [1..MaxCalls -> SUBSET DOMAIN Obj]

Init ==
    /\ plan \in Plans
    /\ ServiceInit(plan.failures)
    /\ cluster = plan.cluster
    /\ supported = SupportedResourceList
    /\ crashes = 0
    /\ backups = [b \in DOMAIN plan.backups |->
                     [state |-> "new", call |-> 0, volumes |-> {}, sent |-> {}, ok |-> FALSE,
                      disturbed |-> plan.lost # {}]]
    /\ restores = [r \in DOMAIN plan.restores |->
                      [state |-> "new", call |-> 0, objects |-> <<>>]]
    /\ received = [c \in 1..MaxCalls |-> {}]

Change ==
    /\ cluster = plan.cluster /\ plan.later # plan.cluster
    /\ cluster' = plan.later
    /\ backups' = [b \in DOMAIN backups |->
                      [backups[b] EXCEPT !.disturbed = @ \/ backups[b].state \in {"synced", "sending"}]]
    /\ UNCHANGED <<serviceVars, plan, supported, crashes, restores, received>>

-----------------------------------------------------------------------------
(* The backup controller.                                                  *)

\* The claims Sync finds are the ones whose volumes are then backed up.
SyncBackup(b) ==
    /\ backups[b].state = "new"
    /\ backups' = [backups EXCEPT
           ![b].state = "synced",
           ![b].volumes = getVolumes(Sync(plan.backups[b].spec, cluster, plan.lost))]
    /\ UNCHANGED <<serviceVars, plan, cluster, supported, crashes, restores, received>>

\* processMetadataBackup calls the service, which may answer before it got anything.
StartBackup(b) ==
    /\ backups[b].state = "synced"
    /\ Open("Backup", plan.backups[b].handle)
    /\ backups' = [backups EXCEPT ![b].state = "sending", ![b].call = Len(calls')]
    /\ UNCHANGED <<plan, cluster, supported, crashes, restores, received>>

\* The collectors run and the stream is closed. A call that has ended fails the first send.
RunBackup(b) ==
    LET c        == backups[b].call
        spec     == plan.backups[b].spec
        selected == getResultant(spec, supported)
    IN  /\ backups[b].state = "sending"
        /\ supported' = selected.supported
        /\ \E run \in runBackup(Collections(spec, selected.kinds, cluster), backups[b].volumes) :
              /\ backups' = [backups EXCEPT ![b].state = "waiting", ![b].ok = run.ok, ![b].sent = run.sent]
              /\ IF Running(c)
                 THEN /\ calls' = [calls EXCEPT ![c].stream = "eof"]
                      /\ received' = [received EXCEPT ![c] = run.sent]
                 ELSE UNCHANGED <<calls, received>>
        /\ UNCHANGED <<yard, store, disk, failuresLeft, plan, cluster, crashes, restores>>

\* CloseAndRecv: the archive counts if the service kept it and nothing failed here.
BackupAnswered(b) ==
    LET c == backups[b].call
    IN  /\ backups[b].state = "waiting" /\ ~Running(c)
        /\ backups' = [backups EXCEPT
               ![b].state = IF calls[c].ok /\ backups[b].ok THEN "Completed" ELSE "Failed"]
        /\ UNCHANGED <<serviceVars, plan, cluster, supported, crashes, restores, received>>

\* The process dies: its streams break, its list is as at first, and the Backups it had
\* in hand are taken up again.
BackupCrash ==
    LET inHand  == {b \in DOMAIN backups : backups[b].state \in {"sending", "waiting"}}
        streams == {backups[b].call : b \in {x \in inHand : backups[x].state = "sending"}}
    IN  /\ crashes < plan.crashes /\ inHand # {}
        /\ crashes' = crashes + 1
        /\ supported' = SupportedResourceList
        /\ backups' = [b \in DOMAIN backups |->
                          IF b \in inHand THEN [backups[b] EXCEPT !.state = "synced"] ELSE backups[b]]
        /\ calls' = [c \in DOMAIN calls |->
                        IF c \in streams THEN [calls[c] EXCEPT !.stream = "broken"] ELSE calls[c]]
        /\ UNCHANGED <<yard, store, disk, failuresLeft, plan, cluster, restores, received>>

\* deleteMetadataBackup: the archive of a Failed Backup is not deleted. The deletion may
\* have to be repeated.
DeleteArchive(b) ==
    LET h == plan.backups[b].handle
    IN  /\ h \in plan.deletes /\ backups[b].state = "Completed"
        /\ \A c \in DOMAIN calls : calls[c].op = "Delete" => ~Running(c)
        /\ Open("Delete", h)
        /\ UNCHANGED <<plan, cluster, supported, crashes, backups, restores, received>>

-----------------------------------------------------------------------------
(* The restore controller.                                                 *)

\* The Backup only has to exist: its state is not looked at.
FetchBackupContent(r) ==
    /\ restores[r].state = "new"
    /\ plan.inTurn => \A b \in DOMAIN backups : backups[b].state \in {"Completed", "Failed"}
    /\ Open("Restore", plan.restores[r].handle)
    /\ restores' = [restores EXCEPT ![r].state = "fetching", ![r].call = Len(calls')]
    /\ UNCHANGED <<plan, cluster, supported, crashes, backups, received>>

\* Everything that came, filtered, completed and mutated.
PopulateRestoreResources(r) ==
    LET c        == restores[r].call
        spec     == plan.restores[r].spec
        content  == getContent(received[calls[c].seen[1]])
        selected == ResolveRestore(filter(spec, content), content)
        orders   == {o \in [1..Cardinality(DOMAIN spec.mapping) -> DOMAIN spec.mapping] :
                        \A i, j \in DOMAIN o : o[i] = o[j] => i = j}
    IN  /\ restores[r].state = "fetching" /\ ~Running(c)
        /\ IF ~calls[c].ok \/ Error \in selected
           THEN restores' = [restores EXCEPT ![r].state = "Failed"]
           ELSE \E order \in orders :
                   restores' = [restores EXCEPT ![r].state = "populated",
                                                ![r].objects = [u \in selected |-> mutate(u, spec, order, selected)]]
        /\ UNCHANGED <<serviceVars, plan, cluster, supported, crashes, backups, received>>

-----------------------------------------------------------------------------

Next ==
    \/ Change
    \/ \E b \in DOMAIN backups : \/ SyncBackup(b) \/ StartBackup(b) \/ RunBackup(b)
                                 \/ BackupAnswered(b) \/ DeleteArchive(b)
    \/ BackupCrash
    \/ \E r \in DOMAIN restores : FetchBackupContent(r) \/ PopulateRestoreResources(r)
    \/ (\E c \in DOMAIN calls : ServiceStep(c)) /\ UNCHANGED controllerVars
    \/ ServiceCrash /\ UNCHANGED controllerVars

Spec == Init /\ [][Next]_vars

-----------------------------------------------------------------------------
(* Properties.                                                             *)

\* The call of Backup whose archive a Restore call delivered, and the Backup that made it.
Origin(r) == calls[restores[r].call].seen[1]

BackupOf(c) == {b \in DOMAIN backups : backups[b].call = c /\ backups[b].state = "Completed"}

\* However the calls for one name interleave, share its file, break off and are retried, a
\* Restore call that ends well (server.go Restore, client.go Download) has delivered the
\* archive of one Backup call of that name, from the first entry to the last, and that
\* call had received everything up to the end of its stream.
ReceivedWhole ==
    \A c \in DOMAIN calls :
        (calls[c].op = "Restore" /\ calls[c].pc = "end" /\ calls[c].ok) =>
            /\ Len(calls[c].seen) = Chunks
            /\ LET d == calls[c].seen[1]
               IN  /\ d # Hole /\ calls[c].seen[Chunks] = d
                   /\ calls[d].op = "Backup" /\ calls[d].handle = calls[c].handle
                   /\ calls[d].stream = "eof"

\* A Backup whose lists mean the same to Sync and to the collectors: no include entries
\* that overlap, no kind excluded as a whole beside an include list, no label expression;
\* and no object with an owner but the pods and ReplicaSets both leave out, nor a
\* StatefulSet without templates.
Plain(b) ==
    LET spec == plan.backups[b].spec
        inc  == spec.includeResources
    IN  /\ spec.absent = {}
        /\ \A i, j \in DOMAIN inc :
              (i # j /\ inc[i].kind = inc[j].kind) => inc[i].matches \cap inc[j].matches = {}
        /\ inc # <<>> => \A e \in Elements(spec.excludeResources) : ~e.whole
        /\ \A u \in plan.cluster \cup plan.later :
              /\ "owned" \in Obj[u].flags => Obj[u].kind \in {"Pod", "ReplicaSet"}
              /\ Obj[u].kind = "StatefulSet" => Via(u, "template") # {}

\* Sync chooses the volumes to back up (backupresources.go:169), the collectors choose the
\* claims to archive (backupmetadata.go:129), each from its own reading of the lists and of
\* the cluster. A Restore that filters only by namespace never holds a claim without the
\* content of its volume: it would wait for that volume for ever (volumerestore.go).
VolumesAgree ==
    \A r \in DOMAIN restores :
        (/\ restores[r].state = "populated"
         /\ plan.restores[r].spec.includeResources = {} /\ plan.restores[r].spec.label = {}
         /\ plan.restores[r].spec.excludeResources = {}) =>
            \A b \in BackupOf(Origin(r)) :
                (Plain(b) /\ ~backups[b].disturbed) =>
                    \A u \in DOMAIN restores[r].objects :
                        Obj[u].kind = "PVC" =>
                            \E v \in DOMAIN restores[r].objects : Targets(v, "content", {u}) # {}

\* Whatever a Restore filters out, the archive of a Completed Backup holds the objects the
\* rest depends on: only a call that failed, or a claim whose class is named "", makes the
\* resolver (resolver.go) fail the Restore.
ResolverSucceeds ==
    \A r \in DOMAIN restores :
        (restores[r].state = "Failed" /\ calls[restores[r].call].ok) =>
            \A b \in BackupOf(Origin(r)) :
                \E u \in Kind("PVC", backups[b].sent) :
                    \E ref \in Via(u, "class") : ref.name = <<>>

\* The references the prefix and the namespace mapping follow: not those of containers'
\* environments, of a StatefulSet's own volumes, of a RoleBinding to a ClusterRole and of
\* others to the claims of a StatefulSet, which the mutators leave behind.
Followed(u, I) ==
    LET o      == Obj[u]
        claims == UNION {ClaimNames(Obj[s]) : s \in Kind("StatefulSet", I)}
    IN  {r \in o.refs :
            \/ r.via \in {"account", "class", "subject"}
            \/ r.via = "volume" /\ o.kind # "StatefulSet" /\ r.name \notin claims
            \/ r.via = "role" /\ (o.kind = "RoleBinding" => r.kind = "Role")}

\* The namespaces of a mapping are all new ones, and no two of them the same.
Separate(mapping) ==
    /\ \A n \in DOMAIN mapping : \A u \in plan.cluster \cup plan.later : Obj[u].ns # mapping[n]
    /\ \A m, n \in DOMAIN mapping : mapping[m] = mapping[n] => m = n

Named(M, kind, ns, name) == {t \in DOMAIN M : M[t].kind = kind /\ M[t].ns = ns /\ M[t].name = name}

\* The mutators (mutators.go, restorehelper.go) rename objects and the references to them
\* in separate places. After them, every reference they follow leads to the object it led
\* to in the archive, and every claim of a StatefulSet has the name the StatefulSet will
\* look for.
RefsKept ==
    \A r \in {x \in DOMAIN restores : restores[x].state = "populated"} :
        LET M == restores[r].objects
            I == DOMAIN M
        IN  Separate(plan.restores[r].spec.mapping) =>
                \A u \in I :
                    /\ \A ref \in Followed(u, I) : \A t \in At(ref, I) :
                          \E new \in M[u].refs : new.via = ref.via /\ Named(M, new.kind, new.ns, new.name) = {t}
                    /\ Obj[u].kind = "StatefulSet" =>
                          \A t \in Kind("PVC", In(Obj[u].ns, I)) :
                              Obj[t].name \in ClaimNames(Obj[u]) => M[t].name \in ClaimNames(M[u])

\* A Backup with empty lists that Completed has archived every object of the supported kinds
\* that is nobody's part.
EmptyIncludesAll ==
    \A b \in DOMAIN backups :
        LET spec == plan.backups[b].spec
        IN  (/\ backups[b].state = "Completed" /\ spec.includeResources = <<>> /\ spec.excludeResources = <<>>
             /\ spec.includeNamespaces = <<>> /\ spec.excludeNamespaces = <<>>
             /\ spec.label = {} /\ spec.annotation = {}) =>
                \A u \in plan.cluster \cap plan.later :
                    (/\ Obj[u].kind \in Elements(SupportedResourceList) \ {"PV", "SC", "PVC"}
                     /\ "owned" \notin Obj[u].flags /\ Obj[u].ns # "cluster") => u \in backups[b].sent

=============================================================================
