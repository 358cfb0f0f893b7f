# A TLA+ verification of kahu

kahu backs up and restores Kubernetes applications: the objects of selected
namespaces go to a metadata service as an archive, the persistent volumes to
volume providers as snapshots. Its programs are Kubernetes controllers: they read
custom resources through informer caches, write them through the API server, and
take most of their decisions from the `status` and the annotations of an object
that other goroutines, other processes and users write too. What is hard about
it is there, and that is what this project models.

Paths are relative to `src/`. Line numbers of every definition are in
`PROJECT.json` under `map`.

## 1. Inventory

| component | state it keeps | operations | interacts through |
|---|---|---|---|
| Backup controller (`controllers/backup`) | `Backup.status` (stage, state), its annotations and finalizer; work queue; `processedBackup` store | `processQueue`, `syncBackup`, `deleteBackup`, `reSync`, the 5 s reconciler | API server, VBCs (VolumeBackupContents), hooks, metadata service |
| Generic controller (`controllers/controller.go`) | work queue, requeue counts | `Enqueue`, `processNextItem`, 3 retries | handlers of the controllers |
| Revision store (`utils/store.go`) | key to resourceVersion | `StoreRevisionUpdate`, `StoreClean` | backup and snapshot controllers |
| Volume groups, snapshots, VBC creation (`volume/`) | VolumeGroup, VolumeSnapshot, VBC objects | `Apply`, `WaitForSnapshotToReady`, `ensureVBCWithBackupSourceRef` | snapshot controller, volume backup service |
| Volume backup controller and service (`controllers/volumebackup`, `providerframework/volumeservice/backup`) | VBC phase, progress; operations in flight (`utils/operation`) | start, poll progress, time out, delete | gRPC driver, API server |
| Restore controller (`controllers/restore`) | `Restore.status`, VolumeRestoreContents | stages of `syncRestore`, mutators, hooks | metadata service, volume restore service |
| Volume restore service (`providerframework/volumeservice/restore`) | VolumeRestoreContent phase | as the backup service | gRPC driver |
| Snapshot controller, class syncer (`controllers/snapshot`) | `VolumeSnapshot.status`, driver to class map | `processQueue`, CSI snapshot creation; `processAdd`, `processDelete` | CSI snapshotter |
| Hooks (`hooks`) | none (effects in pods) | select pods, run commands, `Continue`/`Fail` policy, timeouts | backup and restore controllers |
| Selection for a backup (`controllers/backup/backupresources.go`, `dependencyresolver.go`, `resourcecollector.go`, `deployments.go`, `pod.go`, `rolescollector.go`, `utils/validations.go`) | a per-run cache, the process-wide list of supported kinds | include/exclude lists, dependencies, collectors | API server, metadata service |
| Selection for a restore (`controllers/restore/filters.go`, `resolver.go`, `mutators.go`, `restorehelper.go`) | the objects of one restore | filters, resolver, mutators | metadata service, API server |
| Metadata service, archiver, repository, NFS provider | a file per call in `/tmp`, the archives in the provider's store | `Backup` stream, `Restore` stream, `Delete`; `Upload`, `Download`, `Delete`, `ObjectExists` | backup and restore controllers |

Hard behaviours: every handler works on the lister's copy, which lags behind the
server; `Update` has an optimistic lock on the resource version and the merge
patches have none; the error of a failed status write is overwritten before it is
returned (`updaters.go:113-125`), so a handler may go on with an empty object; the
reconciler goroutine writes the same object as the worker; user deletion may come
at any moment; the process may stop between any two calls and its queue and store
are in memory only; the volume providers finish in any order, also before the
last VBC was created; calls of the metadata service for one name share a file.
`PROJECT.json` lists each hazard at its line together with
the properties that would catch it going wrong.

What makes each component correct:

* Backup controller: the stage only advances; applications are quiesced while
  snapshots are taken and resumed before the resources are archived and whenever
  the backup fails; a finished backup has all its volumes and its archive; a
  failed one stays failed; deletion leaves nothing behind and completes.
* Revision store: of two versions of an object the older never replaces the newer.
* Volume backup controller: every VBC gets its driver, and writing it undoes nothing.
* Volume services: one driver operation per content, a result is reported once, a
  time-out and a late answer do not both count; nothing is left at the driver.
* Restore controller: stages advance; no workload is created before its volumes are
  restored; a Completed restore has everything; a deleted one that did not complete
  leaves nothing behind; a restore ends.
* Snapshot controller: a VolumeSnapshot is ready only when every volume of it has a
  finished snapshot; every VolumeSnapshot is decided.
* Hooks: a hook that must succeed has succeeded when the stage completes, runs once,
  and the stage ends; no goroutine sends on a closed channel.
* Selection: what is selected is what the include/exclude lists say; claims and volume
  backups agree; references survive renaming.
* Metadata service: an archive that is delivered is one archive, and whole.

## 2. Plan

| order | module | contents | status |
|---|---|---|---|
| 1 | `BackupController` | one Backup, worker, reconciler, informer, resync, user, providers, faults, crashes | done |
| 2 | `BackupController_proofs`, `BackupPromises_proofs` | types, inductive invariant, stage monotonicity, applications resumed; deletion in order, failures final, snapshots only of quiesced applications, archives, post hooks after a volume | done |
| 3 | `VolumeBackupService`, `VolumeBackupContract`, `VolumeBackupService_proofs` | the VBC's life in the volume service; the abstract specification it implements; no start and no orphan without a failure; Completed means done; the safety part of the refinement | done |
| 4 | `VolumeBackupController`, `VolumeBackupController_proofs` | naming the driver of a VBC | done |
| 5 | `RestoreController`, `RestoreController_proofs` | one Restore, worker, reconciler, VRCs, deletion, crashes; its three invariants, no stage taken back, an unfinished restore leaves nothing | done |
| 6 | `VolumeRestoreService`, `VolumeRestoreService_proofs` | the VRC's life in the volume service; implements the same contract; no start and nothing left without a failure; Completed means done; the safety part of the refinement | done |
| 7 | `NameLists`, `HookSelection`, `RestoreHooks`, `RestoreHooks_proofs` | the resource stage of a restore with its hooks; no send on a closed channel, no hook twice without a failure, a completed stage has run its hooks | done |
| 8 | `VolumeSnapshotting`, `VolumeSnapshotting_proofs` | volume groups, snapshot controller, class syncer; ready means taken, no list twice without a failure | done |
| 9 | `ClusterObjects`, `BackupSelection`, `ArchiveCollection`, `RestoreSelection` | what is selected, archived, restored and renamed | done |
| 10 | `MetaService`, `MetadataPath` | the metadata service; selection, archive and restore composed with it | done |

Which module composes which:

    BackupController --- volume actions allowed by ---> VolumeBackupContract <--- implemented by --- VolumeBackupService
    RestoreController -- volume actions allowed by ---> VolumeBackupContract <--- implemented by --- VolumeRestoreService
    BackupController, stage Volumes, one step -----------------> opened in VolumeSnapshotting
    RestoreController, stages Resources and PostHook, three steps -> opened in RestoreHooks
    BackupController and RestoreController, collecting, streaming, populating -> opened in MetadataPath
    MetadataPath = MetaService + BackupSelection + ArchiveCollection + RestoreSelection

The Backup has no abstract specification of its own: what it promises (the stage never falls, a
deletion goes in order, failures are final, resumed before resources) is stated property by
property over `BackupController` and proved in two modules.

A module gets one safety run, one fair run where liveness is at stake. Promises of the
code's comments that the code breaks are stated in the modules too, with the
constants that show it in section 4.

## 3. The model

### 3.1 State of BackupController

`BackupController` follows one Backup. Keys of a work queue are independent of
each other but for the store entry of the empty object, which all backups share:
`emptyKey` starts with either value.

| variable | in the program |
|---|---|
| `api`, `watch`, `cache` | the object in the API server, the versions on their way to the informer, the lister's copy |
| `queued`, `requeues` | the key in the work queue, `NumRequeues` |
| `processed`, `emptyKey` | `processedBackup`: the revision of the key; whether an object without name was stored |
| `pc`, `w` | the next call of the worker in `processQueue`, and its copy of the object |
| `rpc`, `rc` | the same for the reconciler |
| `wanted` | the provisioners of the PVCs the backup selects |
| `vbc`, `vdel`, `attempt` | VBC objects with phase and deletion timestamp; every attempt creates new ones (their names are UUIDs) |
| `apps` | what the hooks made of the applications: all run, some stand still, all do; or the last hook run, pre or post, reported success over an error (`prePassed`, `postPassed`) |
| `archive` | the archive under the backup's name: none, stored, or left by a deletion that reported success |
| `faults`, `crashes` | counters of the bounded environment |

A Backup is reduced to resource version, stage, state, finalizer, deletion
timestamp, the four annotations that the code tests, and whether
`status.ValidationErrors` and `status.Resources` are filled (both decide whether a
status is written). `"unset"` stands for Go's empty string. `NoBackup` is both the
absent object and the empty one client-go returns with an error.

### 3.2 Actions of BackupController

The worker takes one step per call to the API server, hook run or gRPC stream;
what lies between two calls is local and is part of the step. Each value of `pc`
has one action, named for the code it stands for. Three operators carry the writes:

* `WriteStatus` is `UpdateStatus` with the optimistic lock, followed by
  `StoreRevisionUpdate` on its result. When the call fails the result is an empty
  object. Storing it succeeds the first time (the key `""` is new), which hides
  the error: the handler goes on with an empty Backup. From the second time on
  parsing its empty resource version fails, and that error is returned.
* `PatchBackup` is a merge patch without resource version.
* `AnnotateBackup` is the same with the error dropped.

A failed call may have taken effect (a lost reply) or not. `Updated` is the clone
that `updateBackupStatus` prepares: the stage is only raised. `ReturnErr` is the
retry limit of `processNextItem`.

The reconciler reads the lister, lists the VBCs, and acts on what it found in a
later step. Its loop stops at the first VBC that decides, and the order of the
list is arbitrary, hence `RcVerdicts` is a set.

The environment: `Informer` delivers versions in order; `ReSync` enqueues every
5 minutes; `UserDelete` and `UserTouch`; `ProviderFinishes`, `ProviderDeletes` and
`ProviderRemoves` for the volume service, which are the steps that
`VolumeBackupContract` allows it; `Crash`. `RemoveFinalizerPanics` is the
nil dereference in the error branch of `deleteBackup`, which ends the process.

### 3.3 Abstractions in BackupController

* The two hook phases are one step each. A run that returns an error has had any part
  of its commands carried out (`Rising`, `Falling`). One that returns nil has had all of them,
  or (`HooksLenient`) has passed over some: `CommonExecuteHook` only logs the error of a
  command unless onError is `Fail` (`hooks.go:158-167`, `182-187`), and a failed listing of pods
  counts as no pods (`hooks.go:194-232`). What it passed over is not followed, so `Held` and
  `Released` say "all but what the last successful run passed over", and so do the properties
  that use them.
* The repository drops the error of the provider's `Delete` and the service reports success
  (`backuprespository/client.go:205`): `DeleteMetadataBackup` may leave the archive (`"left"`),
  at the price of a fault. `MetaService` has the same in `NfsDelete`.
* Collecting resources (`Sync`) is one step that succeeds or fails, opened in
  `MetadataPath`.
* `processVolumeBackup` up to `WaitForSnapshotToReady` is one step, opened in
  `VolumeSnapshotting`: volume group and snapshots have no effect on the Backup until
  the VBCs are created. A PVC the API server returned that does not convert to its type
  is left out.
* Streaming the metadata is one step, opened in `MetadataPath`; a failed one may leave
  an archive.
* A Backup is created once: a second object of the same name is not modelled.
* Leader election and two running controller-managers are not modelled.

### 3.4 VolumeBackupService

One VBC in the service of a volume provider (`backupvolume.go`, `operation/manager.go`).
Two goroutines write it. The worker (`pc`, its copy `w`, the status `wnew` it is
about to write) initialises the VBC, adds the finalizer, asks the driver to start
the backup, records the handles, starts the operation; for a deleted VBC it writes
phase `Deleting`, deletes at the driver and removes the finalizer. The operation
(`opc`, `o`, `onew`) is `operate` of the operation manager with the handlers of
`backupProgressContext`: every 5 s it reads the lister, asks the driver for the
progress, writes progress and phase, and at its end calls the success or the failure
handler, which reads the lister again. Both write merge patches without resource
version: `Patched(old, new)` overwrites exactly the fields in which the writer's two
copies differ, whatever the server has in the others.

The driver is `starts`, `live` and `progress`: each `StartBackup` it carries out is
a run, whose volumes go from 0 to `Full` at any speed or not at all. A failed call
may have been carried out; for an unavailable driver the handlers return nil, for
another error the phase becomes `Failed`. `clock` counts progress time-outs (30 min):
a state is stamped with the period of its latest progress, and has timed out when a
period has passed since.

`due` and `InformerLags`: between two reads of the lister the operation waits 5 s.
With `InformerLags = FALSE` what was written before the wait has reached the informer
at its end; with `TRUE` nothing is assumed. `TypeOK`, `StartsPaidFor` and
`OrphansPaidFor` hold without the assumption too. `CompletedMeansDone` and
`FulfilsContract` need it: if an event takes longer than 5 s, `processBackupProgress` may skip a VBC of which it has only the
phase `New` and its success handler, with the event arrived in between, marks the
running backup `Completed`; or a tick after a time-out works from the copy before
it and turns `Failed` into `Completed`. TLC finds both within a few thousand
states when the constant is changed in `VBS.cfg`. The theorems about these two properties have
`~InformerLags` as their hypothesis (section 5).

Left out: the contents of the requests (`constructBackupRequest` succeeds or fails);
`isValidDelete`, which holds for every VBC because kahu creates them without owner
references; `CancelBackup`, which is unreachable from `processDeleteVolumeBackup` (it
asks for phase `InProgress` in the copy that was just patched to `Deleting`) except
when another write comes between, and has then the effect of the `DeleteBackup` that
follows. One service is running: the finalizer and the deletion path do not test
whose VBC it is, so two services would both handle each.

`VolumeBackupContract` is the abstract specification: a VBC is pending, ends once as
`Completed` or `Failed`, may be deleted, and goes only when deleted. The refinement
mapping (`Contract` in `VolumeBackupService` and `VolumeRestoreService`) takes every
other phase to `Pending`, as the reconcilers of the controllers do.

### 3.5 VolumeBackupController

The controller of the controller-manager that names the driver of a VBC. `w` is the
object passed to `UpdateStatus`. `ProcessQueue` changes `cache` too: the code sets
`Status.VolumeBackupProvider` on the pointer the lister returned. A VBC whose
provisioner is not in `volBackupSupport` is retried and never gets a driver, and
its Backup then waits until it is deleted. Of the volume service (`ServiceWrites`) there
are the writes only, each when the object allows it.

### 3.6 RestoreController

One Restore, its worker, the reconciler goroutine and the environment, with the same
conventions as `BackupController`: one step per call, `pc` and `w`, `rpc` and `rc`. It
differs where the code does. `updateRestoreStatus` compares resource versions
(`UpdateRestoreStatus`); a conflict or a failed call ends the handler, or, in three
writes of `applyIndexedResource`, is only logged and the handler goes on with the
status it could not write. There is no resync: `Informer` and the error of a handler are
the only ways back to the worker. The VRCs get random names, so `vrc` is indexed by attempt and
claim; the claims that a VolumeBackupContent covers are `backed`, the others get no VRC.

`bound` are the claims that exist and are bound, `applied` how many of the resources
exist (none, those a cleanup passed over, some, all), `hooked` whether the post hooks ran to
the end. `Classless` are the claims without a storage class. `deleteRestore` is five steps:
annotate and delete the VRCs, clean up the resources that the status lists, annotate,
list the VRCs, remove the finalizer. The calls of the first, one or two per VRC, are one step,
which may stop after any of them (`RemoveVolumeRestore`). The error of its last patch is overwritten by the
result of `StoreClean`.

What the code does here that a reader may not expect, all in the model:

* After a crash, a foreign write or a lost reply a Restore in stage `PostHook`, state
  `Processing`, is in no case of `syncRestore` and stays.
* `checkVolumeRestoreStatus` compares the number of completed VRCs with the number of
  claims; with VRCs created twice it may never be equal again, and a claim without VBC
  keeps the Restore `Processing` for ever.
* `Failed` may be overwritten by `Completed` when the VRCs were created twice.
* When `applyIndexedResource` fails, the resources before the failing one are there and
  stay: `ApplyResources` may leave everything applied and say `Failed`.
* A conflict in `patchRestoreObjects` is only logged: the status does not list the
  resources, and the deletion leaves them behind.
* The cleanup deletes what carries the identifier of the restore: CRDs and the default
  service accounts never get it (`mutators.go:355-366`), PersistentVolumes and
  PersistentVolumeClaims are passed over (`metadatarestore.go:452-455`), so that they may be left without any
  failed call (`Leftovers`; "kept": nothing else is left). A failed Get counts as nothing to
  delete, at the price of a fault.
* `ensureStorageClass` dereferences the class of a claim that has none
  (`volumerestore.go:503`, `514`) and the process ends, again after each restart
  (`PrepareVolumePanics`). A panic is counted as a crash, so that it is bounded; a restore with
  such a claim need not end, and `Terminates` leaves it out (`Restorable`). When the loop over
  the claims meets one whose class is not in the backup first, it returns an error instead.
* Post hooks without a wait timeout, the default, wait for their pods for ever
  (`restore_hooks.go:145-149`, `311-318`): the worker is not fair at this call, and `Terminates`
  and `VRCsGo` have the exception `WaitsForHooks`.
* Nobody writes `CompletionTimestamp`; a Backup that failed or is not finished is
  restored like any other.

Applying the resources is one step with an outcome here and is opened in `RestoreHooks`;
populating them is one step here and is opened in `MetadataPath`.

### 3.7 VolumeRestoreService

One VRC in the service of a volume provider (`restorevolume.go`), built as
`VolumeBackupService`. The differences follow the code: the first status is written
under the optimistic lock; an unavailable driver is an error; there is no phase
`Deleting`; a deleted VRC that is in progress or annotated for cleanup has its volumes
cancelled (`CancelRestore`), another one just loses its finalizer; a failed patch of the
progress makes the goroutine dereference nil (`OpUpdatePanics`), which restarts the
process. The service never compares the provider that a VRC names with its own, so that
every service that runs processes every VRC; one is modelled. A deleted VRC that has
ended is left out by the resync. The `InformerLags` assumption is that of 3.4.

### 3.8 NameLists, HookSelection and RestoreHooks

`NameLists` holds the include/exclude lists of `utils`: an exclude entry takes out one
occurrence of a name, so a name that two entries include and one excludes is left.
`HookSelection` is the selection of pods by hooks (`hooks/common.go`): by
namespace lists, labels, workloads and pod names; `lost` is the kind whose listing fails,
which the code logs and treats as empty.

`RestoreHooks` is the resource stage of one restore. The worker (`w`) collects the pods of
the external hooks, applies the resources in order, waits for the pods of a workload,
drains `hooksErrs`, runs the external hooks. Every pod of a restored
workload, or restored pod, gets a goroutine (`g[k]`), named by the pod and the place of the
resource that led to it: it groups its hooks by container
(`by`, in places of the list its hooks come from), watches the pod (`events` is what its informer
holds), runs the hooks of a container when it is running, sends its errors. The constant
`Goroutines` is the set of these names; `GoroutineAssumption` says that it is the one that follows
from the resources and the workloads' selectors; `ScopeAssumption`, that `Workloads` are those of
the cluster and of the archive and no others, and that a pod has a container, as the API server
demands. A resource that exists is left as it is, its hooks too; but when the Get that asks for it
fails, the code goes on as if it were absent, `Create` answers that it exists, which is ignored,
and hooks are started for pods the restore did not create (`applyPodResources`,
`applyWorkloadResources`). In the run this happens to the existing workload, which has no pods;
to an existing pod only in the theorems, as the instance with both exceeds the time of a run. `wg` is the wait group, `cancelled` the shared context, `closer`
the goroutine that closes the channel, `watcher` the goroutine that waits until a workload
can be listed. A send on the unbuffered channel is one step together with its receipt.
`runs` counts executions up to 2; `age` counts the periods of a wait timeout up to
`MaxAge`.

Abstracted: the command, its output, its timeout (a hook succeeds or fails); the contents of
an init container (its identity is in `inits`). Known and modelled: after a hook with
onError `Fail` failed its container stays in `byContainer`, so a later event may run its
hooks again (the restore fails then, too); an unset onError acts as `Continue`; pods
created after the second listing get no hooks; a bare pod that the selector of a restored workload
matches too has two goroutines, and its hooks run in both; a failed listing drops hooks; an
error of `applyResource` leaves goroutines blocked on the channel for ever; a restored pod that
was deleted and is created again starts afresh. A pod that exists before the restore may be
deleted, but does not end (`PodEnds`); to the hooks both look alike. Not modelled:
a specification with init hooks only, on which `collectAllRestoreHooksPods` panics.

### 3.9 VolumeSnapshotting

The attempt of the backup controller (`r`: group volumes by provisioner, create one
VolumeSnapshot each, poll with a timeout, create VBCs), the snapshot controller
(`w`: append the volumes to the status, annotate, start the goroutine), the goroutine of
every VolumeSnapshot (`h`: find the class, create the CSI snapshots, record them, poll, mark
ready) and the class syncer (`classes`, `known`, `selected`). A VolumeSnapshot
is named by its provisioner. `ProcessQueue` changes `cache`, because the
code appends to the status of the pointer that the lister returned. The goroutine works
through its own copy of the list of states (`todo`): `NextState` skips one that has a CSI
snapshot, as the loop of `Handle` does. `ExternalFinishes` stands for whoever
handles a VolumeSnapshot of a driver that is not CSI.

`MaxDisturbed` bounds failed calls, lost replies, outdated copies taken up, deleted classes and
crashes together; `MaxStates`, the longest list the model records, is above what is reached on
the run's instance, and at least the number of volumes of every provisioner
(`SnapshotAssumption`): a list that is recorded at all is recorded whole. Known and
modelled: a failed `UpdateStatus` leaves the appended states in the informer's copy, and the retry appends them again;
`processAdd` overwrites the decision by its own comparison; `processDelete` drops
the class although another one is there; `DeletedFinalStateUnknown` is ignored
(`processUnknown`).

### 3.10 From the cluster to the restored objects

`ClusterObjects` reduces a Kubernetes object to kind, namespace, name, labels, selector,
a few flags and the references it holds, each with the field that holds it. A name is a
sequence of parts, so that prepending a prefix and the `template-set-ordinal` names of a
StatefulSet's claims are what they are in the code.

* `BackupSelection`: `Sync` of a Backup: kinds, namespaces, names, labels, then the
  dependencies. Its PVCs are the volumes that get VBCs.
* `ArchiveCollection`: what `runBackup` sends. It reads the cluster again with its own
  rules. A collector is the set of objects it sends; `Error` is a member when a call
  fails, and what was sent before is any part of the rest. `getResultant` and
  `RemoveItem` keep the shared array of the process-wide slice.
* `RestoreSelection`: filters, resolver, mutators. The mappings of namespaces are applied in the
  order of Go's map iteration, hence `order`.
* `MetaService`: the three calls of the metadata service and the calls of the NFS provider.
  Files have an identity apart from their path: `Created` empties the file that is at the
  path, removing a path leaves the file to those who opened it. An archive is two
  chunks marked with the call that wrote them. The decompressor accepts only two chunks
  of one call: this assumes that no mixture of two streams has a valid checksum.
* `MetadataPath` composes them: Backups and Restores of a plan, the service, one
  change of the cluster after the Backups synced, crashes of the backup controller.

Abstracted: the objects' remaining fields; `RunBackup` reads the cluster and sends in one
step (`Change` comes before or after it); the archive of a Backup in stage
`Completed` only is deleted, as in `deleteMetadataBackup`.

Known and modelled: a Restore's `includeNamespaces` have no effect (`filters.go`) and a
resource entry with a plain name matches nothing; a restore that filters by label or
kind may hold a claim without its VBC and then waits for ever (hence the conditions of
`VolumesAgree`); prefixes are not given to the volumes that a StatefulSet's own pod template names, to
environment references, to a RoleBinding's ClusterRole, and to other pods' references to a
StatefulSet's claims (hence `Followed`); a template without class stops the resolver; a chain
of namespace mappings depends on map order (hence `Separate`); a claim with class `""`
cannot be restored; a partial archive of a Failed Backup is kept and never deleted; an
error of the provider's `Delete` is dropped; a failed `Download` leaves its file, after which a
`Backup` of that name is refused until the service restarts; two calls for one name may
truncate or remove each other's file, so a `Backup` may report success for an archive that
no `Restore` can read.

Not modelled: a nil dereference on an environment variable without `valueFrom` in an ephemeral
container and on a StatefulSet template without class; the error of `ListNamespaces`
(`backupmetadata.go:150`), which is dropped, so that a Backup is Completed with an empty
archive; regular expressions, which are the set of names they match.

## 4. Runs

| run | instance | checks |
|---|---|---|
| `backup_faults` | at most one provisioner, one fault and one crash, hooks may fail or pass over errors, two attempts | `IInv`, `SnapshotsWhileQuiesced`, `ResumedBeforeResources`, `FinishedHasArchive`, `StageMonotone` |
| `backup_volumes` | up to two provisioners (symmetric), one fault, deletion | `NoOrphanVBC`, `PostHookAfterSomeVolume`, `FailedIsFinal`, `ArchiveDeleted` |
| `backup_liveness` | fair; at most one provisioner, deletion, post hooks do not fail | `Terminates`, `DeletionCompletes`, `Resumed` |
| `vbs` | fair; two volumes, one disturbance, deletion | `CompletedMeansDone`, `StartsPaidFor`, `OrphansPaidFor`, `FulfilsContract` |
| `vbc_assign` | two faults, one crash, deletion | `IInv`, `PhaseKept` |
| `restore` | two claims, one of them without a class, one disturbance, deletion, two attempts | `VolumesBeforeResources`, `FinishedMeansRestored`, `NoOrphanVRC`, `OnlyForward`, `UnfinishedLeavesNothing` |
| `restore_liveness` | fair; two claims, one of them without a class, undisturbed, deletion | `Terminates`, `VRCsGo` |
| `vrs` | fair; two volumes, one disturbance, deletion | `CompletedMeansDone`, `StartsPaidFor`, `CleanedUp`, `FulfilsContract` |
| `restore_hooks` | fair; a bare pod, a workload's pod with two containers, a workload with its pod that exists before; two hook lists; one failed call | `NoSendOnClosed`, `CompletedMeansHooksRan`, `RunsOnceUnlessFailed`, `StageEnds` |
| `snapshot` | fair; a CSI driver with two volumes or another provisioner with one; one disturbance | `StatesPaidFor`, `ReadyMeansTaken`, `Decided` |
| `metadata_path` | about 200 plans: selections, clusters that change or cannot be read, calls for one name at once, one crash, one failure | `ReceivedWhole`, `VolumesAgree`, `ResolverSucceeds`, `RefsKept` |
| `metadata_supported` | two Backups, the first excludes a kind as a whole | `EmptyIncludesAll` is violated |

The `TypeOK` of a module whose run has no `IInv` was checked with the same configurations; the
runs list the properties that say something of the code.

What the properties say:

* `StageMonotone`: no write moves the stage back. Not obvious, because the worker
  writes clones of copies it read before hooks that take minutes, and because a
  lost reply makes it start again from an older copy.
* `ResumedBeforeResources`: in stage `Resources` and later the last hook run was a
  successful run of the post hooks. It would break if a stale copy of stage `PreHook` passed the
  store after the post hooks ran.
* `SnapshotsWhileQuiesced`: the last hook run was a successful run of the pre hooks, also in a
  retry, also with a restart. What a run that reports success may have passed over is said in 3.3.
* `PostHookAfterSomeVolume`: what is left of `PostHookAfterVolumes`, which is violated with two
  provisioners: no annotation of an earlier attempt, no stale copy and no lost reply takes a
  Backup past stage `Volumes` before a volume is backed up.
* `FinishedHasArchive`, `FailedIsFinal`, `NoOrphanVBC`, `ArchiveDeleted`: the
  outcome recorded in the object is what happened, and deletion leaves nothing but an
  archive that the provider failed to delete.
* `Terminates`, `DeletionCompletes`, `Resumed`: the progress that depends on
  resync, reconciler and worker together. `Resumed` leaves deletion out: `deleteBackup`
  runs no post hooks, so a Backup deleted while its applications are quiesced leaves
  them so.
* `StartsPaidFor`, `OrphansPaidFor`, `CleanedUp`: the driver is asked again, and
  something is left at the driver, only at the price of a failed call or a crash.
  Stale copies, the resync, panics and a deletion at any moment cost nothing.
* `CompletedMeansDone`, `FulfilsContract`: what the controllers read from a VBC or VRC is
  true, changes only as the contract says, and comes. `FulfilsContract` is the refinement
  of `VolumeBackupContract` with its fairness.
* `PhaseKept`: naming the driver undoes nothing.
* `VolumesBeforeResources`, `FinishedMeansRestored`, `OnlyForward`: a restore's stage is
  true whatever copy was written, also after the three writes whose errors are ignored.
  `VolumesBeforeResources` is about VRCs that were created once; what happens otherwise is
  `AllClaimsRestored` below.
* `NoOrphanVRC`, `UnfinishedLeavesNothing`, `VRCsGo`: what a deletion leaves, with the
  conditions under which the code keeps that promise. `Terminates` of `RestoreController` has
  conditions too: every claim has a class, one of them a volume backup if there are any, and the
  post hooks do not wait for ever.
* `NoSendOnClosed`, `CompletedMeansHooksRan`, `RunsOnceUnlessFailed`, `StageEnds`: the
  synchronisation of the hook goroutines, and what a completed stage has done.
* `ReadyMeansTaken`, `StatesPaidFor`, `Decided`: what the polling backup relies on.
* `ReceivedWhole`: the service has no lock per name; still no Restore ends well with
  part of an archive or a mixture.
* `VolumesAgree`, `ResolverSucceeds`, `RefsKept`: code that selects, resolves or renames the
  same objects in different places agrees.

The violation run is a disagreement between code and a comment, described under
`findings`: the process-wide list of kinds is changed in place.

### Promises that the code breaks

Stated in the modules, in no passing run. Each is violated with the constants given (the
others as in the module's configuration).

| property | constants | what happens |
|---|---|---|
| `PostHookAfterVolumes` (`BackupController`) | `Spec`, `Provisioners = {p1, p2}`, `SupportedResources = TRUE`, `MaxRetry = 3`, `MaxAttempts = 1`, no faults or crashes, no hook fails, `HooksLenient = FALSE`, no deletion | the reconciler lists the VBCs while the second is not yet created and annotates completion: the post hooks run and the backup goes on without the second volume (`volumebackupreconciler.go:127`, against `apis/kahu/v1beta1/backup.go:140`) |
| `DeletesOnce` (`BackupController`) | `Spec`, `{p1}`, `SupportedResources = TRUE`, `MaxRetry = 3`, `MaxAttempts = 2`, hooks may fail, `HooksLenient = FALSE`, `UserDeletes = TRUE` | `StoreClean` forgets the key while the lister still has the object (`backupcontroller.go:278`); the second removal of the finalizer dereferences nil |
| `PreHookFailureReversed` (`BackupController`) | `FairSpec`, `{p1}`, `MaxAttempts = 2`, `MaxCrashes = 1`, pre hooks may fail | a crash between writing `Failed` and running the post hooks (`backupcontroller.go:326`, against the comment at `:560`) |
| `DeletionCompletes` (`VolumeBackupService`) | `FairSpec`, `{v1}`, `MaxStarts = 3`, `MaxRetry = 1`, `MaxDisturbed = 2`, `MaxPeriods = 1` | the resync passes over an ended VBC whose deletion used up its retries (`backupvolume.go:161`) |
| `CompletedMeansDone` (`VolumeBackupService`) | `InformerLags = TRUE` | see 3.4 |
| `FulfilsContract` (`VolumeBackupService`) | `VBS.cfg` with `Volumes = {v1}`, `MaxDisturbed = 2` | the driver refuses the start, `updateStatusWithFailure` records `Failed` but its reply is lost; the error it returns (`backupvolume.go:576`) has the worker try again with a copy of phase `New`, and its patch puts `InProgress` over `Failed`. What `BackupController` assumes of the volume service has this exception, which `ServiceSteps` proves to be the only one |
| `DriverNamed` (`VolumeBackupController`) | `FairSpec`, `MaxRetry = 3`, `MaxFaults = 1`, deletion | only the informer's copy names the driver (`volumebackup/controller.go:187`) |
| `SurvivesCrash` (`RestoreController`) | `FairSpec`, `PVCs = {p1}`, `Classless = {}`, `MaxRetry = 1`, `MaxAttempts = 2`, `MaxDisturbed = 1`, no deletion | stage `PostHook`, state `Processing` is never taken up (`restorecontroller.go`, against the comment at `:366`) |
| `AllClaimsRestored` (`RestoreController`) | `Spec`, `PVCs = {p1, p2}`, `Classless = {}`, `MaxRetry = 1`, `MaxAttempts = 2`, `MaxDisturbed = 1` | after a crash that made the VRCs be created twice, two finished volumes of one claim are counted for two claims, and resources are applied without the other (`volumerestore.go:171`, against the comment at `:186`) |
| `InitHooksApplied` (`RestoreHooks`) | a hook list whose hook has `init` and selects the pod `job` | the pod is looked up before it is created (`hooks/common.go:117`) |
| `CreatedOnce` (`VolumeSnapshotting`) | `VolumeSnapshotting.cfg` with `MaxDisturbed = 0` | the resync starts a goroutine from a copy of before the first one recorded its snapshots (against the comment at `snapshot/csi/handler.go:87`) |
| `ClassSelected` (`VolumeSnapshotting`) | `Classes = {"c1", "c2"}` | `processDelete` drops the selection although another class remains (`snapshotclassync.go:169`) |

### Bounds

`BackupController`: `MaxAttempts` bounds the runs of `processVolumeBackup` that take
snapshots; two are needed for a retry to meet the VBCs of an earlier attempt. At the
bound the step is not enabled, so the worker waits there; the fair run, without faults,
needs at most one attempt, so that the bound hides no livelock. `MaxFaults` counts failed
calls and foreign writes: one of them, at any place, gives every single-failure
behaviour, and since a lost reply already puts the worker one write behind, a second one
adds length rather than new relations between the copies (the proofs hold for any
number). `MaxCrashes` is alike. `MaxRetry` is the code's 3 in `backup_faults` and 1 in the
two larger runs: what matters is whether the faults exceed it. `backup_volumes` needs
two provisioners for "one failed, the other not yet"; they are interchangeable, hence the
symmetry (`MCBackupController`), which is sound as the run has invariants and action
properties only; hooks do not fail there, which `backup_faults` covers, and the resources
annotation is used in `backup_liveness` only. In `backup_liveness` hooks do
not pass over errors: the hook runs have the same successors otherwise. `wanted`, chosen in `Init`, gives the backups with fewer, or no,
volumes. Resource versions and the watch need no bound: every write advances one of the
bounded quantities.

`VolumeBackupService`, `VolumeRestoreService`: `MaxDisturbed` bounds failed calls and crashes together;
`MaxStarts` is one more than the starts that `StartsPaidFor` allows, so that the bound
cannot hide a violation. `Full` is 1 (not finished, finished): the code
compares progress with 100 and with the recorded value only. Two volumes give "one
finished, one not". `MaxPeriods` (3 and 2) is as many timeouts as can be needed: a clock
that stops too early shows as a violation of `FulfilsContract`. `MaxRetry` is 1 in place
of 3.

`RestoreController`: of the two claims one may be without a class, which makes the worker panic;
`wanted`, chosen in `Init`, gives the restores with fewer claims. One claim is enough for "created
twice" (two attempts) and "not backed". With several claims the counting of finished volumes
matters: it fails only after VRCs were created twice (`AllClaimsRestored`), and
`VolumesComeFirst` proves for any number of claims that it is right otherwise. The
liveness run has attempts to spare (3), as the bound may not hide a livelock.

`RestoreHooks`: the two hook lists hold a hook that must succeed with a timeout beside one that
may fail in another container, and a hook without a timeout that selects a restored
and, by exclusion, not the old pod. `VolumeSnapshotting`: one disturbance, as above; the
fair run has no bound that could stop a step.

`MetadataPath`: the plans are every combination of a few lists for one Backup, every combination of
a few lists, mappings and prefixes for one Restore, five clusters with trouble
(objects owned, lost, without class, appearing late), and four plans in which calls
overlap, a process crashes or the provider fails. `MaxCalls = 3` allows a Backup between
two Restores, or a retried Backup, of one name.

Deadlock is checked where the object is not deleted and the system never stops
(`backup_faults`). Elsewhere the system ends when the object is gone or the stage is over.

### Fairness

The `FairSpec` of every module assumes weak fairness of goroutines that the program
starts: workers, reconcilers (`wait.Until`), operations, hook goroutines, informers
(client-go's reflector), and the resync where the controller has one; and of the passing
of time where the code has a timeout. `BackupController` and `RestoreController` assume
it also of the volume services, which is `FulfilsContract` of the two services: a
30 minute progress timeout turns a volume that makes no progress into a failed one.
`VolumeBackupService` assumes that the driver of a VBC is named. No fairness is
assumed for users, pods, drivers, classes, faults or crashes, and none for the choice
between success and failure of a hook, a stream or a volume. The worker of
`RestoreController` is not fair while it waits for post hooks. `VolumeSnapshotting` assumes it of the
goroutine's own timeout, so a CSI driver that never finishes is covered.

## 5. Proofs

`BackupController_proofs` proves for every set of provisioners and every value
of the bounds:

| theorem | states |
|---|---|
| `TypeCorrect` | `Spec => []TypeOK` |
| `Inductive` | `Spec => []IInv` |
| `StageNeverLowered` | `Spec => StageMonotone` |
| `Resumes` | `Spec => []ResumedBeforeResources` |

The only assumption is `BackupAssumption`, the types of the constants.

The stage can be lowered only by a status write that passes the optimistic lock
from a copy with an older stage, and applications can be quiesced again only if
the worker enters stage `PreHook` from an old copy. Neither property is
inductive. `IInv` adds how far the copies may lag:

1. `CopiesAgree`: an informer or reconciler copy with the server's revision is the
   server's object.
2. `BoundedLag`: a copy that the processed store lets through is at most one stage
   behind, because the store remembers the worker's own writes; only a write whose
   reply was lost is missing from it.
3. `WorkerAgrees`: the worker's copy is at most one stage behind, and not behind
   when it has the server's revision (its in-memory stage may be ahead).
4. `FreshCopies`: when the worker's next write may succeed, no copy the store lets
   through is behind: so that the write, if its reply is lost, adds one stage only.
5. `WorkerStage`, `ResumedAtToResources`: where the worker is tells its stage, and
   it enters stage `Resources` only after a run of the post hooks that reported success.

`Inductive` and `Resumes` hold for `HooksLenient` of either value: they are about the order of the
hook runs and of the stages, and say of the applications what a successful run of the hooks does
(3.3).

A worker that is one stage behind has stage `PostHook` at the least when the object
is in stage `Resources`, and there it can run post hooks, never pre hooks. That is
why one stage is enough, and why losing the memory of the store (the mutant
`StoreRevisionForgets`) breaks it.

The proof of `BackupController_proofs` has one lemma per client call (`WriteKeeps`, `PatchKeeps`,
`AnnotateKeeps`, `LocalKeeps`, `RestartKeeps`), and one per group of actions
(`ProcessKeeps`, `StagesKeep`, `VolumesKeep`, `DeleteKeeps`, `ReconcilerKeeps`,
`EnvironmentKeeps`) that cites them.

### BackupPromises_proofs

On top of `BackupController_proofs`, from the same assumption:

| theorem | states |
|---|---|
| `AllInductive` | `Spec => []AllInv`, that is `IInv`, `DeletionInv`, `OrderInv` and `PromiseInv` |
| `NoVBCIsOrphaned` | `Spec => []NoOrphanVBC` |
| `SnapshotsAreQuiesced` | `Spec => []SnapshotsWhileQuiesced` |
| `FinishedIsArchived` | `Spec => []FinishedHasArchive` |
| `VolumesAreSaved` | `Spec => []VolumesSaved` |
| `PostHookWaits` | `Spec => []PostHookAfterSomeVolume` |
| `FailureIsFinal` | `Spec => FailedIsFinal` |
| `ArchiveIsDeleted` | `Spec => ArchiveDeleted` |

The three invariants and `VolumesSaved` stand at the end of `BackupController`; TLC found each of them, and the
conjunction of the three, invariant on the instances of `backup_faults` and `backup_volumes` before they
were proved.

1. `DeletionInv`: finalizer and deletion timestamp stay while the object exists and
   reach the informer in order. Whoever works on the backup behind the finalizer, and every
   VBC, is protected by it (`FinalizerHeld`); the worker deletes only when the
   informer's copy is marked, and then no version is left that it could take a backup up from
   (`DeletionOrdered`), so that no VBC is created between the listing and the removal
   of the finalizer (`NothingLeft`).
2. `OrderInv`: a later version is at no earlier stage than an earlier one, and still failed
   if that one had failed after its validation (`VersionsInOrder`). A failure could be undone in
   two places. A status write from a copy with the server's revision starts from the server's
   status (`WorkerEqual`). A patch is stored over any revision, but keeps the
   status; so what matters is which copies start from the beginning, and
   `StartsEarly` says that the store lets a version without a stage through only as long
   as the object has not failed. `Taken` ties the worker's copy to the store;
   `FailureHasCause` and `FailedNotCompleted` say why the reconciler and `annotateBackup`
   never meet: one has a failed VBC, the other all completed or none.
3. `PromiseInv`: stage `Volumes`, state `New` promises that the last hook run was a successful run
   of the pre hooks, in
   every version the processed store lets through and in the worker's copy (`Quiesced`). They
   are resumed by the calls `preReverse`, `volReverse` and `postExec` only, and there
   `VersionsInOrder` leaves no such version, because the worker's own is failed or of a
   later stage. Stage `Finished`, and state `Completed` of stage `Resources`, promise the archive
   (`ArchiveKept`); `deleteBackup` decides from its copy whether there is one, which is
   right because the copy is at most one stage behind (`ArchiveGoes`). Behind it the archive is
   gone, or left by a provider that failed to delete it.
4. `VolumesSaved`, on top of them: where the object or a copy of it says that the volumes are
   backed up, by its annotation, by stage `Volumes` with state `Completed` or by a later stage,
   some volume of the backup is in fact (`SomeVolumeSaved`), or it has none. That is all the
   reconciler makes sure of: it annotates when all the VBCs it lists are completed, and it
   lists while `ensureVBCWithBackupSourceRef` is still creating them. `PostHookWaits` follows
   from it, for any number of provisioners; that all volumes are backed up does not, and is
   violated with two (section 4).

The proofs do not go through the actions for every invariant again. A first part shows
that every action of the worker between the finalizer and the end of its run is a `QuietStep`,
a `StatusStep`, a `PatchStep` or an `AnnotateStep` (`WorkSteps`), and gives the
outcome of every other action in the same terms; the lemmas `...KeepsDeletion`,
`...KeepsOrder` and `...KeepsPromise` are about these kinds of steps.

### VolumeBackupController_proofs

`VolumeBackupController_proofs` proves, from `ControllerAssumption` (the types of the
constants), `CopiesInvariant` (`Spec => []IInv`) and `StatusSurvives`
(`Spec => PhaseKept`). `UpdateStatus` replaces the whole status, so the phase is safe
only if the copy it writes has the server's phase whenever it has the server's
revision. `processQueue` makes the informer's copy differ from every version the
server ever had, in the driver; `IInv` says that this is the only difference.

### RestoreController_proofs

From `RestoreAssumption` (the types of the constants), for every set of claims and every
value of the bounds:

| theorem | states |
|---|---|
| `TypeCorrect` | `Spec => []TypeOK` |
| `DeletionInOrder` | `Spec => []DeletionInv` |
| `NothingOrphaned` | `Spec => []NoOrphanVRC` |
| `StatusInOrder` | `Spec => []StatusInv` |
| `RestoredWhenFinished` | `Spec => []FinishedMeansRestored` |
| `VolumesComeFirst` | `Spec => []VolumesBeforeResources` |
| `StageGoesForward` | the stage in the API server never moves back (the first half of `OnlyForward`) |
| `StatusGoesForward` | `Spec => OnlyForward` |
| `RemovalInOrder` | `Spec => []RemovalInv` |
| `UnfinishedGoesClean` | `Spec => UnfinishedLeavesNothing` |

The argument has five layers, each inductive on top of the one before it.

1. `DeletionInv`: the finalizer and the deletion timestamp, once set, stay, and reach the
   informer in order. Whoever creates a VRC works behind the finalizer
   (`FinalizerHeld`); whoever removes the finalizer has listed the VRCs after the
   deletion was visible in the cache (`DeleterKnows`), and nobody creates another from then
   on. `NoOrphanVRC` is a part of it.
2. `StatusInv`: every copy is behind the server, and equal to it when it has its revision.
   The exception are the calls `Ahead`, which run with a status that the server
   refused because the error is only logged: there the worker's copy may be ahead, but
   only after stage `Volumes`. `BoundedLag` is what the processed store is for: what it lets
   through is not so old that the worker would create VRCs again behind the stage `Volumes`.
3. `ResourcesTrue` and `VolumesTrue`: what a stage promises holds in every copy of the
   object, in the worker's too, because a write copies it forward. The counting in
   `checkVolumeRestoreStatus` is right while every VRC is of one attempt: it needs that finished
   VRCs and claims are then in bijection (`CountedMeansBound`).

4. `QuietInv`, for the second half of `OnlyForward`: what holds as long as no call failed,
   nobody else wrote the object and nothing crashed (`Quiet`). The copies the store lets
   through then have the server's status, or are the ones the reconciler turned into a
   failure since (`QuietServer`); the worker's copy has the revision the store knows
   (`QuietWorker`), so that one with the server's revision has its status, and says `Failed`
   only in `popFailed2`, where `syncRestore` writes the failure of
   `populateRestoreResources` once more; every other write over a failure has an old
   revision and is refused. The difficult case is a worker that goes on over a failure it has
   not seen: it would write `Completed` after `checkVolumeRestoreStatus`. VRCs are created a
   second time only after a conflict of the write that says `Processing`, so this state
   stems from the first attempt, and the VRCs counted are all of them (`QuietVolumes`,
   `CountedMeansAll`); the reconciler says `Failed` only for a failed VRC, or when the
   deletion has been seen. `FailedStays` covers the step that disturbs first as well. `QuietInv`
   was model-checked on one and on two claims with three attempts before it was proved.

5. `RemovalInv`, for `UnfinishedLeavesNothing`: what holds of an existing restore as long as
   no call failed, with any number of foreign writes and crashes. `FinishedIsCompleted`: a
   deletion that finds its copy unfinished is not wrong about it, because no write puts another
   state beside the stage `Finished`. `ResourcesListed`: once the status in the
   server lists the resources, every copy the store lets through lists them, so
   `cleanupRestoredMetadata` works from the list, and behind it only resources are left that it
   passes over (`CleanedUp`); the worker tells the store of the write that
   adds the list, and a worker that starts again after a crash begins with the server's
   object. `TakenAlong`: every bound claim has a VRC that still exists, and a VRC with a
   deletion timestamp is annotated for the cleanup of its volume; with `NothingLeft` of
   the first layer no claim is left behind the finalizer. A failed call breaks each of the
   three, which is why the property allows for it. It was model-checked on one and on
   two claims before it was proved.

`StageGoesForward` follows from the second layer: the server's newest version is always the
last one the informer has or will be told of (`ServerKnown`), so that after a write the old
object is among the copies, and none of these is ahead of the new one.

Only model-checked of this module: the liveness properties.

### VolumeBackupService_proofs and VolumeRestoreService_proofs

From `ServiceAssumption` (the types of the constants), for every set of volumes, every bound and
both values of `InformerLags`:

| module | theorem | states |
|---|---|---|
| both | `TypeCorrect` | `Spec => []TypeOK` |
| both | `Inductive` | `Spec => []IInv` |
| `VolumeBackupService_proofs` | `StartedOnce` | `Spec => []StartsPaidFor` |
| `VolumeBackupService_proofs` | `NoOrphans` | `Spec => []OrphansPaidFor` |
| `VolumeRestoreService_proofs` | `CreatedOnce` | `Spec => []StartsPaidFor` |
| `VolumeRestoreService_proofs` | `CleanedUpWhenGone` | `Spec => CleanedUp` |

`StartsPaidFor` is a count, `starts <= 1 + Disturbances`. It is not inductive: the worker
may hold a copy of phase `New` of which the driver has been asked already. `IInv` keeps the
books. A status is `Settled` if every start is paid for, or if it lets nobody start
again and names a run; every copy that the store lets through, and the worker's own, is
settled, unless the worker has just asked the driver (`pc = "started"`, or `"created"`) and
the patch with the handles is still to come. Then the patch settles the books, or its
failure or the crash pays. `HandlesKnown` says that no status names a run that was not
recorded, so that the patches of two goroutines without a revision cannot mix
handles of different runs. `FinalizerFirst` has the driver asked only
behind the finalizer, so that the deletion meets the handles; `DeletionLast` (in the
restore service: the annotation of the cleanup comes before the deletion) is the order
of events the deletion path relies on.

`CleanedUp` is about the step that removes the object: `WhoRemoves` shows that it is the
removal of the finalizer or a deletion without one, and `IInv` that at both nothing is
left unpaid.

With `~InformerLags` as a hypothesis besides, for any number of disturbances unless one is named:

| module | theorem | states |
|---|---|---|
| both | `CompletedIsDone` | `Spec => []CompletedMeansDone` |
| `VolumeBackupService_proofs` | `ServiceSteps` | every step is `Contract!Next`, or the one over a lost refusal (`ServiceStep`) |
| `VolumeBackupService_proofs` | `ServiceImplements` | `Spec => Contract!Spec`, if `MaxDisturbed <= 1` |
| `VolumeRestoreService_proofs` | `ServiceImplements` | `Spec => Contract!Spec` |

The hypothesis is needed: without it TLC violates `CompletedMeansDone` (3.4). `PromptInv` says, next to
`IInv`, what is true when the events of a poll interval have arrived at its end. The versions on
their way to the informer follow each other in revision, and none goes back behind the start of
the backup (`VersionsInOrder`). The worker may be behind, but never while an operation is
registered (`OneAtATime`): that is what keeps its patch of `InProgress` away from an ended
content. The operation is the only writer of handles and progress from the start on, so that the
ones of its copy are the server's, and a copy it does not skip has the phase of the server or one
that the deletion replaced (`OperationAhead`). No copy says more progress than the driver made, and
the run of an object that is not being deleted exists at the driver (`DriverKnows`). In the backup
service a worker whose refusal was lost knows nothing of `Failed` (`MayStart`); it takes the failed
call and the lost reply, two disturbances, which is why `ServiceSteps` has an exception and why
`vbs`, with one, passes. In the restore service every attempt first writes
the status under the optimistic lock (`restoreInitialize`), which refuses a copy that missed the
failure (`WorkerBehind`), and its theorem needs no such bound.

TLC held `PromptInv` and the step property on one volume with two disturbances (443,000 states) and
with three (2.9 million) for the backup service, and with three disturbances and four starts for
the restore service (1.6 million), before they were proved.

The fairness in `FulfilsContract` and the liveness properties stay model-checked.

### VolumeSnapshotting_proofs

From `SnapshotAssumption` (the types of the constants; the bound `MaxStates` is not below the
length of a list of volumes), for every set of provisioners and volumes:

| theorem | states |
|---|---|
| `TypeCorrect` | `Spec => []TypeOK` |
| `Inductive` | `Spec => []IInv` |
| `StatesArePaidFor` | `Spec => []StatesPaidFor` |
| `ReadyIsTaken` | `Spec => ReadyMeansTaken` |

The informer's copy is the worker's scratch paper here: the code appends to the list of states
of the lister's pointer, fails to write it, and appends again on the retry. `IInv` says what
is nevertheless true, in four parts after the types:

1. `CopiesAgree`: a copy of the server's revision differs from the server's object in the
   list of states only, and the worker's not even there once its list is written.
2. `ListsRecorded`: every list, of the server or of a copy, is empty or names every volume, and
   refers only to CSI snapshots created for the volume.
3. `GoroutineKnows`: a goroutine runs only for a recorded list, and when it is about to
   write "ready", every volume of the server's object has a finished CSI snapshot. Its
   last poll reads the server, not its own copy; what was finished stays so.
4. `ListsPaidFor`: the account behind the bound. `1 + faults + crashes` lists is one more than
   was paid for. The credit is held by the server's object, by the informer's copy of its revision
   or by the worker, never by two of them: which is why the invariant speaks of the
   worker that has the list in hand (`Appending`, `InHand`).

The proof first reduces the actions to few shapes (`StepShape`): a step leaves the
VolumeSnapshots alone (`Quiet`), writes a new revision of one from the current one
(`Rewrites`), is a write of the worker (`WorkerWrote`) or takes one up (`TakesUp`). Every part
of `IInv` is then a lemma about shapes. `Decided` is liveness, and stays with TLC.

### RestoreHooks_proofs

From `ClusterAssumption` and `StageAssumption` (the types of the constants, finitely many pods and
workloads), `ScopeAssumption` and `GoroutineAssumption` (3.8), and `HookAssumption` (a hook's id names its place in the
specification, so it occurs once in a list):

| theorem | states |
|---|---|
| `TypeCorrect` | `Spec => []TypeOK` |
| `Inductive` | `Spec => []IInv` |
| `NoSendAfterClose` | `Spec => []NoSendOnClosed` |
| `RunsOnce` | `Spec => []RunsOnceUnlessFailed` |
| `HooksRanWhenCompleted` | `Spec => []CompletedMeansHooksRan` |

That nobody sends on the closed channel rests on three facts, and each needs the others
(`CountInv`):

1. `Counted`: the wait group is the number of goroutines that were started and are not through,
   plus one while a workload's pods are still to be listed. That extra unit is what keeps
   it from reaching zero between a workload's creation and the start of its goroutines.
2. `StartedOnce`: goroutines exist for resources before the current one only, so those a resource
   starts are new, and as many as the pods that were added to the wait group. This is where
   the name of a goroutine needs the resource: by pods alone the count would be wrong
   for a pod that is found twice.
3. `ClosedLast`: the closing goroutine starts after the last resource, and closes at zero. After
   that nothing is counted again.

`HooksInv` says where each goroutine is: until one of its hooks fails, what it has run
(`runs`) is not among the places still `Ahead` of it, which are those of the containers in
`byContainer` less those before the current one. It needs that a place belongs to one
container, and that two places hold different hooks. After a failure it says nothing, and
the code indeed may run hooks again; the error is then on its way to the worker.

All steps of goroutines are reduced to one shape (`Moves`), from which `MovesKeeps` proves the
invariant; those of the worker, the watchers and the cluster to three (`QuietKeeps`, `StartsKeep`,
`AloneKeeps`). The bound of the wait group in `TypeOK` follows from `Counted`: it never falls
below zero, which would panic in Go.

That a completed stage has run its hooks rests on `RanInv`, beside `IInv`:

1. `Found`: the workloads that are there are those applied so far (and the one just created), and
   every pod with a goroutine is there or was.
2. `RanWell`: while none of its hooks failed, what a goroutine has run and had to succeed did, and
   of the container it is at, the hooks before the current one have run.
3. `CoveredPods`: while no call failed, each pod that was reached has *some* goroutine that forgot
   nothing (`NoneForgotten`): every hook that is `Due` there is in `byContainer` or has run, and
   when the goroutine is through, it succeeded.

`Due` counts the hooks that select the pod by itself or through a workload applied so far, so it
grows with the resources. A goroutine that grouped its hooks earlier does not see a hook that
selects its pod through a later workload; but that workload's own listing starts a second
goroutine for the pod, which does. The invariant is for that reason about pods, not goroutines,
and existential: of a single goroutine it would be false. Lemma `SelectedBy` says that a hook that
selects a pod through a set of objects does so by the pod itself or through one workload of the
set; `DueGrouped`, that grouping misses nothing when no listing fails. At the end all workloads are applied
(`AllApplied`, from `ScopeAssumption`), so `Due` is all the property asks for, and the channel is
closed, so every goroutine is through (`ClosedMeansThrough`). TLC checked `RanInv`
first, on the run's instance and on one where the workload of a bare pod is restored after the pod.

### What is model-checked only

Liveness, and the fairness part of the refinements, which the prover cannot treat; the invariants of
`MetadataPath` (`ReceivedWhole`, `VolumesAgree`, `ResolverSucceeds`, `RefsKept`). What those say
depends on what the selection operators compute over the objects of a plan, and the resolver of
dependencies (`Resolve`) is a RECURSIVE operator, so nothing can be proved in a module
that reaches it: they are checked over the plans of the run.

## 6. Not modelled

* Start-up, flags and leader election: wiring, no protocol of its own; leader election is
  client-go's.
* Generated clients, informers, deep copies and protocol buffers (about a third of the
  implementation's lines).
* The discovery cache, which is refreshed as a whole.
* The CSI snapshot provider: a gRPC driver; the outcomes its caller can see are actions
  of the volume services.
* `Probe` and the descriptions of the NFS provider.
* The run of the pre and post hooks of a backup: one step of `BackupController`; their selection
  is that of `HookSelection`.
* Several workers of one controller and the rate limiter of the queue; two
  controller-managers, or two volume services, at once.

## 7. Running

    tlc -config Backup_faults.cfg BackupController
    tlc -config Backup_volumes.cfg MCBackupController
    tlc -config Backup_liveness.cfg BackupController
    tlc -config VBS.cfg VolumeBackupService
    tlc -config VBC_assign.cfg VolumeBackupController
    tlc -config Restore.cfg RestoreController
    tlc -config Restore_liveness.cfg RestoreController
    tlc -config VRS.cfg VolumeRestoreService
    tlc -config RestoreHooks.cfg MCRestoreHooks
    tlc -config VolumeSnapshotting.cfg MCVolumeSnapshotting
    tlc -config MetadataPath.cfg MCMetadataPath
    tlc -config MetadataPath_supported.cfg MCMetadataPath
    tlapm BackupController_proofs.tla
    tlapm BackupPromises_proofs.tla
    tlapm VolumeBackupController_proofs.tla
    tlapm RestoreController_proofs.tla
    tlapm VolumeBackupService_proofs.tla
    tlapm VolumeRestoreService_proofs.tla
    tlapm VolumeSnapshotting_proofs.tla
    tlapm RestoreHooks_proofs.tla

The longest of them takes a few minutes.
