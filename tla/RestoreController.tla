--------------------------- MODULE RestoreController ---------------------------
(***************************************************************************)
(* The restore controller of kahu: one Restore object in the API server,   *)
(* the informer, the work queue and the worker that runs processQueue, the *)
(* 5 s reconciler goroutine that folds the VolumeRestoreContents (VRCs)    *)
(* back into the Restore, and the environment.                             *)
(*                                                                         *)
(* Unlike the backup controller this one has no resync loop: only an event *)
(* of the Restore, or the error of a handler, brings the worker back.      *)
(* pc names the worker's next call.  How the resources of a backup are     *)
(* chosen and changed is the subject of RestoreSelection; how they are     *)
(* applied and their hooks awaited, of RestoreHooks.                       *)
(***************************************************************************)
EXTENDS Integers, Sequences, FiniteSets

CONSTANTS
    PVCs,            \* claims the backup may hold
    Classless,       \* those that name no storage class, or none that is restored
    MaxRetry,        \* defaultMaxRetry of the generic controller
    MaxAttempts,     \* bound: times the VRCs of the claims are created
    MaxDisturbed,    \* bound: failed calls, foreign writes and crashes together
    UserDeletes      \* may the user delete the Restore?

ASSUME RestoreAssumption ==
    /\ IsFiniteSet(PVCs) /\ Classless \subseteq PVCs /\ UserDeletes \in BOOLEAN
    /\ MaxRetry \in Nat /\ MaxAttempts \in Nat /\ MaxDisturbed \in Nat

VARIABLES
    api,        \* the Restore in the API server; NoRestore when there is none
    watch,      \* versions not yet delivered to the informer
    cache,      \* the lister's copy
    queued,     \* is the key in the work queue?
    requeues,   \* NumRequeues of the key
    processed,  \* revision kept for the key by the processedRestore store, 0: none
    pc,         \* next call of the worker
    w,          \* the worker's copy of the Restore
    rpc,        \* next call of the reconciler
    rc,         \* the reconciler's copy of the Restore
    wanted,     \* claims among the resources to restore
    backed,     \* those of them that a VolumeBackupContent of the backup covers
    vrc,        \* phase of every VRC, by attempt and claim
    vdel,       \* VRCs with a deletion timestamp
    vclean,     \* VRCs annotated for the cleanup of their volumes
    attempt,    \* times the creation of the VRCs was started
    bound,      \* claims that exist and are bound in the cluster
    applied,    \* resources of the restore in the cluster: "none", "some", "all", or
                \* "kept": only such as the cleanup passes over
    hooked,     \* did the post hooks run to the end?
    faults,     \* failed calls
    touches,    \* foreign writes of the object
    crashes     \* process crashes

apiVars    == <<api, watch>>
queueVars  == <<queued, requeues>>
workerVars == <<pc, w>>
rcVars     == <<rpc, rc>>
volVars    == <<wanted, backed, vrc, vdel, vclean, attempt, bound>>
envVars    == <<applied, hooked>>
countVars  == <<faults, touches, crashes>>
vars == <<api, watch, cache, queued, requeues, processed, pc, w, rpc, rc, wanted, backed,
          vrc, vdel, vclean, attempt, bound, applied, hooked, faults, touches, crashes>>

-----------------------------------------------------------------------------
(* Objects *)

\* "unset" is the empty string. No code sets stage PreHook or state Deleting.
Stages == {"unset", "Initial", "Volumes", "Resources", "PostHook", "Finished"}
States == {"unset", "New", "Processing", "Completed", "Failed"}
Annotations == {"volume-restore-completed", "volume-restore-delete-completed",
                "restore-cleanup-done"}

\* res: status.Resources is filled.
Restore == [rv: Nat, stage: Stages, state: States, fin: BOOLEAN, del: BOOLEAN,
            ann: SUBSET Annotations, res: BOOLEAN]
NoRestore == [rv |-> 0, stage |-> "unset", state |-> "unset", fin |-> FALSE,
              del |-> FALSE, ann |-> {}, res |-> FALSE]

\* A VRC holds one claim here; its only restore state has progress 100 exactly when
\* its phase is Completed. "New" stands for every phase that decides nothing.
VRCs == (1..MaxAttempts) \X PVCs
VRCPhases == {"absent", "New", "Completed", "Failed"}
LiveVRCs == {v \in VRCs : vrc[v] # "absent"}

Pcs == {"idle", "finalizer", "init", "validate", "invalid", "validated", "populate",
        "popFailed", "popFailed2", "record", "dispatch", "volumes", "checkPVC", "count",
        "annVolume", "volCompleted", "volFailed", "prepare", "createVRC", "processing",
        "toResources", "apply", "appliedAll", "toPostHook", "hooks", "hooksDone",
        "resCompleted", "resFailed", "toFinished", "finished", "delVRC", "cleanup",
        "annCleaned", "delList", "delFinalizer"}
RPcs == {"idle", "checkDeleted", "list", "fail", "annCompleted", "annDeleted"}

Init ==
    /\ api = [NoRestore EXCEPT !.rv = 1]
    /\ watch = <<api>>
    /\ cache = NoRestore
    /\ queued = FALSE /\ requeues = 0
    /\ processed = 0
    /\ pc = "idle" /\ w = NoRestore
    /\ rpc = "idle" /\ rc = NoRestore
    /\ wanted \in SUBSET PVCs
    /\ backed \in SUBSET wanted
    /\ vrc = [v \in VRCs |-> "absent"]
    /\ vdel = {} /\ vclean = {}
    /\ attempt = 0
    /\ bound = {}
    /\ applied = "none" /\ hooked = FALSE
    /\ faults = 0 /\ touches = 0 /\ crashes = 0

-----------------------------------------------------------------------------
(* API server, store and work queue primitives *)

\* Store a version of the object; a write that changes nothing has no event.
Commit(b) ==
    IF [b EXCEPT !.rv = api.rv] = api
    THEN UNCHANGED apiVars
    ELSE LET new == [b EXCEPT !.rv = api.rv + 1] IN
         api' = new /\ watch' = Append(watch, new)

Remove == api' = NoRestore /\ watch' = Append(watch, NoRestore)

\* UpdateStatus stores the status of b and ignores its metadata.
StatusOf(b) == [api EXCEPT !.stage = b.stage, !.state = b.state, !.res = b.res]

StoreRevisionUpdate(rv) == processed' = IF processed > rv THEN processed ELSE rv

disturbed == faults + touches + crashes

Fault == disturbed < MaxDisturbed /\ faults' = faults + 1 /\ UNCHANGED <<touches, crashes>>

Goto(next, b) == pc' = next /\ w' = b /\ UNCHANGED queueVars

Return == pc' = "idle" /\ w' = NoRestore /\ requeues' = 0 /\ UNCHANGED queued

ReturnErr ==
    /\ pc' = "idle" /\ w' = NoRestore
    /\ IF requeues < MaxRetry
       THEN requeues' = requeues + 1 /\ queued' = TRUE
       ELSE requeues' = 0 /\ UNCHANGED queued

Continue(next, b) ==
    IF next = "return" THEN Return
    ELSE IF next = "error" THEN ReturnErr
    ELSE Goto(next, b)

-----------------------------------------------------------------------------
(* Client calls of the worker *)

\* Mutant: a status write without the optimistic lock.
UpdateRestoreStatusUnlocked(b, next, onError) ==
    /\ \/ /\ api.rv # 0
          /\ Commit(StatusOf(b))
          /\ StoreRevisionUpdate(api'.rv)
          /\ Continue(next, api')
          /\ UNCHANGED countVars
       \/ /\ api.rv = 0
          /\ IF onError = "ignore" THEN Continue(next, b) ELSE ReturnErr
          /\ UNCHANGED <<apiVars, processed, countVars>>
    /\ UNCHANGED <<cache, rcVars, volVars, envVars>>

\* updateRestoreStatus: UpdateStatus with the optimistic lock on rv, then the store.
\* processQueue drops a conflict and returns any other error; some callers only log
\* the error and go on with the copy they hold. A failed call may have been carried
\* out.
UpdateRestoreStatus(b, next, onError) ==
    /\ \/ /\ b.rv = api.rv
          /\ Commit(StatusOf(b))
          /\ StoreRevisionUpdate(api'.rv)
          /\ Continue(next, api')
          /\ UNCHANGED countVars
       \/ /\ b.rv # api.rv
          /\ IF onError = "ignore" THEN Continue(next, b)
             ELSE IF api.rv = 0 THEN ReturnErr ELSE Return
          /\ UNCHANGED <<apiVars, processed, countVars>>
       \/ /\ b.rv = api.rv
          /\ Fault /\ (UNCHANGED apiVars \/ Commit(StatusOf(b)))
          /\ IF onError = "ignore" THEN Continue(next, b) ELSE ReturnErr
          /\ UNCHANGED processed
    /\ UNCHANGED <<cache, rcVars, volVars, envVars>>

\* patchRestore: a merge patch, without rv, that turns the stored object into b.
PatchRestore(b, next) ==
    /\ \/ /\ api.rv # 0
          /\ Commit(b)
          /\ StoreRevisionUpdate(api'.rv)
          /\ Continue(next, api')
          /\ UNCHANGED countVars
       \/ /\ \/ api.rv = 0 /\ UNCHANGED <<apiVars, countVars>>
             \/ api.rv # 0 /\ Fault /\ (UNCHANGED apiVars \/ Commit(b))
          /\ ReturnErr
          /\ UNCHANGED processed
    /\ UNCHANGED <<cache, rcVars, volVars, envVars>>

\* annotateRestore
AnnotateRestore(a, next) ==
    IF a \in w.ann
    THEN Continue(next, w) /\ UNCHANGED <<apiVars, cache, processed, rcVars, volVars, envVars, countVars>>
    ELSE PatchRestore([api EXCEPT !.ann = @ \cup {a}], next)

\* A step of the handler that writes nothing.
Local(next) ==
    /\ Continue(next, w)
    /\ UNCHANGED <<apiVars, cache, processed, rcVars, volVars, envVars, countVars>>

\* A call other than a write of the Restore fails.
CallFails(next) ==
    /\ Fault
    /\ Continue(next, w)
    /\ UNCHANGED <<apiVars, cache, processed, rcVars, volVars, envVars>>

WithState(state) == [w EXCEPT !.state = state]

-----------------------------------------------------------------------------
(* processQueue and the first half of syncRestore *)

restoreCompleted(b) == b.stage = "Finished" /\ b.state = "Completed"
restoreFailed(b) == b.state = "Failed"

\* Take the key, read the lister, drop what is older than the stored revision.
ProcessQueue ==
    /\ pc = "idle" /\ queued
    /\ queued' = FALSE
    /\ IF cache.rv = 0 \/ processed > cache.rv
       THEN requeues' = 0 /\ UNCHANGED <<workerVars, processed>>
       ELSE /\ processed' = cache.rv
            /\ IF ~cache.del /\ (restoreFailed(cache) \/ restoreCompleted(cache))
               THEN requeues' = 0 /\ UNCHANGED workerVars
               ELSE /\ w' = cache
                    /\ pc' = IF cache.del THEN "delVRC" ELSE "finalizer"
                    /\ UNCHANGED requeues
    /\ UNCHANGED <<apiVars, cache, rcVars, volVars, envVars, countVars>>

EnsureFinalizer ==
    /\ pc = "finalizer"
    /\ LET next == IF w.stage \in {"unset", "Initial"} THEN "init" ELSE "populate" IN
       IF w.fin THEN Local(next) ELSE PatchRestore([api EXCEPT !.fin = TRUE], next)

InitRestore ==
    /\ pc = "init"
    /\ UpdateRestoreStatus([w EXCEPT !.stage = IF @ = "unset" THEN "Initial" ELSE @,
                                     !.state = IF @ = "unset" THEN "New" ELSE @],
                           "validate", "return")

ValidateRestore == pc = "validate" /\ (Local("validated") \/ Local("invalid"))

\* The verdict is written and the handler returns an error all the same.
ValidationFailed ==
    pc = "invalid" /\ UpdateRestoreStatus(WithState("Failed"), "error", "return")

Validated ==
    /\ pc = "validated"
    /\ UpdateRestoreStatus([w EXCEPT !.stage = "Volumes", !.state = "New"], "populate", "return")

\* Fetch the backup's content from the metadata service, filter, resolve and mutate it.
PopulateRestoreResources == pc = "populate" /\ (Local("record") \/ Local("popFailed"))

\* populateRestoreResources writes the failure, and syncRestore once more.
PopulateFailed ==
    \/ pc = "popFailed" /\ UpdateRestoreStatus(WithState("Failed"), "popFailed2", "ignore")
    \/ pc = "popFailed2" /\ UpdateRestoreStatus(WithState("Failed"), "return", "return")

\* patchRestoreObjects: an error is only logged.
PatchRestoreObjects ==
    pc = "record" /\ UpdateRestoreStatus([w EXCEPT !.res = TRUE], "dispatch", "ignore")

\* The second switch of syncRestore
SyncRestore ==
    /\ pc = "dispatch"
    /\ Local(CASE w.stage = "Volumes" -> "volumes"
               [] w.stage = "Resources" -> "apply"
               [] w.stage = "PostHook" /\ w.state = "Completed" -> "toFinished"
               [] w.stage = "Finished" -> "finished"
               [] OTHER -> "return")

-----------------------------------------------------------------------------
(* Stage Volumes *)

SyncVolumeRestore ==
    /\ pc = "volumes"
    /\ Local(IF w.state = "Completed" THEN "toResources"
             ELSE IF "volume-restore-completed" \in w.ann THEN "checkPVC"
             ELSE IF wanted = {} THEN "annVolume"
             ELSE IF w.state = "Processing" THEN "count"
             ELSE "prepare")

\* Every claim has to exist and to be bound; one that was restored may be gone again.
CheckPVCRestored ==
    /\ pc = "checkPVC"
    /\ \/ wanted \subseteq bound /\ Local("volCompleted")
       \/ Local("volFailed")
       \/ CallFails("error")

VolumeRestoreFailed ==
    pc = "volFailed" /\ UpdateRestoreStatus(WithState("Failed"), "return", "return")

\* Mutant: volumes are counted whether or not their restore is finished.
CheckVolumeRestoreStatusAny ==
    /\ pc = "count"
    /\ \/ Local(IF Cardinality(LiveVRCs) = Cardinality(wanted) THEN "annVolume" ELSE "return")
       \/ CallFails("error")

\* checkVolumeRestoreStatus: as many finished volumes as claims
CheckVolumeRestoreStatus ==
    /\ pc = "count"
    /\ \/ Local(IF Cardinality({v \in LiveVRCs : vrc[v] = "Completed"}) = Cardinality(wanted)
                THEN "annVolume" ELSE "return")
       \/ CallFails("error")

AnnotateVolumeRestore ==
    pc = "annVolume" /\ AnnotateRestore("volume-restore-completed", "volCompleted")

VolumeRestoreCompleted ==
    pc = "volCompleted" /\ UpdateRestoreStatus(WithState("Completed"), "toResources", "return")

\* constructVolumeRestoreContent, ensurePVCNamespace, ensureStorageClass, which fails for
\* a claim whose class is not there. Only claims with a volume backup get a VRC.
PrepareVolumeRestore ==
    /\ pc = "prepare"
    /\ \/ /\ wanted \cap Classless = {} /\ attempt < MaxAttempts
          /\ attempt' = attempt + 1
          /\ Continue(IF backed = {} THEN "processing" ELSE "createVRC", w)
          /\ UNCHANGED <<apiVars, cache, processed, rcVars, wanted, backed, vrc, vdel, vclean,
                         bound, envVars, countVars>>
       \/ wanted \cap Classless # {} /\ Local("error")
       \/ CallFails("error")

\* ensureVolumeRestoreContent, one VRC; its name is random, so a retry creates another.
CreateVRC ==
    /\ pc = "createVRC"
    /\ \/ \E p \in backed :
          /\ vrc[<<attempt, p>>] = "absent"
          /\ vrc' = [vrc EXCEPT ![<<attempt, p>>] = "New"]
          /\ \/ /\ Continue(IF \A q \in backed : vrc'[<<attempt, q>>] # "absent"
                            THEN "processing" ELSE "createVRC", w)
                /\ UNCHANGED countVars
             \/ Fault /\ ReturnErr
          /\ UNCHANGED <<apiVars, cache, processed, rcVars, wanted, backed, vdel, vclean,
                         attempt, bound, envVars>>
       \/ CallFails("error")

VolumeRestoreProcessing ==
    pc = "processing" /\ UpdateRestoreStatus(WithState("Processing"), "return", "return")

ToResources ==
    /\ pc = "toResources"
    /\ UpdateRestoreStatus([w EXCEPT !.stage = "Resources", !.state = "New"], "apply", "return")

-----------------------------------------------------------------------------
(* Stages Resources and PostHook: syncMetadataRestore and applyIndexedResource *)

EnvStep(next) ==
    /\ Continue(next, w)
    /\ UNCHANGED <<apiVars, cache, processed, rcVars, volVars, countVars>>

\* Collect the pods of the hooks, apply the CRDs and the other resources. What exists is
\* left as it is: a failed repetition takes nothing away.
ApplyResources ==
    /\ pc = "apply"
    /\ \/ EnvStep("appliedAll") /\ applied' = "all" /\ UNCHANGED hooked
       \/ /\ EnvStep("resFailed")
          /\ applied' \in (IF applied = "all" THEN {"all"} ELSE {applied, "some"})
          /\ UNCHANGED hooked

\* The next three writes only log an error.
ApplyCompleted ==
    pc = "appliedAll" /\ UpdateRestoreStatus(WithState("Completed"), "toPostHook", "ignore")

ToPostHook ==
    /\ pc = "toPostHook"
    /\ UpdateRestoreStatus([w EXCEPT !.state = "Processing", !.stage = "PostHook"], "hooks", "ignore")

\* Mutant: the error of a post hook is ignored.
RunPostHooksIgnored == pc = "hooks" /\ EnvStep("hooksDone") /\ hooked' \in BOOLEAN /\ UNCHANGED applied

RunPostHooks ==
    /\ pc = "hooks"
    /\ \/ EnvStep("hooksDone") /\ hooked' = TRUE
       \/ EnvStep("resFailed") /\ UNCHANGED hooked
    /\ UNCHANGED applied

HooksCompleted ==
    pc = "hooksDone" /\ UpdateRestoreStatus(WithState("Completed"), "resCompleted", "ignore")

MetadataCompleted ==
    pc = "resCompleted" /\ UpdateRestoreStatus(WithState("Completed"), "toFinished", "return")

MetadataFailed ==
    pc = "resFailed" /\ UpdateRestoreStatus(WithState("Failed"), "return", "return")

ToFinished ==
    pc = "toFinished" /\ UpdateRestoreStatus([w EXCEPT !.stage = "Finished"], "finished", "return")

\* The state is always Completed here: the completion time is never written.
Finish ==
    /\ pc = "finished"
    /\ IF w.state = "Completed" THEN Local("return")
       ELSE UpdateRestoreStatus(WithState("Completed"), "return", "return")

-----------------------------------------------------------------------------
(* deleteRestore *)

\* Mutant: only the VRCs of a finished restore are deleted.
RemoveVolumeRestoreFinished ==
    /\ pc = "delVRC"
    /\ vdel' = IF restoreCompleted(w) THEN LiveVRCs ELSE vdel
    /\ Goto("cleanup", w)
    /\ UNCHANGED <<apiVars, cache, processed, rcVars, wanted, backed, vrc, vclean, attempt, bound,
                   envVars, countVars>>

\* removeVolumeRestore: unless the restore is finished annotate the VRCs for cleanup
\* (stopping at an error, which is only logged), then delete them. The list may fail too.
RemoveVolumeRestore ==
    /\ pc = "delVRC"
    /\ LET fresh == LiveVRCs \ vdel IN
       \/ /\ vclean' = IF restoreCompleted(w) THEN vclean ELSE vclean \cup fresh
          /\ vdel' = LiveVRCs
          /\ Goto("cleanup", w)
          /\ UNCHANGED countVars
       \/ /\ Fault
          /\ ~restoreCompleted(w)
          /\ \E some \in SUBSET fresh : vclean' = vclean \cup some
          /\ vdel' = LiveVRCs
          /\ Goto("cleanup", w)
       \/ /\ Fault
          /\ vclean' = IF restoreCompleted(w) THEN vclean ELSE vclean \cup fresh
          /\ \E some \in SUBSET fresh : vdel' = vdel \cup some
          /\ ReturnErr
       \/ Fault /\ ReturnErr /\ UNCHANGED <<vclean, vdel>>
    /\ UNCHANGED <<apiVars, cache, processed, rcVars, wanted, backed, vrc, attempt, bound, envVars>>

\* What the cleanup leaves: CRDs and default service accounts carry no identifier, PVs and
\* PVCs are passed over.
CleanedUp(a) == a \in {"none", "kept"}
Leftovers(a) == IF CleanedUp(a) THEN {a} ELSE {"none", "kept"}

\* Mutant: the resources of a failed restore are left in place.
CleanupSkipsFailed ==
    /\ pc = "cleanup"
    /\ IF restoreCompleted(w) \/ restoreFailed(w) THEN Local("delList")
       ELSE /\ EnvStep("annCleaned")
            /\ applied' \in (IF w.res THEN Leftovers(applied) ELSE {applied})
            /\ UNCHANGED hooked

\* cleanupRestoredMetadata deletes the resources that the status lists and that carry the
\* identifier of this restore. An error of the discovery or of a deletion skips the
\* annotation and is otherwise dropped; a failed Get counts as nothing to delete.
CleanupRestoredMetadata ==
    /\ pc = "cleanup"
    /\ IF restoreCompleted(w) THEN Local("delList")
       ELSE \/ /\ EnvStep("annCleaned")
               /\ applied' \in (IF w.res THEN Leftovers(applied) ELSE {applied})
               /\ UNCHANGED hooked
            \/ /\ Fault /\ w.res /\ ~CleanedUp(applied)
               /\ \/ Goto("delList", w) /\ applied' \in {applied, "some", "kept", "none"}
                  \/ Goto("annCleaned", w) /\ applied' \in {applied, "some"}
               /\ UNCHANGED <<apiVars, cache, processed, rcVars, volVars, hooked>>

AnnotateCleaned ==
    pc = "annCleaned" /\ PatchRestore([api EXCEPT !.ann = @ \cup {"restore-cleanup-done"}], "delList")

\* Mutant: the deletion does not wait for the VRCs.
ListVolumeRestoreNoWait == pc = "delList" /\ (Local("delFinalizer") \/ CallFails("error"))

\* The copy is the one from before the annotation; only its name and finalizers matter.
ListVolumeRestore ==
    /\ pc = "delList"
    /\ Local(IF LiveVRCs = {} THEN "delFinalizer" ELSE "return") \/ CallFails("error")

\* The error of the patch is logged and overwritten by the result of StoreClean.
RemoveFinalizer ==
    /\ pc = "delFinalizer"
    /\ \/ api.rv # 0 /\ Remove /\ UNCHANGED countVars
       \/ api.rv = 0 /\ UNCHANGED <<apiVars, countVars>>
       \/ api.rv # 0 /\ Fault /\ (UNCHANGED apiVars \/ Remove)
    /\ processed' = 0
    /\ Return
    /\ UNCHANGED <<cache, rcVars, volVars, envVars>>

Worker ==
    \/ ProcessQueue \/ EnsureFinalizer \/ InitRestore \/ ValidateRestore \/ ValidationFailed
    \/ Validated \/ PopulateRestoreResources \/ PopulateFailed \/ PatchRestoreObjects
    \/ SyncRestore \/ SyncVolumeRestore \/ CheckPVCRestored \/ VolumeRestoreFailed
    \/ CheckVolumeRestoreStatus \/ AnnotateVolumeRestore \/ VolumeRestoreCompleted
    \/ PrepareVolumeRestore \/ CreateVRC \/ VolumeRestoreProcessing \/ ToResources
    \/ ApplyResources \/ ApplyCompleted \/ ToPostHook \/ RunPostHooks \/ HooksCompleted
    \/ MetadataCompleted \/ MetadataFailed \/ ToFinished \/ Finish
    \/ RemoveVolumeRestore \/ CleanupRestoredMetadata \/ AnnotateCleaned
    \/ ListVolumeRestore \/ RemoveFinalizer

-----------------------------------------------------------------------------
(* The volume restore reconciler *)

RcGoto(next, b) ==
    /\ rpc' = next /\ rc' = b
    /\ UNCHANGED <<cache, queueVars, processed, workerVars, volVars, envVars>>

RcStart ==
    /\ rpc = "idle" /\ cache.rv # 0
    /\ RcGoto(IF cache.del THEN "checkDeleted" ELSE "list", cache)
    /\ UNCHANGED <<apiVars, countVars>>

\* isVolumeRestoreContentDeleted: a failed call returns an empty list, which counts
\* as deleted.
RcCheckDeleted ==
    /\ rpc = "checkDeleted"
    /\ \/ /\ IF LiveVRCs = {} THEN RcGoto("annDeleted", NoRestore) ELSE RcGoto("list", rc)
          /\ UNCHANGED countVars
       \/ Fault /\ RcGoto("annDeleted", NoRestore)
    /\ UNCHANGED apiVars

isReconcileRequired(b) ==
    b.stage = "Volumes" /\ "volume-restore-completed" \notin b.ann

\* The loop over the listed VRCs stops at the first one that decides.
RcVerdicts ==
    (IF \E v \in LiveVRCs : vrc[v] = "Failed" THEN {"fail"} ELSE {})
    \cup (IF \E v \in LiveVRCs : vrc[v] = "New" THEN {"idle"} ELSE {})
    \cup (IF \A v \in LiveVRCs : vrc[v] = "Completed" THEN {"annCompleted"} ELSE {})

RcList ==
    /\ rpc = "list"
    /\ \/ /\ LET verdicts == IF isReconcileRequired(rc) /\ LiveVRCs # {}
                             THEN RcVerdicts ELSE {"idle"}
             IN \E v \in verdicts : RcGoto(v, IF v = "fail" THEN rc ELSE NoRestore)
          /\ UNCHANGED countVars
       \/ isReconcileRequired(rc) /\ Fault /\ RcGoto("idle", NoRestore)
    /\ UNCHANGED apiVars

\* Mutant: the failure of a VRC is logged only.
RcUpdateFailureLost == rpc = "fail" /\ RcGoto("idle", NoRestore) /\ UNCHANGED <<apiVars, countVars>>

\* updateRestoreFailure: the lister's copy with State Failed; errors are logged.
RcUpdateFailure ==
    /\ rpc = "fail"
    /\ \/ rc.rv = api.rv /\ Commit([StatusOf(rc) EXCEPT !.state = "Failed"]) /\ UNCHANGED countVars
       \/ rc.rv # api.rv /\ UNCHANGED <<apiVars, countVars>>
       \/ Fault /\ UNCHANGED apiVars
    /\ RcGoto("idle", NoRestore)

\* annotateRestore of the reconciler: reads the lister again, patches without rv.
RcAnnotate(at, a) ==
    /\ rpc = at
    /\ \/ /\ cache.rv # 0 /\ a \notin cache.ann /\ api.rv # 0
          /\ Commit([api EXCEPT !.ann = @ \cup {a}])
          /\ UNCHANGED countVars
       \/ (cache.rv = 0 \/ a \in cache.ann \/ api.rv = 0) /\ UNCHANGED <<apiVars, countVars>>
       \/ Fault /\ UNCHANGED apiVars
    /\ RcGoto("idle", NoRestore)

Reconciler ==
    \/ RcStart \/ RcCheckDeleted \/ RcList \/ RcUpdateFailure
    \/ RcAnnotate("annCompleted", "volume-restore-completed")
    \/ RcAnnotate("annDeleted", "volume-restore-delete-completed")

-----------------------------------------------------------------------------
(* Informer, users, volume restore service, crashes *)

\* The informer applies the next version; only Add and Update events enqueue.
Informer ==
    /\ watch # <<>>
    /\ cache' = Head(watch)
    /\ watch' = Tail(watch)
    /\ queued' = (queued \/ Head(watch).rv # 0)
    /\ UNCHANGED <<api, requeues, processed, workerVars, rcVars, volVars, envVars, countVars>>

EnvUnchanged == UNCHANGED <<cache, queueVars, processed, workerVars, rcVars, envVars>>

UserDelete ==
    /\ UserDeletes /\ api.rv # 0 /\ ~api.del
    /\ IF api.fin THEN Commit([api EXCEPT !.del = TRUE]) ELSE Remove
    /\ EnvUnchanged /\ UNCHANGED <<volVars, countVars>>

\* Someone else edits labels or annotations of the object.
UserTouch ==
    /\ api.rv # 0 /\ disturbed < MaxDisturbed
    /\ touches' = touches + 1
    /\ LET new == [api EXCEPT !.rv = @ + 1] IN api' = new /\ watch' = Append(watch, new)
    /\ EnvUnchanged /\ UNCHANGED <<volVars, faults, crashes>>

\* What the volume restore service does to a VRC (see VolumeRestoreService): the claim
\* exists and is bound when the restore of the volume is completed.
ServiceFinishes ==
    /\ \E v \in VRCs, phase \in {"Completed", "Failed"} :
          /\ vrc[v] = "New" /\ v \notin vdel
          /\ vrc' = [vrc EXCEPT ![v] = phase]
          /\ bound' = IF phase = "Completed" THEN bound \cup {v[2]} ELSE bound
    /\ EnvUnchanged
    /\ UNCHANGED <<apiVars, wanted, backed, vdel, vclean, attempt, countVars>>

\* A deleted VRC goes; one in progress or annotated for cleanup takes its volume along.
ServiceRemoves ==
    /\ \E v \in vdel :
          /\ vrc' = [vrc EXCEPT ![v] = "absent"] /\ vdel' = vdel \ {v}
          /\ bound' = IF v \in vclean THEN bound \ {v[2]} ELSE bound
    /\ EnvUnchanged
    /\ UNCHANGED <<apiVars, wanted, backed, vclean, attempt, countVars>>

Crash ==
    /\ disturbed < MaxDisturbed
    /\ crashes' = crashes + 1
    /\ pc' = "idle" /\ w' = NoRestore /\ rpc' = "idle" /\ rc' = NoRestore
    /\ cache' = api /\ watch' = <<>>
    /\ queued' = (api.rv # 0) /\ requeues' = 0
    /\ processed' = 0
    /\ UNCHANGED <<api, volVars, envVars, faults, touches>>

\* ensureStorageClass dereferences the class of a claim that names none: the process dies,
\* after the next start again. The panic counts as a crash.
PrepareVolumePanics == pc = "prepare" /\ wanted \cap Classless # {} /\ Crash

Next ==
    \/ Worker \/ PrepareVolumePanics \/ Reconciler \/ Informer \/ UserDelete \/ UserTouch
    \/ ServiceFinishes \/ ServiceRemoves \/ Crash

Spec == Init /\ [][Next]_vars

\* Goroutines are scheduled, events arrive, the volume restore service does its work. A
\* post hook without a wait timeout, the default, may wait for ever.
Fairness ==
    /\ WF_vars((Worker /\ pc # "hooks") \/ PrepareVolumePanics)
    /\ WF_vars(Reconciler)
    /\ WF_vars(Informer)
    /\ WF_vars(ServiceFinishes)
    /\ WF_vars(ServiceRemoves)

FairSpec == Spec /\ Fairness

-----------------------------------------------------------------------------
(* Properties *)

Rank(b) == CASE b.stage \in {"unset", "Initial"} -> 0
             [] b.stage = "Volumes" -> 1
             [] b.stage = "Resources" -> 2
             [] b.stage = "PostHook" -> 3
             [] b.stage = "Finished" -> 4

\* The values the Restore, its copies and the environment may take.
TypeOK ==
    /\ api \in Restore /\ cache \in Restore /\ w \in Restore /\ rc \in Restore
    /\ watch \in Seq(Restore)
    /\ queued \in BOOLEAN /\ requeues \in 0..MaxRetry
    /\ processed \in Nat
    /\ pc \in Pcs /\ rpc \in RPcs
    /\ wanted \in SUBSET PVCs /\ backed \in SUBSET wanted /\ bound \in SUBSET PVCs
    /\ vrc \in [VRCs -> VRCPhases] /\ vdel \in SUBSET VRCs /\ vclean \in SUBSET VRCs
    /\ attempt \in 0..MaxAttempts
    /\ applied \in {"none", "kept", "some", "all"} /\ hooked \in BOOLEAN
    /\ faults \in Nat /\ touches \in Nat /\ crashes \in Nat /\ disturbed <= MaxDisturbed

\* The stage in the API server never moves back, although worker and reconciler write
\* the whole status from copies of different age and three writes of
\* applyIndexedResource go on after an error; and a failed restore is taken up again
\* only after a lost reply or when the VRCs were created twice.
OnlyForward ==
    [][api'.rv # 0 /\ api.rv # 0 =>
        /\ Rank(api') >= Rank(api)
        /\ api.state = "Failed" /\ disturbed = 0 => api'.state = "Failed"]_vars

\* Resources are restored only after every claim has been restored, if the VRCs were
\* created once: checkVolumeRestoreStatus counts finished volumes, and annotations of
\* the reconciler, which sees only some of the VRCs, are checked against the claims.
VolumesBeforeResources ==
    Rank(api) >= 2 /\ ~api.del /\ attempt <= 1 => wanted \subseteq bound

\* "ensure all PVC are restored and Restore count are same as requested PVC"
\* (volumerestore.go): broken when VRCs were created twice, as two finished volumes of
\* one claim are counted for two claims.
AllClaimsRestored == Rank(api) >= 2 /\ ~api.del => wanted \subseteq bound

\* A Finished restore has applied every resource and run its post hooks to the end,
\* whichever of its status writes failed, conflicted or were repeated after a crash.
FinishedMeansRestored == api.stage = "Finished" /\ ~api.del => applied = "all" /\ hooked

\* deleteRestore lets the object go only after its last VRC is gone.
NoOrphanVRC == api.rv = 0 => LiveVRCs = {}

\* When an unfinished restore goes it has taken its restored volumes along and, except for
\* those that the cleanup passes over (CRDs, default service accounts, PVs and PVCs), its
\* resources, if no call failed and its status came to list them: patchRestoreObjects only
\* logs a conflict, so a deletion that meets it leaves the resources behind.
UnfinishedLeavesNothing ==
    [][api.del /\ ~restoreCompleted(api) /\ api'.rv = 0 /\ faults' = 0
        => (api.res => CleanedUp(applied)) /\ bound = {}]_vars

Ended == api.rv = 0 \/ api.del \/ api.state = "Failed" \/ restoreCompleted(api)

\* The claims of the restore allow it to end: one of them has a volume backup, if there
\* are any, and each has its storage class.
Restorable == (wanted # {} => backed # {}) /\ wanted \cap Classless = {}
WaitsForHooks == <>[](pc = "hooks")

\* A restorable restore ends if nothing disturbs it (no failed call, foreign write or crash)
\* and its post hooks do not wait for ever: worker and reconciler do not wait for each
\* other for ever although nothing re-enqueues the key.
Terminates == WaitsForHooks \/ <>(Ended \/ disturbed > 0 \/ ~Restorable)

\* The VRCs of a deleted Restore are gone in the end, however the deletion meets the
\* worker that is creating them, unless the worker waits for post hooks for ever.
VRCsGo == WaitsForHooks \/ (api.del ~> (LiveVRCs = {} \/ disturbed > 0))

\* "Only restore object are passed on in Phases. The mechanism will help in failure/crash
\* scenario" (restorecontroller.go): a restore ends although the process crashed.
SurvivesCrash == WaitsForHooks \/ <>(Ended \/ ~Restorable)

-----------------------------------------------------------------------------
(* Inductive invariants: first what a deletion relies on, then what a status write *)
(* relies on, then what the stages promise, then what keeps a failed restore failed *)
(* while nothing disturbs it, and last what an unfinished one takes along.          *)

\* What the informer has, or will be told
Copies == {cache} \cup {watch[i] : i \in DOMAIN watch}
Gone(c) == c.rv = 0 \/ c.del

\* Calls of deleteRestore, and calls of syncRestore behind the finalizer
DeletePcs == {"delVRC", "cleanup", "annCleaned", "delList", "delFinalizer"}
SyncPcs == Pcs \ (DeletePcs \cup {"idle", "finalizer"})

\* A removed object is never written again, and a handler never works on nothing.
RemovedIsEmpty == api.rv = 0 => api = NoRestore
HandlersHold ==
    /\ pc # "idle" => w.rv # 0
    /\ rpc \in {"checkDeleted", "list", "fail"} => rc.rv # 0

\* Finalizer and deletion mark stay while the object exists; with the finalizer it goes
\* only after the deletion was seen.
MarksKept == api.rv # 0 => \A c \in Copies : (c.fin => api.fin) /\ (c.del => api.del)
RemovalSeen ==
    /\ api.rv = 0 => \A c \in Copies : Gone(c) \/ ~c.fin
    /\ \A i \in DOMAIN watch : watch[i].rv = 0 => api.rv = 0
DeletionOrdered ==
    /\ cache.del => \A i \in DOMAIN watch : Gone(watch[i])
    /\ \A i, j \in DOMAIN watch : i <= j /\ Gone(watch[i]) => Gone(watch[j])
DeleterKnows == pc \in DeletePcs => api.rv = 0 \/ cache.del

\* Whoever works on the restore, and every VRC, is protected by the finalizer.
FinalizerHeld ==
    LiveVRCs # {} \/ pc \in SyncPcs \/ (pc = "finalizer" /\ w.fin) => api.rv # 0 /\ api.fin
NothingLeft == pc = "delFinalizer" => LiveVRCs = {}

DeletionInv ==
    /\ TypeOK /\ RemovedIsEmpty /\ HandlersHold /\ MarksKept /\ RemovalSeen /\ DeletionOrdered
    /\ DeleterKnows /\ FinalizerHeld /\ NothingLeft

\* A copy with the server's revision is the server's object; none is ahead of it.
CopiesAgree ==
    api.rv # 0 =>
        /\ \A c \in Copies \cup {rc} : c.rv <= api.rv /\ (c.rv = api.rv => c = api)
        /\ \A c \in Copies : Rank(c) <= Rank(api)

\* The store is as new as the copy the worker started from.
ProcessedBounds == api.rv # 0 => processed <= api.rv /\ (pc # "idle" => w.rv <= processed)

\* Calls that may run with a status the server refused (the errors are only logged)
Ahead == {"popFailed2", "toPostHook", "hooks", "hooksDone", "resCompleted", "resFailed"}
WorkerAgrees ==
    api.rv # 0 /\ pc # "idle" =>
        /\ w.rv = api.rv /\ pc \notin Ahead => w.stage = api.stage /\ w.state = api.state
        /\ w.rv = api.rv => Rank(api) <= Rank(w) /\ (Rank(api) = Rank(w) \/ Rank(api) >= 2)
        /\ pc \notin Ahead => Rank(w) <= Rank(api)

\* What the store lets through is old enough for the calls that patch without a revision
\* only if the object is still where these calls expect it.
Unfinished(b) == Rank(b) = 0 \/ (b.stage = "Volumes" /\ b.state # "Completed")
BoundedLag ==
    api.rv # 0 =>
        /\ Rank(api) # 0 => api.fin
        /\ \A c \in Copies : c.rv # 0 /\ c.rv >= processed /\ ~c.del =>
              /\ Unfinished(c) => Rank(api) <= 1
              /\ ~c.fin => Rank(api) = 0
        /\ pc = "finalizer" /\ ~w.fin => Rank(api) = 0
        /\ pc \notin DeletePcs \cup Ahead \cup {"idle"} /\ Unfinished(w) => Rank(api) <= 1

\* Where the worker is tells the stage of its copy.
WorkerStage ==
    /\ pc \in {"init", "validate", "invalid", "validated"} => Rank(w) = 0
    /\ pc \in {"volumes", "checkPVC", "count", "annVolume", "volCompleted", "volFailed",
               "prepare", "createVRC", "processing", "toResources"} => w.stage = "Volumes"
    /\ pc \in {"count", "annVolume"} => w.state # "Completed"
    /\ pc = "toResources" => w.state = "Completed"
    /\ pc \in {"apply", "appliedAll", "toPostHook"} => w.stage = "Resources"
    /\ pc \in {"hooks", "hooksDone", "resCompleted", "toFinished"} => w.stage = "PostHook"
    /\ pc = "toFinished" => w.state = "Completed"
    /\ pc = "finished" => w.stage = "Finished"

StatusInv ==
    DeletionInv /\ CopiesAgree /\ ProcessedBounds /\ WorkerAgrees /\ BoundedLag /\ WorkerStage

\* What a stage promises holds for the object and for every copy of it.
Alive == api.rv # 0 /\ ~api.del
HooksRan(b) == b.stage = "Finished" \/ (b.stage = "PostHook" /\ b.state = "Completed")
VolumesDone(b) == Rank(b) >= 2 \/ (b.stage = "Volumes" /\ b.state = "Completed")

ResourcesTrue ==
    Alive =>
        /\ \A c \in Copies \cup {api, w} :
              (Rank(c) >= 3 => applied = "all") /\ (HooksRan(c) => hooked)
        /\ pc \in {"appliedAll", "toPostHook"} => applied = "all"
        /\ pc \in {"hooksDone", "resCompleted"} => hooked

VolumesTrue ==
    Alive =>
        /\ vdel = {}
        /\ \A v \in LiveVRCs : v[1] <= attempt /\ v[2] \in backed
        /\ \A v \in LiveVRCs : vrc[v] = "Completed" => v[2] \in bound
        /\ pc = "createVRC" => attempt # 0
        /\ attempt <= 1 =>
              /\ \A c \in Copies \cup {api, w} : VolumesDone(c) => wanted \subseteq bound
              /\ pc \in {"annVolume", "volCompleted"} => wanted \subseteq bound

\* Without a failed call, a foreign write or a crash a failed restore stays failed, as long
\* as the object exists.
Quiet == disturbed = 0 /\ api.rv # 0

SyncerPcs == SyncPcs \cup {"finalizer"}
\* Calls up to the creation of the VRCs
StartPcs == {"finalizer", "init", "validate", "validated", "populate", "record", "dispatch",
             "volumes", "prepare", "createVRC", "processing"}
CreatePcs == {"prepare", "createVRC", "processing"}
Untried(b) ==
    /\ b.stage = "Volumes" /\ b.state \in {"unset", "New"}
    /\ "volume-restore-completed" \notin b.ann /\ ~b.del

\* Only deleteRestore works on the object, or a VRC has failed: what the reconciler's
\* verdict rests on.
Deleting == cache.del /\ pc \in DeletePcs \cup {"idle"}
VolumeFailed == Deleting \/ \E v \in LiveVRCs : vrc[v] = "Failed"

\* What the store lets through is the status of the server, or the one the reconciler
\* turned into a failure; and a status that says Processing comes from the first attempt.
Through == {c \in Copies \cup {api} : c.rv # 0 /\ c.rv >= processed}
Passed(b) ==
    /\ b.stage = api.stage
    /\ b.state # api.state => api.state = "Failed" /\ b.stage = "Volumes" /\ VolumeFailed
    /\ b.state # "Failed" => \A c \in Through : c.state \in {b.state, "Failed"}
    /\ b.stage = "Volumes" /\ b.state = "Processing" => attempt <= 1
QuietServer ==
    /\ ~api.fin => api.state = "unset" /\ ~api.del
    /\ \A c \in Through : c.fin = api.fin /\ Passed(c)
    /\ Untried(api) => processed = api.rv
    /\ Rank(api) = 0 => attempt = 0

QuietReconciler ==
    /\ vdel # {} => Deleting
    /\ rpc \in {"checkDeleted", "annDeleted"} => api.del
    /\ rpc = "fail" => rc.stage = "Volumes" /\ VolumeFailed

\* The worker's copy is the newest the store knows: if it has the server's revision it is
\* the server's status, and it says Failed only where the failure is written once more.
QuietWorker ==
    pc # "idle" =>
        /\ w.rv = processed
        /\ w.rv = api.rv => /\ w.stage = api.stage /\ w.state = api.state
                            /\ w.ann = api.ann /\ w.del = api.del
        /\ pc \in SyncerPcs /\ w.state = "Failed" => pc = "popFailed2"
        /\ pc \in SyncerPcs \ Ahead => Passed(w)
        /\ pc \in StartPcs => ~w.del
        /\ pc = "finalizer" => w.fin = api.fin
        /\ pc \in CreatePcs => Untried(w)
        /\ pc = "count" => w.state = "Processing"

\* VRCs are created a second time only after a conflict of the write that says Processing.
QuietVolumes ==
    /\ \A v \in LiveVRCs : v[1] <= attempt /\ v[2] \in backed
    /\ pc = "annVolume" => \A v \in LiveVRCs : vrc[v] = "Completed"
    /\ Untried(api) /\ attempt # 0
         => attempt = 1 /\ pc \in {"createVRC", "processing"} /\ w.rv = api.rv

QuietInv == Quiet => QuietServer /\ QuietReconciler /\ QuietWorker /\ QuietVolumes

\* What the removal of an unfinished restore rests on. The Finished stage is Completed, and
\* the worker reaches it only at its end.
FinishedIsCompleted ==
    /\ \A c \in Copies \cup {api} : c.stage = "Finished" => c.state = "Completed"
    /\ pc \notin DeletePcs \cup {"idle", "finished"} => w.stage # "Finished"
    /\ rpc = "fail" => rc.stage = "Volumes"

\* Whoever may delete knows that the status lists the resources.
ResourcesListed ==
    /\ pc # "idle" /\ w.rv = api.rv => w.res = api.res
    /\ api.res => /\ pc \in DeletePcs => w.res
                  /\ \A c \in Copies : c.rv # 0 /\ c.rv >= processed => c.res

\* Every bound claim still has a VRC, a VRC is cleaned up when it goes, and behind the
\* cleanup no listed resource is left.
CleanedPcs == {"annCleaned", "delList", "delFinalizer"}
TakenAlong ==
    /\ vdel \subseteq vclean
    /\ \A p \in bound : \E v \in LiveVRCs : v[2] = p
    /\ pc \in CleanedPcs /\ w.res => CleanedUp(applied)

RemovalInv ==
    api.rv # 0 /\ faults = 0 =>
        FinishedIsCompleted /\ ResourcesListed /\ (api.stage # "Finished" => TakenAlong)

=============================================================================
