--------------------------- MODULE BackupController ---------------------------
(***************************************************************************)
(* The backup controller of kahu: one Backup object in the Kubernetes API  *)
(* server, the informer that mirrors it, the work queue and the worker     *)
(* that runs processQueue on its key, the 5 s reconciler goroutine that    *)
(* folds the VolumeBackupContents (VBCs) back into the Backup, and the     *)
(* environment: users, volume providers, the metadata service, API errors  *)
(* and process crashes.                                                    *)
(*                                                                         *)
(* The worker's program counter names the API call (or hook run) it makes  *)
(* next, so that every interleaving between two calls is explored.         *)
(***************************************************************************)
EXTENDS Integers, Sequences

CONSTANTS
    Provisioners,        \* provisioners of the PVCs in the cluster
    SupportedResources,  \* is config.SupportedResources set?
    MaxRetry,            \* defaultMaxRetry of the generic controller
    MaxAttempts,         \* bound: runs of processVolumeBackup that create VBCs
    MaxFaults,           \* bound: failed calls and foreign writes of the object
    MaxCrashes,          \* bound: process crashes
    PreHookFails,        \* may a pre hook command fail?
    PostHookFails,       \* may a post hook command fail?
    HooksLenient,        \* may a hook run report success over an error?
    UserDeletes          \* may the user delete the Backup?

ASSUME BackupAssumption ==
    /\ SupportedResources \in BOOLEAN
    /\ PreHookFails \in BOOLEAN /\ PostHookFails \in BOOLEAN /\ HooksLenient \in BOOLEAN
    /\ UserDeletes \in BOOLEAN
    /\ MaxRetry \in Nat /\ MaxAttempts \in Nat /\ MaxFaults \in Nat /\ MaxCrashes \in Nat

VARIABLES
    api,        \* the Backup in the API server; NoBackup when there is none
    watch,      \* versions the API server has not yet delivered to the informer
    cache,      \* the lister's copy
    queued,     \* is the key in the work queue?
    requeues,   \* NumRequeues of the key
    processed,  \* revision kept for the key by the processedBackup store, 0: none
    emptyKey,   \* does that store hold an entry for the key of an empty object?
    pc,         \* next call of the worker
    w,          \* the worker's copy of the Backup
    rpc,        \* next call of the reconciler
    rc,         \* the reconciler's copy of the Backup
    wanted,     \* provisioners of the PVCs the backup selects ({}: no volume)
    vbc,        \* phase of every VBC, by attempt and provisioner
    vdel,       \* VBCs with a deletion timestamp
    attempt,    \* attempts of processVolumeBackup that took their snapshots
    apps,       \* what the hooks made of the applications
    archive,    \* the metadata archive under the backup's name
    faults,     \* calls that failed, and foreign writes, so far
    crashes     \* crashes so far

apiVars    == <<api, watch>>
queueVars  == <<queued, requeues>>
storeVars  == <<processed, emptyKey>>
workerVars == <<pc, w>>
rcVars     == <<rpc, rc>>
volVars    == <<wanted, vbc, vdel, attempt>>
envVars    == <<apps, archive>>
vars == <<api, watch, cache, queued, requeues, processed, emptyKey, pc, w,
          rpc, rc, wanted, vbc, vdel, attempt, apps, archive, faults, crashes>>

-----------------------------------------------------------------------------
(* Objects *)

\* "unset" is the empty string, the zero value of both types.
Stages == {"unset", "Initial", "PreHook", "Volumes", "PostHook", "Resources", "Finished"}
States == {"unset", "New", "Processing", "Completed", "Failed"}
Annotations == {"backup-resources", "volume-backup-completed",
                "fail-hooks-completed", "volume-backup-delete-completed"}

toOrdinal(stage) ==
    CASE stage = "Initial"   -> 0
      [] stage = "PreHook"   -> 1
      [] stage = "Volumes"   -> 2
      [] stage = "PostHook"  -> 3
      [] stage = "Resources" -> 4
      [] stage = "Finished"  -> 5
      [] OTHER               -> -1

\* verr: status.ValidationErrors is not empty; res: status.Resources is filled.
Backup == [rv: Nat, stage: Stages, state: States, fin: BOOLEAN, del: BOOLEAN,
           ann: SUBSET Annotations, verr: BOOLEAN, res: BOOLEAN]

\* What a client call returns beside its error, and the absent object.
NoBackup == [rv |-> 0, stage |-> "unset", state |-> "unset", fin |-> FALSE, del |-> FALSE,
             ann |-> {}, verr |-> FALSE, res |-> FALSE]

\* "New" stands for every phase that decides nothing: New, InProgress, Deleting.
VBCs == (1..MaxAttempts) \X Provisioners
VBCPhases == {"absent", "New", "Completed", "Failed"}
LiveVBCs == {v \in VBCs : vbc[v] # "absent"}

\* What the hooks made of the applications that a pre hook is for: they run, they stand
\* still, or some do; "prePassed" and "postPassed": the last run of the pre or post hooks
\* reported success although it had passed over an error.
Apps == {"running", "partly", "quiesced", "prePassed", "postPassed"}
Held(a) == a \in {"quiesced", "prePassed"}
Released(a) == a \in {"running", "postPassed"}

\* "left": the provider failed to delete it, and its error was dropped.
Archives == {"none", "stored", "left"}

Pcs == {"idle", "finalizer", "initStatus", "validate", "supported", "validated",
        "sync", "initial", "preProcessing", "preExec", "preFailed", "preReverse",
        "toVolumes", "volumes", "collect", "volumeGroup", "createVBC", "noVolume",
        "scheduled", "volSynced", "volReverse", "annFailHooks",
        "postExec", "postFailed", "toResources", "resources", "resOK", "resFail",
        "resSynced", "finished", "delVBC", "delList", "delMeta", "delFinalizer"}
RPcs == {"idle", "checkDeleted", "list", "fail", "annCompleted", "annDeleted"}

Init ==
    /\ api = [NoBackup EXCEPT !.rv = 1]
    /\ watch = <<api>>
    /\ cache = NoBackup
    /\ queued = FALSE
    /\ requeues = 0
    /\ processed = 0
    /\ emptyKey \in BOOLEAN    \* the store is shared with the other backups
    /\ pc = "idle" /\ w = NoBackup
    /\ rpc = "idle" /\ rc = NoBackup
    /\ wanted \in SUBSET Provisioners
    /\ vbc = [v \in VBCs |-> "absent"]
    /\ vdel = {}
    /\ attempt = 0
    /\ apps = "running"
    /\ archive = "none"
    /\ faults = 0
    /\ crashes = 0

-----------------------------------------------------------------------------
(* API server, store and work queue primitives *)

\* Store a version of the object; a write that changes nothing has no event.
Commit(b) ==
    IF [b EXCEPT !.rv = api.rv] = api
    THEN UNCHANGED apiVars
    ELSE LET new == [b EXCEPT !.rv = api.rv + 1] IN
         /\ api' = new
         /\ watch' = Append(watch, new)

\* The object disappears: no finalizer is left on a deleted Backup.
Remove ==
    /\ api' = NoBackup
    /\ watch' = Append(watch, NoBackup)

\* UpdateStatus stores the status of b and ignores its metadata.
StatusOf(b) == [api EXCEPT !.stage = b.stage, !.state = b.state,
                           !.verr = b.verr, !.res = b.res]

\* Mutant: a write does not advance the stored revision.
StoreRevisionForgets(rv) == processed' = processed /\ rv = rv

StoreRevisionUpdate(rv) == processed' = IF processed > rv THEN processed ELSE rv

Fault == faults < MaxFaults /\ faults' = faults + 1

Goto(next, b) == pc' = next /\ w' = b /\ UNCHANGED queueVars

Return == pc' = "idle" /\ w' = NoBackup /\ requeues' = 0 /\ UNCHANGED queued

ReturnErr ==
    /\ pc' = "idle" /\ w' = NoBackup
    /\ IF requeues < MaxRetry
       THEN requeues' = requeues + 1 /\ queued' = TRUE
       ELSE requeues' = 0 /\ UNCHANGED queued

Continue(next, b) == IF next = "return" THEN Return ELSE Goto(next, b)

\* The process dies and restarts: its memory is lost, the informer lists the object
\* the server then has.
Restart(b) ==
    /\ pc' = "idle" /\ w' = NoBackup
    /\ rpc' = "idle" /\ rc' = NoBackup
    /\ api' = b /\ cache' = b /\ watch' = <<>>
    /\ queued' = (b.rv # 0) /\ requeues' = 0
    /\ processed' = 0 /\ emptyKey' = FALSE

-----------------------------------------------------------------------------
(* Client calls of the worker *)

\* The clone updateBackupStatus prepares: the stage is only ever raised.
Updated(b, stage, state) ==
    [b EXCEPT !.stage = IF toOrdinal(b.stage) < toOrdinal(stage) THEN stage ELSE @,
              !.state = IF state # "unset" THEN state ELSE @]

\* Mutant: a status write without the optimistic lock.
WriteStatusUnlocked(b, next, err) ==
    LET matches == b.rv # 0 /\ api.rv # 0 IN
    \/ /\ matches
       /\ Commit(StatusOf(b))
       /\ StoreRevisionUpdate(api'.rv)
       /\ Continue(next, api')
       /\ UNCHANGED <<emptyKey, faults>>
    \/ /\ \/ ~matches /\ UNCHANGED <<apiVars, faults>>
          \/ matches /\ Fault /\ (UNCHANGED apiVars \/ Commit(StatusOf(b)))
       /\ UNCHANGED processed
       /\ emptyKey' = TRUE
       /\ IF ~emptyKey THEN Continue(next, NoBackup)
          ELSE IF err = "retry" THEN ReturnErr ELSE Return

\* UpdateStatus on the server (optimistic lock on rv), then the store. The error
\* of a failed call is overwritten by the result of storing the empty object it
\* returned: nil the first time, a parse error from then on. err is what the
\* caller does with that error.
WriteStatus(b, next, err) ==
    LET matches == b.rv # 0 /\ b.rv = api.rv IN
    \/ /\ matches
       /\ Commit(StatusOf(b))
       /\ StoreRevisionUpdate(api'.rv)
       /\ Continue(next, api')
       /\ UNCHANGED <<emptyKey, faults>>
    \/ /\ \/ ~matches /\ UNCHANGED <<apiVars, faults>>
          \/ matches /\ Fault /\ (UNCHANGED apiVars \/ Commit(StatusOf(b)))
       /\ UNCHANGED processed
       /\ emptyKey' = TRUE
       /\ IF ~emptyKey THEN Continue(next, NoBackup)
          ELSE IF err = "retry" THEN ReturnErr ELSE Return

\* updateBackupStatus writes only when the clone is dirty.
UpdateStatus(stage, state, next) ==
    /\ LET b == Updated(w, stage, state) IN
       IF b # w THEN WriteStatus(b, next, "retry")
       ELSE Continue(next, w) /\ UNCHANGED <<apiVars, storeVars, faults>>
    /\ UNCHANGED <<cache, rcVars, volVars, envVars, crashes>>

\* patchBackup: a merge patch, without rv, that turns the object into b.
PatchBackup(b, next) ==
    /\ \/ /\ w.rv # 0 /\ api.rv # 0
          /\ Commit(b)
          /\ StoreRevisionUpdate(api'.rv)
          /\ Goto(next, api')
          /\ UNCHANGED <<emptyKey, faults>>
       \/ /\ \/ (w.rv = 0 \/ api.rv = 0) /\ UNCHANGED <<apiVars, faults>>
             \/ w.rv # 0 /\ api.rv # 0 /\ Fault /\ (UNCHANGED apiVars \/ Commit(b))
          /\ ReturnErr
          /\ UNCHANGED storeVars
    /\ UNCHANGED <<cache, rcVars, volVars, envVars, crashes>>

\* annotateBackup: the error of the patch is dropped, the empty object returned.
AnnotateBackup(a, next) ==
    LET upd == [api EXCEPT !.ann = @ \cup {a}] IN
    /\ \/ a \in w.ann /\ Continue(next, w) /\ UNCHANGED <<apiVars, faults>>
       \/ /\ a \notin w.ann /\ w.rv # 0 /\ api.rv # 0
          /\ Commit(upd)
          /\ Continue(next, api')
          /\ UNCHANGED faults
       \/ /\ a \notin w.ann
          /\ \/ (w.rv = 0 \/ api.rv = 0) /\ UNCHANGED <<apiVars, faults>>
             \/ w.rv # 0 /\ api.rv # 0 /\ Fault /\ (UNCHANGED apiVars \/ Commit(upd))
          /\ Continue(next, NoBackup)
    /\ UNCHANGED <<cache, storeVars, rcVars, volVars, envVars, crashes>>

\* A step of the handler that touches no API object.
Local(next, b) ==
    /\ Continue(next, b)
    /\ UNCHANGED <<apiVars, cache, storeVars, rcVars, volVars, crashes>>

\* A call other than a write of the Backup fails; the handler returns the error.
CallFails ==
    /\ Fault
    /\ ReturnErr
    /\ UNCHANGED <<apiVars, cache, storeVars, rcVars, volVars, envVars, crashes>>

-----------------------------------------------------------------------------
(* processQueue *)

\* Mutant: a failed backup is synced again.
SyncEntryFailed(b) ==
    CASE b.stage = "Initial"   -> "initial"
      [] b.stage = "PreHook"   -> "preProcessing"
      [] b.stage = "Volumes"   -> "volumes"
      [] b.stage = "PostHook"  -> "postExec"
      [] b.stage = "Resources" -> "resources"
      [] b.stage = "Finished"  -> "finished"
      [] OTHER                 -> "return"

\* Where syncBackup enters its switch.
SyncEntry(b) ==
    IF b.state \in {"Deleting", "Failed"} /\ b.stage # "Volumes" THEN "return"
    ELSE CASE b.stage = "Initial"   -> "initial"
           [] b.stage = "PreHook"   -> "preProcessing"
           [] b.stage = "Volumes"   -> "volumes"
           [] b.stage = "PostHook"  -> "postExec"
           [] b.stage = "Resources" -> "resources"
           [] b.stage = "Finished"  -> "finished"
           [] OTHER                 -> "return"

\* Take the key, read the lister, drop what is older than the stored revision.
ProcessQueue ==
    /\ pc = "idle" /\ queued
    /\ queued' = FALSE
    /\ IF cache.rv = 0 \/ processed > cache.rv
       THEN requeues' = 0 /\ UNCHANGED <<workerVars, processed>>
       ELSE /\ processed' = cache.rv
            /\ w' = cache
            /\ pc' = IF cache.del THEN "delVBC"
                     ELSE IF cache.stage \in {"unset", "Initial"} THEN "finalizer"
                     ELSE "sync"
            /\ UNCHANGED requeues
    /\ UNCHANGED <<apiVars, cache, emptyKey, rcVars, volVars, envVars, faults, crashes>>

\* backupInitialize, the finalizer
InitFinalizer ==
    /\ pc = "finalizer"
    /\ IF w.fin THEN Local("initStatus", w) /\ UNCHANGED <<envVars, faults>>
       ELSE PatchBackup([api EXCEPT !.fin = TRUE], "initStatus")

\* backupInitialize, the status: the stage is set in memory only, unless recorded
\* validation errors or resources make the clone dirty.
InitStatus ==
    /\ pc = "initStatus"
    /\ LET b == [w EXCEPT !.stage = IF @ = "unset" THEN "Initial" ELSE @] IN
       IF w.verr \/ w.res
       THEN /\ WriteStatus(b, "validate", "retry")
            /\ UNCHANGED <<cache, rcVars, volVars, envVars, crashes>>
       ELSE Local("validate", b) /\ UNCHANGED <<envVars, faults>>

\* validateBackup: an empty object never validates; the handler drops the error.
ValidateBackup ==
    /\ pc = "validate"
    /\ \/ w.rv # 0 /\ Local("supported", w) /\ UNCHANGED <<envVars, faults>>
       \/ /\ WriteStatus([Updated(w, "unset", "Failed") EXCEPT !.verr = TRUE], "return", "drop")
          /\ UNCHANGED <<cache, rcVars, volVars, envVars, crashes>>

EnsureSupportedResourceList ==
    /\ pc = "supported"
    /\ IF SupportedResources /\ "backup-resources" \notin w.ann
       THEN PatchBackup([api EXCEPT !.ann = @ \cup {"backup-resources"}], "validated")
       ELSE Local("validated", w) /\ UNCHANGED <<envVars, faults>>

Validated == pc = "validated" /\ UpdateStatus("unset", "Completed", "sync")

-----------------------------------------------------------------------------
(* syncBackup *)

SyncBackup ==
    /\ pc = "sync"
    /\ Local(SyncEntry(w), w)
    /\ UNCHANGED <<envVars, faults>>

SyncInitial == pc = "initial" /\ UpdateStatus("PreHook", "New", "preProcessing")

PreHookProcessing == pc = "preProcessing" /\ UpdateStatus("unset", "Processing", "preExec")

\* What a run of pre or post hooks that ended with an error makes of the applications
Rising(a) == IF a \in {"running", "postPassed"} THEN {"running", "partly", "quiesced"}
             ELSE {a, "quiesced"}
Falling(a) == IF a \in {"quiesced", "prePassed"} THEN {"running", "partly", "quiesced"}
              ELSE {a, "running"}

\* What one that reported success makes of them: only the error of a command with onError
\* Fail, of listing namespaces or of getting a pod is returned. Other commands may fail,
\* and a failed listing of pods counts as no pods.
Outcomes(done, passed) == IF HooksLenient THEN {done, passed} ELSE {done}

\* Mutant: the error of a pre hook is ignored.
ExecutePreHooksIgnored ==
    /\ pc = "preExec"
    /\ Local("toVolumes", w)
    /\ apps' \in IF w.rv = 0 THEN {apps} ELSE IF PreHookFails THEN Rising(apps) ELSE {"quiesced"}
    /\ UNCHANGED <<archive, faults>>

\* ExecuteHook with the spec of an empty object runs nothing.
ExecutePreHooks ==
    /\ pc = "preExec"
    /\ \/ w.rv = 0 /\ Local("toVolumes", w) /\ UNCHANGED apps
       \/ w.rv # 0 /\ Local("toVolumes", w) /\ apps' \in Outcomes("quiesced", "prePassed")
       \/ PreHookFails /\ w.rv # 0 /\ Local("preFailed", w) /\ apps' \in Rising(apps)
    /\ UNCHANGED <<archive, faults>>

PreHookFailed == pc = "preFailed" /\ UpdateStatus("unset", "Failed", "preReverse")

\* Mutant: the error of a post hook is ignored.
RunPostHooksIgnored(ok, failed) ==
    /\ Local(ok, w)
    /\ apps' \in IF w.rv = 0 THEN {apps} ELSE IF PostHookFails THEN Falling(apps) ELSE {"running"}
    /\ failed = failed
    /\ UNCHANGED <<archive, faults>>

RunPostHooks(ok, failed) ==
    /\ \/ w.rv = 0 /\ Local(ok, w) /\ UNCHANGED apps
       \/ w.rv # 0 /\ Local(ok, w) /\ apps' \in Outcomes("running", "postPassed")
       \/ PostHookFails /\ w.rv # 0 /\ Local(failed, w) /\ apps' \in Falling(apps)
    /\ UNCHANGED <<archive, faults>>

ReversePreHooks == pc = "preReverse" /\ RunPostHooks("return", "return")

ToVolumes == pc = "toVolumes" /\ UpdateStatus("Volumes", "New", "volumes")

SyncVolumeBackup ==
    /\ pc = "volumes"
    /\ IF w.state = "Completed" THEN Local("volSynced", w) /\ UNCHANGED <<envVars, faults>>
       ELSE IF "volume-backup-completed" \in w.ann
       THEN UpdateStatus("unset", "Completed", "volSynced")
       ELSE /\ Local(IF w.state = "New" THEN "collect" ELSE "volSynced", w)
            /\ UNCHANGED <<envVars, faults>>

\* Sync: collect the resources and record them in the status; always dirty.
CollectResources ==
    /\ pc = "collect"
    /\ \/ /\ WriteStatus([w EXCEPT !.res = TRUE], "volumeGroup", "retry")
          /\ UNCHANGED <<cache, rcVars, volVars, envVars, crashes>>
       \/ CallFails

\* processVolumeBackup up to WaitForSnapshotToReady. The group of an empty object
\* has an invalid name.
TakeSnapshots ==
    /\ pc = "volumeGroup"
    /\ \/ wanted = {} /\ Local("noVolume", w) /\ UNCHANGED <<envVars, faults>>
       \/ /\ wanted # {} /\ w.rv # 0 /\ attempt < MaxAttempts
          /\ attempt' = attempt + 1
          /\ Goto("createVBC", w)
          /\ UNCHANGED <<apiVars, cache, storeVars, rcVars, wanted, vbc, vdel, envVars, faults, crashes>>
       \/ /\ wanted # {} /\ w.rv = 0 /\ ReturnErr
          /\ UNCHANGED <<apiVars, cache, storeVars, rcVars, volVars, envVars, faults, crashes>>
       \/ wanted # {} /\ CallFails

\* Mutant: a backup without volumes is not annotated.
AnnotateNoVolumeSkipped == pc = "noVolume" /\ Local("scheduled", w) /\ UNCHANGED <<envVars, faults>>

AnnotateNoVolume ==
    pc = "noVolume" /\ AnnotateBackup("volume-backup-completed", "scheduled")

\* ensureVBCWithBackupSourceRef for one snapshot; a failed reply may hide a VBC.
CreateVBC ==
    /\ pc = "createVBC"
    /\ \E p \in wanted :
          /\ vbc[<<attempt, p>>] = "absent"
          /\ vbc' = [vbc EXCEPT ![<<attempt, p>>] = "New"]
          /\ \/ /\ Goto(IF \A q \in wanted : vbc'[<<attempt, q>>] # "absent"
                        THEN "scheduled" ELSE "createVBC", w)
                /\ UNCHANGED faults
             \/ Fault /\ ReturnErr
    /\ UNCHANGED <<apiVars, cache, storeVars, rcVars, wanted, vdel, attempt, envVars, crashes>>

CreateVBCFails == pc = "createVBC" /\ CallFails

Scheduled == pc = "scheduled" /\ UpdateStatus("unset", "Processing", "volSynced")

\* Mutant: a failed volume backup does not reverse the pre hooks.
VolumesSyncedNoReverse ==
    /\ pc = "volSynced"
    /\ IF w.state = "Completed" THEN UpdateStatus("PostHook", "Processing", "postExec")
       ELSE Local("return", w) /\ UNCHANGED <<envVars, faults>>

\* The decision after syncVolumeBackup
VolumesSynced ==
    /\ pc = "volSynced"
    /\ IF w.state = "Completed" THEN UpdateStatus("PostHook", "Processing", "postExec")
       ELSE /\ Local(IF w.state = "Failed" /\ "fail-hooks-completed" \notin w.ann
                     THEN "volReverse" ELSE "return", w)
            /\ UNCHANGED <<envVars, faults>>

ReverseVolumeHooks == pc = "volReverse" /\ RunPostHooks("annFailHooks", "annFailHooks")

AnnotateFailHooks == pc = "annFailHooks" /\ AnnotateBackup("fail-hooks-completed", "return")

ExecutePostHooks == pc = "postExec" /\ RunPostHooks("toResources", "postFailed")

PostHookFailed == pc = "postFailed" /\ UpdateStatus("unset", "Failed", "return")

ToResources == pc = "toResources" /\ UpdateStatus("Resources", "New", "resources")

\* Mutant: the error of closing the stream is ignored.
BackupMetadataIgnored ==
    /\ pc = "resources"
    /\ IF w.state = "Completed" THEN Local("resSynced", w) /\ UNCHANGED archive
       ELSE LET b == [w EXCEPT !.verr = FALSE] IN
            \/ w.rv # 0 /\ Local("resOK", b) /\ archive' \in {archive, "stored"}
            \/ w.rv = 0 /\ Local("resFail", b) /\ UNCHANGED archive
    /\ UNCHANGED <<apps, faults>>

\* processMetadataBackup: stream the resources, close the stream. A failed stream
\* may leave an archive. The validation errors are cleared in memory.
BackupMetadata ==
    /\ pc = "resources"
    /\ IF w.state = "Completed" THEN Local("resSynced", w) /\ UNCHANGED archive
       ELSE LET b == [w EXCEPT !.verr = FALSE] IN
            \/ w.rv # 0 /\ Local("resOK", b) /\ archive' = "stored"
            \/ Local("resFail", b) /\ archive' \in (IF w.rv # 0 THEN {archive, "stored"} ELSE {archive})
    /\ UNCHANGED <<apps, faults>>

BackupMetadataDone == pc = "resOK" /\ UpdateStatus("unset", "Completed", "resSynced")

BackupMetadataFailed == pc = "resFail" /\ UpdateStatus("unset", "Failed", "resSynced")

ResourcesSynced ==
    /\ pc = "resSynced"
    /\ IF w.state = "Completed" THEN UpdateStatus("Finished", "New", "finished")
       ELSE Local("return", w) /\ UNCHANGED <<envVars, faults>>

Finish == pc = "finished" /\ UpdateStatus("Finished", "Completed", "return")

-----------------------------------------------------------------------------
(* deleteBackup *)

\* removeVolumeBackup: delete the VBCs that are not being deleted; the list, or the
\* deletion of one of them, may fail.
RemoveVolumeBackup ==
    /\ pc = "delVBC"
    /\ \/ vdel' = LiveVBCs /\ Goto("delList", w) /\ UNCHANGED faults
       \/ /\ \E some \in SUBSET LiveVBCs : vdel' = vdel \cup some
          /\ Fault /\ ReturnErr
    /\ UNCHANGED <<apiVars, cache, storeVars, rcVars, wanted, vbc, attempt, envVars, crashes>>

\* Mutant: the deletion does not wait for the VBCs.
ListVolumeBackupNoWait ==
    /\ pc = "delList"
    /\ \/ Local("delMeta", w) /\ UNCHANGED <<envVars, faults>>
       \/ CallFails

ListVolumeBackup ==
    /\ pc = "delList"
    /\ \/ /\ Local(IF LiveVBCs = {} THEN "delMeta" ELSE "return", w)
          /\ UNCHANGED <<envVars, faults>>
       \/ CallFails

\* Mutant: nothing is deleted for a finished backup.
DeleteMetadataBackupEarly ==
    /\ pc = "delMeta"
    /\ \/ /\ Local("delFinalizer", w)
          /\ archive' = IF w.state = "Failed" \/ toOrdinal(w.stage) # toOrdinal("Resources")
                        THEN archive ELSE "none"
          /\ UNCHANGED <<apps, faults>>
       \/ w.state # "Failed" /\ w.stage = "Resources" /\ CallFails

\* The metadata service reports success also when its provider failed to delete.
DeleteMetadataBackup ==
    /\ pc = "delMeta"
    /\ LET skipped == w.state = "Failed" \/ toOrdinal(w.stage) < toOrdinal("Resources") IN
       \/ skipped /\ Local("delFinalizer", w) /\ UNCHANGED <<envVars, faults>>
       \/ /\ ~skipped /\ Local("delFinalizer", w)
          /\ \/ archive' = "none" /\ UNCHANGED faults
             \/ archive = "stored" /\ archive' = "left" /\ Fault
          /\ UNCHANGED apps
       \/ ~skipped /\ CallFails

\* Remove the finalizer: the object goes, the store forgets the key.
RemoveFinalizer ==
    /\ pc = "delFinalizer"
    /\ api.rv # 0
    /\ Remove
    /\ processed' = 0
    /\ Return
    /\ UNCHANGED <<cache, emptyKey, rcVars, volVars, envVars, faults, crashes>>

\* The patch fails: patchBackup returns nil and the log statement of the error
\* branch dereferences it. The panic ends the process.
RemoveFinalizerPanics ==
    /\ pc = "delFinalizer"
    /\ \/ api.rv = 0 /\ UNCHANGED faults /\ Restart(api)
       \/ api.rv # 0 /\ Fault /\ \E b \in {api, NoBackup} : Restart(b)
    /\ UNCHANGED <<volVars, envVars, crashes>>

Worker ==
    \/ ProcessQueue \/ InitFinalizer \/ InitStatus \/ ValidateBackup
    \/ EnsureSupportedResourceList \/ Validated \/ SyncBackup \/ SyncInitial
    \/ PreHookProcessing \/ ExecutePreHooks \/ PreHookFailed \/ ReversePreHooks
    \/ ToVolumes \/ SyncVolumeBackup \/ CollectResources \/ TakeSnapshots
    \/ AnnotateNoVolume \/ CreateVBC \/ CreateVBCFails \/ Scheduled \/ VolumesSynced
    \/ ReverseVolumeHooks \/ AnnotateFailHooks \/ ExecutePostHooks \/ PostHookFailed
    \/ ToResources \/ BackupMetadata \/ BackupMetadataDone \/ BackupMetadataFailed
    \/ ResourcesSynced \/ Finish \/ RemoveVolumeBackup \/ ListVolumeBackup
    \/ DeleteMetadataBackup \/ RemoveFinalizer \/ RemoveFinalizerPanics

-----------------------------------------------------------------------------
(* The volume backup reconciler *)

RcGoto(next, b) ==
    /\ rpc' = next /\ rc' = b
    /\ UNCHANGED <<cache, queueVars, storeVars, workerVars, volVars, envVars, crashes>>

RcStart ==
    /\ rpc = "idle" /\ cache.rv # 0
    /\ RcGoto(IF cache.del THEN "checkDeleted" ELSE "list", cache)
    /\ UNCHANGED <<apiVars, faults>>

\* isVolumeBackupContentDeleted: a failed call returns an empty list, which counts
\* as deleted.
RcCheckDeleted ==
    /\ rpc = "checkDeleted"
    /\ \/ /\ IF LiveVBCs = {} THEN RcGoto("annDeleted", NoBackup) ELSE RcGoto("list", rc)
          /\ UNCHANGED faults
       \/ Fault /\ RcGoto("annDeleted", NoBackup)
    /\ UNCHANGED apiVars

isReconcileRequired(b) ==
    b.stage = "Volumes" /\ "volume-backup-completed" \notin b.ann

\* Mutant: a VBC counts as completed unless it failed.
RcVerdictsHasty ==
    IF \E v \in LiveVBCs : vbc[v] = "Failed" THEN {"fail"} ELSE {"annCompleted"}

\* The loop over the listed VBCs stops at the first one that decides: a failure
\* is overlooked as long as an unfinished VBC comes before it.
RcVerdicts ==
    (IF \E v \in LiveVBCs : vbc[v] = "Failed" THEN {"fail"} ELSE {})
    \cup (IF \E v \in LiveVBCs : vbc[v] = "New" THEN {"idle"} ELSE {})
    \cup (IF \A v \in LiveVBCs : vbc[v] = "Completed" THEN {"annCompleted"} ELSE {})

\* List the VBCs of the backup and decide.
RcList ==
    /\ rpc = "list"
    /\ \/ /\ LET verdicts == IF isReconcileRequired(rc) /\ LiveVBCs # {}
                             THEN RcVerdicts ELSE {"idle"}
             IN \E v \in verdicts : RcGoto(v, IF v = "fail" THEN rc ELSE NoBackup)
          /\ UNCHANGED faults
       \/ isReconcileRequired(rc) /\ Fault /\ RcGoto("idle", NoBackup)
    /\ UNCHANGED apiVars

\* updateBackupFailure: the lister's copy with State Failed; errors are logged.
RcUpdateFailure ==
    /\ rpc = "fail"
    /\ \/ /\ rc.rv = api.rv
          /\ Commit([StatusOf(rc) EXCEPT !.state = "Failed"])
          /\ UNCHANGED faults
       \/ rc.rv # api.rv /\ UNCHANGED <<apiVars, faults>>
       \/ Fault /\ UNCHANGED apiVars
    /\ RcGoto("idle", NoBackup)

\* annotateBackup of the reconciler: reads the lister again, patches without rv.
RcAnnotate(at, a) ==
    /\ rpc = at
    /\ \/ /\ cache.rv # 0 /\ a \notin cache.ann /\ api.rv # 0
          /\ Commit([api EXCEPT !.ann = @ \cup {a}])
          /\ UNCHANGED faults
       \/ (cache.rv = 0 \/ a \in cache.ann \/ api.rv = 0) /\ UNCHANGED <<apiVars, faults>>
       \/ Fault /\ UNCHANGED apiVars
    /\ RcGoto("idle", NoBackup)

Reconciler ==
    \/ RcStart \/ RcCheckDeleted \/ RcList \/ RcUpdateFailure
    \/ RcAnnotate("annCompleted", "volume-backup-completed")
    \/ RcAnnotate("annDeleted", "volume-backup-delete-completed")

-----------------------------------------------------------------------------
(* Informer, resync, users, volume providers, crashes *)

\* The informer applies the next version; only Add and Update events enqueue.
Informer ==
    /\ watch # <<>>
    /\ cache' = Head(watch)
    /\ watch' = Tail(watch)
    /\ queued' = (queued \/ Head(watch).rv # 0)
    /\ UNCHANGED <<api, requeues, storeVars, workerVars, rcVars, volVars, envVars, faults, crashes>>

\* Mutant: the resync loop enqueues nothing.
ReSyncNever ==
    /\ cache.rv # 0 /\ ~queued
    /\ UNCHANGED vars

ReSync ==
    /\ cache.rv # 0 /\ ~queued
    /\ queued' = TRUE
    /\ UNCHANGED <<apiVars, cache, requeues, storeVars, workerVars, rcVars, volVars, envVars, faults, crashes>>

UserDelete ==
    /\ UserDeletes /\ api.rv # 0 /\ ~api.del
    /\ IF api.fin THEN Commit([api EXCEPT !.del = TRUE]) ELSE Remove
    /\ UNCHANGED <<cache, queueVars, storeVars, workerVars, rcVars, volVars, envVars, faults, crashes>>

\* Someone else edits labels or annotations of the object.
UserTouch ==
    /\ api.rv # 0 /\ Fault
    /\ LET new == [api EXCEPT !.rv = @ + 1] IN api' = new /\ watch' = Append(watch, new)
    /\ UNCHANGED <<cache, queueVars, storeVars, workerVars, rcVars, volVars, envVars, crashes>>

\* What the volume backup service does to a VBC (see VolumeBackupContract): it ends a
\* volume backup, takes a deleted VBC to phase Deleting, and lets it go.
ProviderFinishes ==
    /\ \E v \in VBCs : /\ vbc[v] = "New"
                       /\ \E phase \in {"Completed", "Failed"} :
                             vbc' = [vbc EXCEPT ![v] = phase]
    /\ UNCHANGED <<apiVars, cache, queueVars, storeVars, workerVars, rcVars, wanted, vdel, attempt, envVars, faults, crashes>>

ProviderDeletes ==
    /\ \E v \in vdel : /\ vbc[v] \in {"Completed", "Failed"}
                       /\ vbc' = [vbc EXCEPT ![v] = "New"]
    /\ UNCHANGED <<apiVars, cache, queueVars, storeVars, workerVars, rcVars, wanted, vdel, attempt, envVars, faults, crashes>>

ProviderRemoves ==
    /\ \E v \in vdel : vbc' = [vbc EXCEPT ![v] = "absent"] /\ vdel' = vdel \ {v}
    /\ UNCHANGED <<apiVars, cache, queueVars, storeVars, workerVars, rcVars, wanted, attempt, envVars, faults, crashes>>

Crash ==
    /\ crashes < MaxCrashes
    /\ crashes' = crashes + 1
    /\ Restart(api)
    /\ UNCHANGED <<volVars, envVars, faults>>

Next ==
    \/ Worker \/ Reconciler \/ Informer \/ ReSync \/ UserDelete \/ UserTouch
    \/ ProviderFinishes \/ ProviderDeletes \/ ProviderRemoves \/ Crash

Spec == Init /\ [][Next]_vars

Fairness ==
    /\ WF_vars(Worker)
    /\ WF_vars(Reconciler)
    /\ WF_vars(Informer)
    /\ WF_vars(ReSync)
    /\ WF_vars(ProviderFinishes)
    /\ WF_vars(ProviderRemoves)

FairSpec == Spec /\ Fairness

-----------------------------------------------------------------------------
(* Properties *)

\* The values the object, its copies, the retry count of the work queue and the
\* environment may take; the key is retried at most MaxRetry times in a row.
TypeOK ==
    /\ api \in Backup /\ cache \in Backup /\ w \in Backup /\ rc \in Backup
    /\ watch \in Seq(Backup)
    /\ queued \in BOOLEAN /\ requeues \in 0..MaxRetry
    /\ processed \in Nat /\ emptyKey \in BOOLEAN
    /\ pc \in Pcs /\ rpc \in RPcs
    /\ wanted \in SUBSET Provisioners
    /\ vbc \in [VBCs -> VBCPhases] /\ vdel \in SUBSET VBCs
    /\ attempt \in 0..MaxAttempts
    /\ apps \in Apps /\ archive \in Archives
    /\ faults \in 0..MaxFaults /\ crashes \in 0..MaxCrashes

\* What a step may never do: updateBackupStatus, from whatever copy, and the
\* reconciler's failure write never take the object back to an earlier stage.
StageNotLowered == api'.rv # 0 => toOrdinal(api'.stage) >= toOrdinal(api.stage)
\* The stage in the API server only moves forward while the Backup exists.
StageMonotone == [][StageNotLowered]_vars

\* When the object has reached the Resources stage the post hooks have resumed every
\* application that a pre hook had quiesced, and no later run of the pre hooks (from a
\* stale copy, after a lost reply or a restart) has quiesced one again; except for what
\* the last such run of the post hooks passed over (a command that may fail, pods that
\* could not be listed).
ResumedBeforeResources ==
    toOrdinal(api.stage) >= toOrdinal("Resources") => Released(apps)

\* processVolumeBackup takes snapshots and creates VBCs only while every application is
\* quiesced, also when an earlier attempt failed part way and is retried; except for
\* what the last successful run of the pre hooks passed over.
SnapshotsWhileQuiesced ==
    pc \in {"volumeGroup", "createVBC"} /\ w.rv # 0 => Held(apps)

\* The post hooks run, and the backup is finished, only after the volumes of every
\* provisioner have been backed up: "PostHooks is a list of ResourceHooks to execute
\* after storing the item in the backup" (apis/kahu/v1beta1/backup.go). Broken with two
\* provisioners: the reconciler counts the VBCs that are there.
PostHookAfterVolumes ==
    toOrdinal(api.stage) >= toOrdinal("PostHook") /\ ~api.del =>
        \A p \in wanted : \E a \in 1..MaxAttempts : vbc[<<a, p>>] = "Completed"

\* There is no volume to back up, or a volume backup is complete.
SomeVolumeSaved == wanted = {} \/ \E v \in VBCs : vbc[v] = "Completed"

\* What is left of that promise with any number of provisioners: the reconciler's verdict
\* is never given before a volume backup is complete, and no stale copy, lost reply or
\* annotation of an earlier attempt takes a backup past stage Volumes without one.
PostHookAfterSomeVolume ==
    toOrdinal(api.stage) >= toOrdinal("PostHook") /\ ~api.del => SomeVolumeSaved

\* A Backup is Finished only if the metadata service holds its archive, whatever
\* errors, retries and restarts processMetadataBackup went through.
FinishedHasArchive ==
    api.stage = "Finished" /\ ~api.del => archive = "stored"

\* deleteBackup lets the object go only after its last VBC is gone: no volume
\* backup is left that nobody would delete.
NoOrphanVBC == api.rv = 0 => LiveVBCs = {}

\* A finished Backup takes its archive along: when the object goes, deleteBackup has
\* had the metadata service delete it, from however old a copy it worked; except when
\* the provider fails to delete, an error the service drops (client.go:205).
ArchiveDeleted ==
    [][api.stage = "Finished" /\ api.del /\ api'.rv = 0 => archive # "stored"]_vars

\* A backup that has failed after its validation is never taken up again: no resync,
\* stale copy or late VBC result turns the Failed state into another one.
FailedIsFinal ==
    [][api.state = "Failed" /\ toOrdinal(api.stage) > 0 /\ api'.rv # 0
        => api'.state = "Failed"]_vars

\* Every backup is finished, fails or is deleted in the end: the worker, the resync
\* and the reconciler do not wait for each other for ever.
Terminates == <>(api.rv = 0 \/ api.state = "Failed" \/ (api.stage = "Finished" /\ api.state = "Completed"))

\* A Backup the user deleted is gone in the end.
DeletionCompletes == api.del ~> api.rv = 0

\* An application that a pre hook quiesced is resumed in the end, whether the backup
\* succeeds or fails, if no post hook command fails a run, the process does not crash and
\* the user does not delete the Backup meanwhile; except for what the run passed over.
Resumed == apps # "running" ~> (Released(apps) \/ api.del \/ api.rv = 0)

\* deleteBackup is not repeated for a Backup that is already gone: the store makes an
\* old version "be ignored" (StoreRevisionUpdate in utils/store.go).
DeletesOnce == pc = "delFinalizer" => api.rv # 0

\* When the pre hooks failed, the post hooks reverse them in the end: "Execute post
\* hooks for reverse, previous hook executions" (reversePreHooksExecutionOnFailure).
PreHookFailureReversed == api.stage = "PreHook" /\ api.state = "Failed" ~> Released(apps)

-----------------------------------------------------------------------------
(* The inductive invariant behind StageMonotone and ResumedBeforeResources *)

\* The stage as a number, the unset stage being as early as Initial
Rank(b) == IF toOrdinal(b.stage) < 0 THEN 0 ELSE toOrdinal(b.stage)

\* What the informer has delivered or will deliver
Copies == {cache} \cup {watch[i] : i \in DOMAIN watch}

\* The optimistic lock: a copy with the server's revision is the server's object.
Agrees(c) == c.rv <= api.rv /\ (c.rv = api.rv => c = api)
CopiesAgree == api.rv # 0 => \A c \in Copies \cup {rc} : Agrees(c)

\* The processed store: a copy it lets through is at most one stage behind.
Lags(c) == c.rv >= processed /\ c.rv # 0 => Rank(api) <= Rank(c) + 1
BoundedLag == api.rv # 0 => \A c \in Copies : Lags(c)

\* The worker's copy is at most one stage behind; at the server's revision it is not
\* behind at all.
WorkerAgrees ==
    api.rv # 0 =>
        /\ w.rv <= api.rv /\ processed <= api.rv
        /\ w.rv = api.rv => /\ toOrdinal(w.stage) >= toOrdinal(api.stage)
                            /\ Rank(w) = Rank(api)
        /\ w.rv # 0 => Rank(api) <= Rank(w) + 1

\* Calls between which only the worker could have moved the stage on
Locked == {"volumeGroup", "createVBC", "noVolume"}

\* When the worker's next write may succeed, what the store lets through is not
\* behind at all: the write may lose its reply and add one stage of lag.
Fresh(c) == c.rv >= processed /\ c.rv # 0 => Rank(api) <= Rank(c)
FreshCopies ==
    api.rv # 0 /\ w.rv # 0 /\ (w.rv = api.rv \/ pc \in Locked) =>
        \A c \in Copies : Fresh(c)

\* Where the worker is tells the stage of its copy.
StageAt(at, stage) ==
    /\ at = "initial" => stage = "Initial"
    /\ at \in {"preProcessing", "preExec", "preFailed", "preReverse", "toVolumes"}
          => stage = "PreHook"
    /\ at \in {"volumes", "collect", "volumeGroup", "createVBC", "noVolume",
               "scheduled", "volSynced", "volReverse", "annFailHooks"}
          => stage = "Volumes"
    /\ at \in {"postExec", "postFailed", "toResources"} => stage = "PostHook"
    /\ at \in {"resources", "resOK", "resFail", "resSynced"} => stage = "Resources"
    /\ at = "finished" => stage = "Finished"
WorkerStage ==
    /\ w.rv # 0 => StageAt(pc, w.stage)
    /\ pc \in Locked /\ w.rv # 0 /\ api.rv # 0 => api.stage = "Volumes"

\* The worker goes on to the Resources stage only after a complete post hook run.
ResumedAtToResources == pc = "toResources" /\ w.rv # 0 => Released(apps)

\* The reconciler writes a failure only to a Backup it has read.
ReconcilerHolds == rpc \in {"checkDeleted", "list", "fail"} => rc.rv # 0

\* Once removed, the object is never written again.
RemovedIsEmpty == api.rv = 0 => api = NoBackup

\* The inductive invariant: the server's object, the informer's copies, the copies of
\* worker and reconciler and the processed store are never further apart than one
\* write of the worker whose reply was lost.
IInv ==
    /\ TypeOK /\ RemovedIsEmpty /\ CopiesAgree /\ WorkerAgrees /\ BoundedLag /\ FreshCopies
    /\ WorkerStage /\ ResumedAtToResources /\ ReconcilerHolds
    /\ ResumedBeforeResources

-----------------------------------------------------------------------------
(* Inductive invariants on top of IInv: what a deletion relies on, in which order the *)
(* versions of the object come, and what a stage promises.                            *)

Gone(c) == c.rv = 0 \/ c.del

\* Calls of deleteBackup, and calls of processQueue behind the finalizer
DeletePcs == {"delVBC", "delList", "delMeta", "delFinalizer"}
SyncPcs == Pcs \ (DeletePcs \cup {"idle", "finalizer"})

\* These calls are made for an object only, never for an empty one.
HandlersHold == pc \in DeletePcs \cup {"finalizer", "createVBC"} => w.rv # 0

\* Finalizer and deletion timestamp stay while the object exists; with the finalizer it
\* goes only after the informer saw the deletion.
MarksKept ==
    api.rv # 0 =>
        /\ \A c \in Copies \cup {w} : (c.fin => api.fin) /\ (c.del => api.del)
        /\ \A c \in Copies \cup {api} : Rank(c) # 0 => c.fin
RemovalSeen ==
    /\ api.rv = 0 => \A c \in Copies : Gone(c) \/ (~c.fin /\ Rank(c) = 0)
    /\ \A i \in DOMAIN watch : watch[i].rv = 0 => api.rv = 0
DeletionOrdered ==
    /\ cache.del => \A i \in DOMAIN watch : Gone(watch[i])
    /\ \A i, j \in DOMAIN watch : i <= j /\ Gone(watch[i]) => Gone(watch[j])
DeleterKnows ==
    /\ pc \in DeletePcs => api.rv = 0 \/ cache.del
    /\ vdel # {} => Gone(api)

\* Whoever works on the backup, and every VBC, is protected by the finalizer.
FinalizerHeld ==
    LiveVBCs # {} \/ (pc \in SyncPcs /\ w.rv # 0) \/ (pc = "finalizer" /\ w.fin)
        => api.rv # 0 /\ api.fin
NothingLeft == pc \in {"delMeta", "delFinalizer"} => LiveVBCs = {}

DeletionInv ==
    /\ HandlersHold /\ MarksKept /\ RemovalSeen /\ DeletionOrdered /\ DeleterKnows
    /\ FinalizerHeld /\ NothingLeft

\* A later version of the object is not at an earlier stage, and still failed if the
\* earlier one had failed after its validation.
Late(c) == c.state = "Failed" /\ Rank(c) > 0
Follows(x, y) == Rank(x) <= Rank(y) /\ (Late(x) => Late(y) /\ x.stage = y.stage)
VersionsInOrder ==
    api.rv # 0 =>
        \A x \in Copies \cup {api, w}, y \in Copies \cup {api} :
            x.rv # 0 /\ x.rv <= y.rv => Follows(x, y)

\* The worker changes in memory the unset stage and the validation errors only.
SameVersion(x, y) ==
    /\ x.state = y.state /\ x.ann = y.ann /\ x.fin = y.fin /\ x.del = y.del
    /\ x.stage = y.stage \/ (x.stage = "Initial" /\ y.stage = "unset")
WorkerEqual == api.rv # 0 /\ w.rv = api.rv => SameVersion(w, api)

\* The store is as new as the worker's copy, except after annotateBackup.
Taken == w.rv # 0 /\ pc # "scheduled" => w.rv <= processed

\* A version from before the stages is let through only until the first stage is
\* written, and one from before the finalizer not even then.
StartPcs == {"finalizer", "initStatus", "validate", "supported"}
StartsEarly ==
    api.rv # 0 =>
        /\ \A c \in Copies : c.rv # 0 /\ c.rv >= processed /\ Rank(c) = 0 =>
              ~Late(api) /\ (c.fin \/ Rank(api) = 0)
        /\ pc \in StartPcs /\ w.rv # 0 => Rank(w) = 0 /\ ~Late(api)
        /\ pc = "finalizer" /\ ~w.fin => Rank(api) = 0
        /\ pc = "validated" /\ w.rv # 0 => Rank(w) <= 1 /\ ~Late(w)

\* Where the worker is tells the state of its copy.
StateAt(at, state) ==
    /\ at \in {"collect", "volumeGroup", "createVBC", "noVolume", "scheduled"} => state = "New"
    /\ at \in {"preReverse", "volReverse", "annFailHooks"} => state = "Failed"
    /\ at \in {"preProcessing", "preExec", "preFailed", "toVolumes", "postExec",
               "postFailed", "toResources", "resources", "resOK", "resFail", "finished"}
          => state # "Failed"
WorkerState ==
    /\ w.rv # 0 => StateAt(pc, w.state)
    /\ pc \in Locked /\ w.rv # 0 /\ api.rv # 0 => api.state \in {"New", "Failed"}

\* A backup fails in stage Volumes for a VBC that failed, and is not annotated as
\* completed.
VolumesFailed(c) == c.stage = "Volumes" /\ c.state = "Failed"
FailureHasCause ==
    /\ wanted = {} => LiveVBCs = {}
    /\ pc = "noVolume" => wanted = {}
    /\ rpc = "fail" \/ VolumesFailed(api) =>
          wanted # {} /\ (Gone(api) \/ \E v \in VBCs : vbc[v] = "Failed")
FailedNotCompleted ==
    /\ \A c \in Copies \cup {api} :
          VolumesFailed(c) /\ ~c.del => "volume-backup-completed" \notin c.ann
    /\ pc \in {"sync", "volumes"} /\ w.rv # 0 /\ VolumesFailed(w)
          => "volume-backup-completed" \notin w.ann
    /\ rpc = "fail" => isReconcileRequired(rc)
    /\ rpc = "annCompleted" /\ ~api.del => ~VolumesFailed(api)

OrderInv ==
    /\ VersionsInOrder /\ WorkerEqual /\ Taken /\ StartsEarly /\ WorkerState
    /\ FailureHasCause /\ FailedNotCompleted

\* While snapshots may be taken, for this version or another one the worker may be let
\* take, the applications are quiesced.
MayTakeSnapshots(c) == c.stage = "Volumes" /\ c.state = "New"
Quiesced ==
    /\ \A c \in Copies \cup {api} :
          ~Gone(c) /\ c.rv >= processed /\ MayTakeSnapshots(c) => Held(apps)
    /\ pc \in {"sync", "volumes", "collect", "volumeGroup", "createVBC"} /\ w.rv # 0
       /\ MayTakeSnapshots(w) => Held(apps)
    /\ pc = "toVolumes" /\ w.rv # 0 => Held(apps)

\* A version that says so has an archive, until it is deleted.
Archived(c) == c.stage = "Finished" \/ (c.stage = "Resources" /\ c.state = "Completed")
ArchiveKept ==
    ~Gone(api) =>
        /\ \A c \in Copies \cup {api, w} : Archived(c) => archive = "stored"
        /\ pc = "resOK" /\ w.rv # 0 => archive = "stored"
ArchiveGoes ==
    /\ api.stage = "Finished" => api.state # "Failed"
    /\ pc = "delFinalizer" /\ api.stage = "Finished" => archive # "stored"

PromiseInv == Quiesced /\ ArchiveKept /\ ArchiveGoes

\* A version of the object that says that some volume is saved, or has passed that point.
VolumesPassed(c) ==
    \/ c.stage \in {"PostHook", "Resources", "Finished"}
    \/ c.stage = "Volumes" /\ c.state = "Completed"
VolumesDone(c) == VolumesPassed(c) \/ "volume-backup-completed" \in c.ann

\* No version says so, and the reconciler does not find so, before it is true.
VolumesSaved ==
    ~Gone(api) =>
        /\ \A c \in Copies \cup {api, w} : VolumesDone(c) => SomeVolumeSaved
        /\ rpc = "annCompleted" => SomeVolumeSaved

=============================================================================
