------------------------ MODULE BackupController_proofs ------------------------
(***************************************************************************)
(* Proofs about BackupController, for every value of its constants:        *)
(* the types are right, the stage in the API server never goes back, and   *)
(* the post hooks released the applications before the resources are       *)
(* backed up.                                                              *)
(***************************************************************************)
EXTENDS BackupController, TLAPS

-----------------------------------------------------------------------------
(* Objects and stages *)

\* The empty object is a Backup.
LEMMA NoBackupType ==
    /\ NoBackup \in Backup /\ NoBackup.rv = 0
    /\ NoBackup.stage = "unset" /\ NoBackup.state = "unset" /\ NoBackup.ann = {}
BY DEF NoBackup, Backup, Stages, States

\* The order of the stages
LEMMA OrdinalValues ==
    /\ toOrdinal("unset") = -1
    /\ toOrdinal("Initial") = 0
    /\ toOrdinal("PreHook") = 1
    /\ toOrdinal("Volumes") = 2
    /\ toOrdinal("PostHook") = 3
    /\ toOrdinal("Resources") = 4
    /\ toOrdinal("Finished") = 5
BY DEF toOrdinal

\* The order of the stages, for the stage of an object
LEMMA OrdinalOf ==
    ASSUME NEW s
    PROVE  /\ s = "unset" => toOrdinal(s) = -1
           /\ s = "Initial" => toOrdinal(s) = 0
           /\ s = "PreHook" => toOrdinal(s) = 1
           /\ s = "Volumes" => toOrdinal(s) = 2
           /\ s = "PostHook" => toOrdinal(s) = 3
           /\ s = "Resources" => toOrdinal(s) = 4
           /\ s = "Finished" => toOrdinal(s) = 5
BY OrdinalValues, Zenon

\* toOrdinal is an integer between -1 and 5.
LEMMA OrdinalType == ASSUME NEW s \in Stages PROVE toOrdinal(s) \in -1..5
<1>1. toOrdinal(s) \in {-1, 0, 1, 2, 3, 4, 5}
  BY OrdinalValues, Zenon DEF Stages
<1> QED BY <1>1

\* The clone updateBackupStatus prepares is a Backup at the same revision whose
\* stage is not lower.
LEMMA UpdatedType ==
    ASSUME NEW b \in Backup, NEW stage \in Stages, NEW state \in States
    PROVE  /\ Updated(b, stage, state) \in Backup
           /\ Updated(b, stage, state).rv = b.rv
           /\ Updated(b, stage, state).stage
                = IF toOrdinal(b.stage) < toOrdinal(stage) THEN stage ELSE b.stage
           /\ toOrdinal(Updated(b, stage, state).stage) >= toOrdinal(b.stage)
<1> DEFINE s == IF toOrdinal(b.stage) < toOrdinal(stage) THEN stage ELSE b.stage
           t == IF state # "unset" THEN state ELSE b.state
<1>0. b.stage \in Stages /\ b.state \in States /\ b.rv \in Nat
  BY DEF Backup
<1>1. toOrdinal(stage) \in Int /\ toOrdinal(b.stage) \in Int
  BY OrdinalType, <1>0
<1>2. s \in Stages /\ t \in States BY <1>0
<1>3. toOrdinal(s) >= toOrdinal(b.stage) BY <1>1
<1>4. Updated(b, stage, state) = [b EXCEPT !.stage = s, !.state = t]
  BY DEF Updated
<1> HIDE DEF s, t
<1>5. /\ Updated(b, stage, state) \in Backup
      /\ Updated(b, stage, state).rv = b.rv
      /\ Updated(b, stage, state).stage = s
  BY <1>2, <1>4 DEF Backup
<1> QED
  BY <1>3, <1>5 DEF s

\* A status write stores a Backup with the stage of the object written.
LEMMA StatusOfType ==
    ASSUME api \in Backup, NEW b \in Backup
    PROVE  StatusOf(b) \in Backup /\ StatusOf(b).stage = b.stage
BY DEF StatusOf, Backup

\* The next revision of an object is an object with the same stage.
LEMMA NextRevision ==
    ASSUME NEW b \in Backup
    PROVE  /\ [b EXCEPT !.rv = b.rv + 1] \in Backup
           /\ [b EXCEPT !.rv = b.rv + 1].rv = b.rv + 1
           /\ [b EXCEPT !.rv = b.rv + 1].stage = b.stage
<1>1. b.rv + 1 \in Nat BY DEF Backup
<1> QED BY <1>1 DEF Backup

\* What a write leaves in the server: the old object, or a new revision of it of
\* which the informer will hear.
Stored ==
    \/ api' = api /\ watch' = watch
    \/ api'.rv = api.rv + 1 /\ watch' = Append(watch, api')

\* A commit stores the object at the same or at the next revision and tells the
\* informer of nothing else.
LEMMA CommitStores ==
    ASSUME api \in Backup, watch \in Seq(Backup), NEW b \in Backup, Commit(b)
    PROVE  /\ api' \in Backup /\ watch' \in Seq(Backup)
           /\ api'.stage = b.stage
           /\ Stored
<1> USE DEF Stored
<1> DEFINE new == [b EXCEPT !.rv = api.rv + 1]
<1>1. CASE [b EXCEPT !.rv = api.rv] = api
  BY <1>1 DEF Commit, Backup, apiVars
<1>2. CASE [b EXCEPT !.rv = api.rv] # api
  <2>1. new \in Backup /\ new.stage = b.stage /\ new.rv = api.rv + 1
    BY DEF Backup
  <2>2. api' = new /\ watch' = Append(watch, new)
    BY <1>2 DEF Commit
  <2> QED BY <2>1, <2>2
<1> QED BY <1>1, <1>2

-----------------------------------------------------------------------------
(* Types *)

\* The removal of the object keeps the types of the API server.
LEMMA RemoveType ==
    ASSUME TypeOK, Remove
    PROVE  api' \in Backup /\ watch' \in Seq(Backup)
<1>1. NoBackup \in Backup /\ watch \in Seq(Backup) BY NoBackupType DEF TypeOK
<1>2. Append(watch, NoBackup) \in Seq(Backup) BY <1>1
<1> QED BY <1>1, <1>2, Zenon DEF Remove

\* The values a returning handler leaves behind
LEMMA ReturnValues ==
    "idle" \in Pcs /\ NoBackup \in Backup /\ 0 \in 0..MaxRetry /\ 0 \in 0..MaxFaults
<1>1. "idle" \in Pcs BY DEF Pcs
<1>2. 0 \in 0..MaxRetry /\ 0 \in 0..MaxFaults BY BackupAssumption
<1> QED BY <1>1, <1>2, NoBackupType

\* A handler that returns keeps the types of the worker and the queue.
LEMMA ReturnType ==
    ASSUME TypeOK, Return
    PROVE  pc' \in Pcs /\ w' \in Backup /\ queued' \in BOOLEAN /\ requeues' \in 0..MaxRetry
BY ReturnValues, Zenon DEF TypeOK, Return

\* Leaving a call for the next one keeps the types of the worker and the queue.
LEMMA ContinueType ==
    ASSUME TypeOK, NEW next \in Pcs \cup {"return"}, NEW b \in Backup, Continue(next, b)
    PROVE  pc' \in Pcs /\ w' \in Backup /\ queued' \in BOOLEAN /\ requeues' \in 0..MaxRetry
<1>1. CASE next = "return"
  BY <1>1, ReturnType DEF Continue
<1>2. CASE next # "return"
  BY <1>2 DEF TypeOK, Continue, Goto, queueVars
<1> QED BY <1>1, <1>2

\* So does one that returns an error: the key is retried at most MaxRetry times.
LEMMA ReturnErrType ==
    ASSUME TypeOK, ReturnErr
    PROVE  pc' \in Pcs /\ w' \in Backup /\ queued' \in BOOLEAN /\ requeues' \in 0..MaxRetry
<1>1. pc' \in Pcs /\ w' \in Backup BY ReturnValues, Zenon DEF ReturnErr
<1>2. CASE requeues < MaxRetry
  <2>1. queued' = TRUE /\ requeues' = requeues + 1 BY <1>2 DEF ReturnErr
  <2>2. requeues' \in 0..MaxRetry BY <1>2, <2>1, BackupAssumption DEF TypeOK
  <2> QED BY <1>1, <2>1, <2>2, Zenon
<1>3. CASE ~(requeues < MaxRetry)
  BY <1>1, <1>3, ReturnValues, Zenon DEF ReturnErr, TypeOK
<1> QED BY <1>2, <1>3

\* The number of faults stays within its bound.
LEMMA FaultType ==
    ASSUME TypeOK, Fault
    PROVE  faults' \in 0..MaxFaults
BY BackupAssumption DEF TypeOK, Fault

\* A status write keeps the types.
LEMMA WriteStatusType ==
    ASSUME TypeOK, NEW b \in Backup, NEW next \in Pcs \cup {"return"}, NEW err,
           WriteStatus(b, next, err),
           UNCHANGED <<cache, rcVars, volVars, envVars, crashes>>
    PROVE  TypeOK'
<1>1. api \in Backup /\ watch \in Seq(Backup) BY DEF TypeOK
<1>2. StatusOf(b) \in Backup BY <1>1, StatusOfType
<1>3. api' \in Backup /\ watch' \in Seq(Backup)
  BY <1>1, <1>2, CommitStores DEF WriteStatus, apiVars
<1>4. processed' \in Nat /\ emptyKey' \in BOOLEAN
  BY <1>3 DEF WriteStatus, StoreRevisionUpdate, TypeOK, Backup
<1>5. pc' \in Pcs /\ w' \in Backup /\ queued' \in BOOLEAN /\ requeues' \in 0..MaxRetry
  <2>1. CASE Continue(next, api')
    BY <2>1, <1>3, ContinueType
  <2>2. CASE Continue(next, NoBackup) \/ ReturnErr \/ Return
    BY <2>2, ContinueType, ReturnErrType, ReturnType, NoBackupType
  <2> QED BY <2>1, <2>2 DEF WriteStatus
<1>6. faults' \in 0..MaxFaults
  BY FaultType DEF WriteStatus, TypeOK
<1> QED
  BY <1>3, <1>4, <1>5, <1>6 DEF TypeOK, rcVars, volVars, envVars

\* updateBackupStatus keeps the types.
LEMMA UpdateStatusType ==
    ASSUME TypeOK, NEW stage \in Stages, NEW state \in States,
           NEW next \in Pcs \cup {"return"}, UpdateStatus(stage, state, next)
    PROVE  TypeOK'
<1> DEFINE b == Updated(w, stage, state)
<1>1. w \in Backup /\ b \in Backup BY UpdatedType DEF TypeOK
<1>2. CASE b # w
  BY <1>1, <1>2, WriteStatusType DEF UpdateStatus
<1>3. CASE b = w
  <2>1. Continue(next, w) /\ UNCHANGED <<apiVars, storeVars, faults>>
    BY <1>3 DEF UpdateStatus
  <2> QED
    BY <1>1, <2>1, ContinueType
       DEF UpdateStatus, TypeOK, apiVars, storeVars, rcVars, volVars, envVars
<1> QED BY <1>2, <1>3

\* patchBackup keeps the types.
LEMMA PatchBackupType ==
    ASSUME TypeOK, NEW b \in Backup, NEW next \in Pcs, PatchBackup(b, next)
    PROVE  TypeOK'
<1>1. api' \in Backup /\ watch' \in Seq(Backup)
  BY CommitStores DEF PatchBackup, TypeOK, apiVars
<1>2. processed' \in Nat /\ emptyKey' \in BOOLEAN
  BY <1>1 DEF PatchBackup, StoreRevisionUpdate, TypeOK, Backup, storeVars
<1>3. pc' \in Pcs /\ w' \in Backup /\ queued' \in BOOLEAN /\ requeues' \in 0..MaxRetry
  BY <1>1, ReturnErrType DEF PatchBackup, Goto, TypeOK, queueVars
<1>4. faults' \in 0..MaxFaults
  BY FaultType DEF PatchBackup, TypeOK
<1> QED
  BY <1>1, <1>2, <1>3, <1>4 DEF PatchBackup, TypeOK, rcVars, volVars, envVars

\* annotateBackup of the worker keeps the types.
LEMMA AnnotateBackupType ==
    ASSUME TypeOK, NEW a \in Annotations, NEW next \in Pcs \cup {"return"},
           AnnotateBackup(a, next)
    PROVE  TypeOK'
<1> DEFINE upd == [api EXCEPT !.ann = @ \cup {a}]
<1>1. upd \in Backup BY DEF TypeOK, Backup
<1> HIDE DEF upd
<1>2. api' \in Backup /\ watch' \in Seq(Backup)
  BY <1>1, CommitStores DEF AnnotateBackup, TypeOK, apiVars, upd
<1>3. pc' \in Pcs /\ w' \in Backup /\ queued' \in BOOLEAN /\ requeues' \in 0..MaxRetry
  <2>1. w \in Backup BY DEF TypeOK
  <2>2. Continue(next, w) \/ Continue(next, api') \/ Continue(next, NoBackup)
    BY DEF AnnotateBackup
  <2> QED BY <1>2, <2>1, <2>2, ContinueType, NoBackupType
<1>4. faults' \in 0..MaxFaults
  BY FaultType DEF AnnotateBackup, TypeOK
<1> QED
  BY <1>2, <1>3, <1>4
     DEF AnnotateBackup, TypeOK, storeVars, rcVars, volVars, envVars

\* A step that touches no API object keeps the types.
LEMMA LocalType ==
    ASSUME TypeOK, NEW b \in Backup, NEW next \in Pcs \cup {"return"}, Local(next, b),
           apps' \in Apps, archive' \in Archives, UNCHANGED faults
    PROVE  TypeOK'
<1>1. pc' \in Pcs /\ w' \in Backup /\ queued' \in BOOLEAN /\ requeues' \in 0..MaxRetry
  BY ContinueType DEF Local
<1> QED
  BY <1>1 DEF Local, TypeOK, apiVars, storeVars, rcVars, volVars

\* A failed call keeps the types.
LEMMA CallFailsType ==
    ASSUME TypeOK, CallFails
    PROVE  TypeOK'
<1>1. pc' \in Pcs /\ w' \in Backup /\ queued' \in BOOLEAN /\ requeues' \in 0..MaxRetry
  BY ReturnErrType DEF CallFails
<1>2. faults' \in 0..MaxFaults BY FaultType DEF CallFails
<1> QED
  BY <1>1, <1>2 DEF CallFails, TypeOK, apiVars, storeVars, rcVars, volVars, envVars

\* A restart of the process keeps the types.
LEMMA RestartType ==
    ASSUME TypeOK, NEW b \in {api, NoBackup}, Restart(b), UNCHANGED <<volVars, envVars>>,
           faults' \in 0..MaxFaults, crashes' \in 0..MaxCrashes
    PROVE  TypeOK'
<1>1. /\ pc' \in Pcs /\ w' \in Backup /\ rpc' \in RPcs /\ rc' \in Backup
      /\ requeues' \in 0..MaxRetry
  BY ReturnValues, Zenon DEF Restart, RPcs
<1>2. api' \in Backup /\ cache' \in Backup /\ watch' \in Seq(Backup)
  BY NoBackupType DEF Restart, TypeOK
<1>3. queued' \in BOOLEAN /\ emptyKey' \in BOOLEAN BY Zenon DEF Restart
<1>4. processed' \in Nat BY DEF Restart
<1> QED BY <1>1, <1>2, <1>3, <1>4 DEF TypeOK, volVars, envVars

\* A hook run that reports success holds, or releases, all it has not passed over; one that
\* ends with an error takes back nothing that an earlier run in the same direction did.
LEMMA HookOutcomes ==
    ASSUME NEW a \in Apps
    PROVE  /\ \A q \in Outcomes("quiesced", "prePassed") : q \in Apps /\ Held(q)
           /\ \A q \in Outcomes("running", "postPassed") : q \in Apps /\ Released(q)
           /\ \A q \in Rising(a) : q \in Apps /\ (Held(a) => Held(q))
           /\ \A q \in Falling(a) : q \in Apps /\ (Released(a) => Released(q))
BY DEF Outcomes, Rising, Falling, Apps, Held, Released

\* A run of the post hooks is a local step; a successful one releases the applications,
\* and none takes a release back.
LEMMA PostHooksRun ==
    ASSUME apps \in Apps, NEW ok, NEW failed, RunPostHooks(ok, failed)
    PROVE  /\ apps' \in Apps /\ UNCHANGED <<archive, faults>>
           /\ Released(apps) => Released(apps')
           /\ \/ Local(ok, w) /\ (w.rv # 0 => Released(apps'))
              \/ Local(failed, w)
<1>1. CASE w.rv = 0 /\ Local(ok, w) /\ UNCHANGED apps
  BY <1>1, Zenon DEF RunPostHooks
<1>2. CASE w.rv # 0 /\ Local(ok, w) /\ apps' \in Outcomes("running", "postPassed")
  BY <1>2, HookOutcomes, Zenon DEF RunPostHooks
<1>3. CASE Local(failed, w) /\ apps' \in Falling(apps)
  BY <1>3, HookOutcomes, Zenon DEF RunPostHooks
<1> QED BY <1>1, <1>2, <1>3, Zenon DEF RunPostHooks

\* A run of the pre hooks is a local step too; a successful one holds the applications,
\* and none lets a held one go.
LEMMA PreHooksRun ==
    ASSUME apps \in Apps, ExecutePreHooks
    PROVE  /\ apps' \in Apps /\ UNCHANGED <<archive, faults>>
           /\ Held(apps) => Held(apps')
           /\ w.rv = 0 => apps' = apps
           /\ \/ Local("toVolumes", w) /\ (w.rv # 0 => Held(apps'))
              \/ Local("preFailed", w)
<1>1. CASE w.rv = 0 /\ Local("toVolumes", w) /\ UNCHANGED apps
  BY <1>1, Zenon DEF ExecutePreHooks
<1>2. CASE w.rv # 0 /\ Local("toVolumes", w) /\ apps' \in Outcomes("quiesced", "prePassed")
  BY <1>2, HookOutcomes, Zenon DEF ExecutePreHooks
<1>3. CASE w.rv # 0 /\ Local("preFailed", w) /\ apps' \in Rising(apps)
  BY <1>3, HookOutcomes, Zenon DEF ExecutePreHooks
<1> QED BY <1>1, <1>2, <1>3, Zenon DEF ExecutePreHooks

\* Every step of the worker keeps the types.
LEMMA WorkerType ==
    ASSUME TypeOK, Worker
    PROVE  TypeOK'
<1>t. w \in Backup /\ api \in Backup /\ apps \in Apps /\ archive \in Archives
  BY DEF TypeOK
<1>1. CASE ProcessQueue
  <2>1. pc' \in Pcs /\ w' \in Backup /\ requeues' \in 0..MaxRetry /\ processed' \in Nat
    BY <1>1, ReturnValues DEF ProcessQueue, TypeOK, workerVars, Pcs, Backup
  <2> QED
    BY <1>1, <2>1 DEF ProcessQueue, TypeOK, apiVars, rcVars, volVars, envVars
<1>2. CASE InitFinalizer
  <2>1. [api EXCEPT !.fin = TRUE] \in Backup BY <1>t DEF Backup
  <2>2. "initStatus" \in Pcs BY DEF Pcs
  <2> QED
    BY <1>2, <1>t, <2>1, <2>2, LocalType, PatchBackupType DEF InitFinalizer, envVars
<1>3. CASE InitStatus
  <2> DEFINE b == [w EXCEPT !.stage = IF @ = "unset" THEN "Initial" ELSE @]
  <2>1. b \in Backup BY <1>t DEF Backup, Stages
  <2>2. "validate" \in Pcs BY DEF Pcs
  <2> HIDE DEF b
  <2> QED
    BY <1>3, <1>t, <2>1, <2>2, LocalType, WriteStatusType DEF InitStatus, envVars, b
<1>4. CASE ValidateBackup
  <2> DEFINE b == [Updated(w, "unset", "Failed") EXCEPT !.verr = TRUE]
  <2>1. Updated(w, "unset", "Failed") \in Backup BY <1>t, UpdatedType DEF Stages, States
  <2>2. b \in Backup BY <2>1 DEF Backup
  <2>3. "supported" \in Pcs BY DEF Pcs
  <2> HIDE DEF b
  <2> QED
    BY <1>4, <1>t, <2>2, <2>3, LocalType, WriteStatusType DEF ValidateBackup, envVars, b
<1>5. CASE EnsureSupportedResourceList
  <2>1. [api EXCEPT !.ann = @ \cup {"backup-resources"}] \in Backup
    BY <1>t DEF Backup, Annotations
  <2>2. "validated" \in Pcs BY DEF Pcs
  <2> QED
    BY <1>5, <1>t, <2>1, <2>2, LocalType, PatchBackupType
       DEF EnsureSupportedResourceList, envVars
<1>6. CASE SyncBackup
  <2>1. SyncEntry(w) \in Pcs \cup {"return"} BY DEF SyncEntry, Pcs
  <2> QED BY <1>6, <1>t, <2>1, LocalType DEF SyncBackup, envVars
<1>7. CASE \/ Validated \/ SyncInitial \/ PreHookProcessing \/ PreHookFailed \/ ToVolumes
  BY <1>7, UpdateStatusType
     DEF Validated, SyncInitial, PreHookProcessing, PreHookFailed, ToVolumes,
         Pcs, Stages, States
<1>8. CASE \/ Scheduled \/ PostHookFailed \/ ToResources \/ BackupMetadataDone
           \/ BackupMetadataFailed \/ Finish
  BY <1>8, UpdateStatusType
     DEF Scheduled, PostHookFailed, ToResources, BackupMetadataDone,
         BackupMetadataFailed, Finish, Pcs, Stages, States
<1>9. CASE ExecutePreHooks
  <2>1. "toVolumes" \in Pcs /\ "preFailed" \in Pcs BY DEF Pcs
  <2> QED BY <1>9, <1>t, <2>1, PreHooksRun, LocalType
<1>10. CASE ReversePreHooks \/ ReverseVolumeHooks \/ ExecutePostHooks
  <2>1. ASSUME NEW ok \in Pcs \cup {"return"}, NEW failed \in Pcs \cup {"return"},
               RunPostHooks(ok, failed)
        PROVE  TypeOK'
    BY <2>1, <1>t, PostHooksRun, LocalType
  <2> QED
    BY <1>10, <2>1 DEF ReversePreHooks, ReverseVolumeHooks, ExecutePostHooks, Pcs
<1>11. CASE SyncVolumeBackup
  <2>1. {"volSynced", "collect"} \subseteq Pcs /\ "unset" \in Stages /\ "Completed" \in States
    BY DEF Pcs, Stages, States
  <2> QED
    BY <1>11, <1>t, <2>1, LocalType, UpdateStatusType DEF SyncVolumeBackup, envVars
<1>12. CASE CollectResources
  <2> DEFINE b == [w EXCEPT !.res = TRUE]
  <2>1. b \in Backup BY <1>t DEF Backup
  <2>2. "volumeGroup" \in Pcs BY DEF Pcs
  <2> HIDE DEF b
  <2> QED
    BY <1>12, <2>1, <2>2, CallFailsType, WriteStatusType DEF CollectResources, b
<1>13. CASE TakeSnapshots
  <2>1. {"noVolume", "createVBC"} \subseteq Pcs BY DEF Pcs
  <2>2. CASE Local("noVolume", w) /\ UNCHANGED <<envVars, faults>>
    BY <2>1, <2>2, <1>t, LocalType DEF envVars
  <2>3. CASE /\ attempt < MaxAttempts /\ attempt' = attempt + 1 /\ Goto("createVBC", w)
             /\ UNCHANGED <<apiVars, cache, storeVars, rcVars, wanted, vbc, vdel, envVars,
                            faults, crashes>>
    <3>1. attempt' \in 0..MaxAttempts BY <2>3, BackupAssumption DEF TypeOK
    <3> QED
      BY <2>1, <2>3, <3>1
         DEF Goto, TypeOK, apiVars, storeVars, rcVars, envVars, queueVars
  <2>4. CASE /\ ReturnErr
             /\ UNCHANGED <<apiVars, cache, storeVars, rcVars, volVars, envVars,
                            faults, crashes>>
    <3>1. /\ pc' \in Pcs /\ w' \in Backup /\ queued' \in BOOLEAN
          /\ requeues' \in 0..MaxRetry
      BY <2>4, ReturnErrType
    <3> QED
      BY <2>4, <3>1 DEF TypeOK, apiVars, storeVars, rcVars, volVars, envVars
  <2> QED BY <1>13, <2>2, <2>3, <2>4, CallFailsType DEF TakeSnapshots
<1>14. CASE AnnotateNoVolume
  BY <1>14, AnnotateBackupType DEF AnnotateNoVolume, Annotations, Pcs
<1>15. CASE CreateVBC
  <2>1. vbc' \in [VBCs -> VBCPhases]
    BY <1>15 DEF CreateVBC, TypeOK, VBCPhases
  <2>2. faults' \in 0..MaxFaults BY <1>15, FaultType DEF CreateVBC, TypeOK
  <2>3. /\ pc' \in Pcs /\ w' \in Backup /\ queued' \in BOOLEAN
        /\ requeues' \in 0..MaxRetry
    <3>1. CASE ReturnErr BY <3>1, ReturnErrType
    <3>2. CASE Goto("scheduled", w) \/ Goto("createVBC", w)
      BY <3>2 DEF Goto, TypeOK, queueVars, Pcs
    <3> QED BY <1>15, <3>1, <3>2 DEF CreateVBC
  <2> QED
    BY <1>15, <2>1, <2>2, <2>3 DEF CreateVBC, TypeOK, apiVars, storeVars, rcVars, envVars
<1>16. CASE CreateVBCFails BY <1>16, CallFailsType DEF CreateVBCFails
<1>17. CASE VolumesSynced
  <2>1. "postExec" \in Pcs /\ "volReverse" \in Pcs BY DEF Pcs
  <2>2. "PostHook" \in Stages /\ "Processing" \in States BY DEF Stages, States
  <2> QED
    BY <1>17, <1>t, <2>1, <2>2, LocalType, UpdateStatusType DEF VolumesSynced, envVars
<1>18. CASE AnnotateFailHooks
  BY <1>18, AnnotateBackupType DEF AnnotateFailHooks, Annotations
<1>19. CASE BackupMetadata
  <2> DEFINE b == [w EXCEPT !.verr = FALSE]
  <2>1. b \in Backup BY <1>t DEF Backup
  <2>2. "resSynced" \in Pcs /\ "resOK" \in Pcs /\ "resFail" \in Pcs BY DEF Pcs
  <2> HIDE DEF b
  <2>3. archive' \in Archives BY <1>19, <1>t, Zenon DEF BackupMetadata, Archives
  <2> QED
    BY <1>19, <1>t, <2>1, <2>2, <2>3, LocalType DEF BackupMetadata, b
<1>20. CASE ResourcesSynced
  <2>1. "finished" \in Pcs /\ "Finished" \in Stages /\ "New" \in States
    BY DEF Pcs, Stages, States
  <2> QED
    BY <1>20, <1>t, <2>1, LocalType, UpdateStatusType DEF ResourcesSynced, envVars
<1>21. CASE RemoveVolumeBackup
  <2>1. vdel' \in SUBSET VBCs BY <1>21 DEF RemoveVolumeBackup, LiveVBCs, TypeOK
  <2>2. /\ pc' \in Pcs /\ w' \in Backup /\ queued' \in BOOLEAN
        /\ requeues' \in 0..MaxRetry
    <3>1. "delList" \in Pcs BY DEF Pcs
    <3> QED
      BY <1>21, <3>1, ReturnErrType DEF RemoveVolumeBackup, Goto, TypeOK, queueVars
  <2>3. faults' \in 0..MaxFaults BY <1>21, FaultType DEF RemoveVolumeBackup, TypeOK
  <2> QED
    BY <1>21, <2>1, <2>2, <2>3
       DEF RemoveVolumeBackup, TypeOK, apiVars, storeVars, rcVars, envVars
<1>22. CASE ListVolumeBackup
  <2>1. "delMeta" \in Pcs BY DEF Pcs
  <2> QED BY <1>22, <1>t, <2>1, LocalType, CallFailsType DEF ListVolumeBackup, envVars
<1>23. CASE DeleteMetadataBackup
  <2>1. CASE CallFails BY <2>1, CallFailsType
  <2>2. CASE ~CallFails
    <3>1. archive' \in Archives
      BY <1>23, <1>t, <2>2, Zenon DEF DeleteMetadataBackup, Archives, envVars
    <3>2. "delFinalizer" \in Pcs BY DEF Pcs
    <3>3. Local("delFinalizer", w) /\ apps' = apps
      BY <1>23, <2>2, Zenon DEF DeleteMetadataBackup, envVars
    <3>4. faults' \in 0..MaxFaults
      BY <1>23, <2>2, FaultType DEF DeleteMetadataBackup, TypeOK
    <3>5. /\ pc' \in Pcs /\ w' \in Backup /\ queued' \in BOOLEAN
          /\ requeues' \in 0..MaxRetry
      BY <1>t, <3>2, <3>3, ContinueType DEF Local
    <3> QED
      BY <3>1, <3>3, <3>4, <3>5 DEF Local, TypeOK, apiVars, storeVars, rcVars, volVars
  <2> QED BY <2>1, <2>2
<1>24. CASE RemoveFinalizer
  <2>1. /\ pc' \in Pcs /\ w' \in Backup /\ queued' \in BOOLEAN
        /\ requeues' \in 0..MaxRetry
    BY <1>24, ReturnType DEF RemoveFinalizer
  <2>2. api' \in Backup /\ watch' \in Seq(Backup)
    BY <1>24, RemoveType DEF RemoveFinalizer
  <2> QED
    BY <1>24, <2>1, <2>2 DEF RemoveFinalizer, TypeOK, rcVars, volVars, envVars
<1>25. CASE RemoveFinalizerPanics
  <2>1. faults' \in 0..MaxFaults BY <1>25, FaultType DEF RemoveFinalizerPanics, TypeOK
  <2> QED BY <1>25, <2>1, RestartType DEF RemoveFinalizerPanics, TypeOK
<1> QED
  BY <1>1, <1>2, <1>3, <1>4, <1>5, <1>6, <1>7, <1>8, <1>9, <1>10, <1>11, <1>12, <1>13,
     <1>14, <1>15, <1>16, <1>17, <1>18, <1>19, <1>20, <1>21, <1>22, <1>23, <1>24, <1>25
     DEF Worker

\* Every step of the reconciler keeps the types.
LEMMA ReconcilerType ==
    ASSUME TypeOK, Reconciler
    PROVE  TypeOK'
<1> USE DEF TypeOK, RcGoto, queueVars, storeVars, workerVars, volVars, envVars
<1>1. CASE RcStart \/ RcCheckDeleted
  <2>1. faults' \in 0..MaxFaults BY <1>1, FaultType DEF RcStart, RcCheckDeleted
  <2> QED
    BY <1>1, <2>1, NoBackupType DEF RcStart, RcCheckDeleted, RPcs, apiVars
<1>2. CASE RcList
  <2>1. faults' \in 0..MaxFaults BY <1>2, FaultType DEF RcList
  <2>2. rpc' \in RPcs BY <1>2 DEF RcList, RPcs, RcVerdicts
  <2>3. rc' \in Backup BY <1>2, NoBackupType DEF RcList
  <2> QED BY <1>2, <2>1, <2>2, <2>3 DEF RcList, apiVars
<1>3. CASE RcUpdateFailure
  <2> DEFINE b == [StatusOf(rc) EXCEPT !.state = "Failed"]
  <2>1. StatusOf(rc) \in Backup BY StatusOfType
  <2>2. b \in Backup BY <2>1 DEF Backup, States
  <2> HIDE DEF b
  <2>3. api' \in Backup /\ watch' \in Seq(Backup)
    BY <1>3, <2>2, CommitStores DEF RcUpdateFailure, apiVars, b
  <2>4. faults' \in 0..MaxFaults BY <1>3, FaultType DEF RcUpdateFailure
  <2> QED BY <1>3, <2>3, <2>4, NoBackupType DEF RcUpdateFailure, RPcs
<1>4. ASSUME NEW at \in RPcs, NEW a \in Annotations, RcAnnotate(at, a)
      PROVE  TypeOK'
  <2> DEFINE b == [api EXCEPT !.ann = @ \cup {a}]
  <2>1. b \in Backup BY DEF Backup
  <2> HIDE DEF b
  <2>2. api' \in Backup /\ watch' \in Seq(Backup)
    BY <1>4, <2>1, CommitStores DEF RcAnnotate, apiVars, b
  <2>3. faults' \in 0..MaxFaults BY <1>4, FaultType DEF RcAnnotate
  <2> QED BY <1>4, <2>2, <2>3, NoBackupType DEF RcAnnotate, RPcs
<1> QED
  BY <1>1, <1>2, <1>3, <1>4 DEF Reconciler, RPcs, Annotations

\* A step of the informer keeps the types.
LEMMA InformerType ==
    ASSUME TypeOK, Informer
    PROVE  TypeOK'
<1>1. Head(watch) \in Backup /\ Tail(watch) \in Seq(Backup) BY DEF Informer, TypeOK
<1>2. queued' \in BOOLEAN BY Zenon DEF Informer
<1> QED
  BY <1>1, <1>2 DEF Informer, TypeOK, storeVars, workerVars, rcVars, volVars, envVars

\* A step of a user keeps the types.
LEMMA UserType ==
    ASSUME TypeOK, UserDelete \/ UserTouch
    PROVE  TypeOK'
<1> USE DEF TypeOK, queueVars, storeVars, workerVars, rcVars, volVars, envVars
<1>1. CASE UserDelete
  <2> DEFINE b == [api EXCEPT !.del = TRUE]
  <2>1. b \in Backup BY DEF Backup
  <2> HIDE DEF b
  <2>2. api' \in Backup /\ watch' \in Seq(Backup)
    BY <1>1, <2>1, CommitStores, RemoveType DEF UserDelete, b
  <2> QED BY <1>1, <2>2 DEF UserDelete
<1>2. CASE UserTouch
  <2>0. [api EXCEPT !.rv = @ + 1] \in Backup BY NextRevision
  <2>1. api' \in Backup BY <1>2, <2>0 DEF UserTouch
  <2>2. watch' \in Seq(Backup) BY <1>2, <2>1 DEF UserTouch
  <2>3. faults' \in 0..MaxFaults BY <1>2, FaultType DEF UserTouch
  <2> QED BY <1>2, <2>1, <2>2, <2>3 DEF UserTouch
<1> QED BY <1>1, <1>2

\* A step of a volume provider keeps the types.
LEMMA ProviderType ==
    ASSUME TypeOK, ProviderFinishes \/ ProviderDeletes \/ ProviderRemoves
    PROVE  TypeOK'
<1> USE DEF TypeOK, apiVars, queueVars, storeVars, workerVars, rcVars, envVars
<1>1. CASE ProviderFinishes
  <2>1. vbc' \in [VBCs -> VBCPhases] BY <1>1 DEF ProviderFinishes, VBCPhases
  <2> QED BY <1>1, <2>1 DEF ProviderFinishes
<1>2. CASE ProviderDeletes
  <2>1. vbc' \in [VBCs -> VBCPhases] BY <1>2 DEF ProviderDeletes, VBCPhases
  <2> QED BY <1>2, <2>1 DEF ProviderDeletes
<1>3. CASE ProviderRemoves
  <2>1. vbc' \in [VBCs -> VBCPhases] /\ vdel' \in SUBSET VBCs
    BY <1>3 DEF ProviderRemoves, VBCPhases
  <2> QED BY <1>3, <2>1 DEF ProviderRemoves
<1> QED BY <1>1, <1>2, <1>3

\* Every step keeps the types.
LEMMA NextType ==
    ASSUME TypeOK, [Next]_vars
    PROVE  TypeOK'
<1>1. CASE ReSync
  BY <1>1 DEF ReSync, TypeOK, apiVars, storeVars, workerVars, rcVars, volVars, envVars
<1>2. CASE Crash
  <2>1. crashes' \in 0..MaxCrashes /\ faults' \in 0..MaxFaults
    BY <1>2, BackupAssumption DEF Crash, TypeOK
  <2> QED BY <1>2, <2>1, RestartType DEF Crash
<1>3. CASE UNCHANGED vars
  BY <1>3 DEF vars, TypeOK
<1> QED
  BY <1>1, <1>2, <1>3, WorkerType, ReconcilerType, InformerType, UserType, ProviderType
     DEF Next

\* The initial states have the right types.
LEMMA InitType ==
    ASSUME Init
    PROVE  TypeOK
<1>1. api \in Backup BY NoBackupType DEF Init, Backup
<1>2. watch \in Seq(Backup) BY <1>1 DEF Init
<1>3. vbc \in [VBCs -> VBCPhases] /\ vdel \in SUBSET VBCs BY DEF Init, VBCPhases
<1>4. pc \in Pcs /\ rpc \in RPcs /\ cache \in Backup /\ w \in Backup /\ rc \in Backup
  BY ReturnValues, Zenon DEF Init, RPcs
<1>5. /\ queued \in BOOLEAN /\ emptyKey \in BOOLEAN /\ apps \in Apps
      /\ archive \in Archives
  BY Zenon DEF Init, Apps, Archives
<1>6. /\ requeues \in 0..MaxRetry /\ processed \in Nat /\ attempt \in 0..MaxAttempts
      /\ faults \in 0..MaxFaults /\ crashes \in 0..MaxCrashes
  BY BackupAssumption DEF Init
<1>7. wanted \in SUBSET Provisioners BY Zenon DEF Init
<1> QED BY <1>1, <1>2, <1>3, <1>4, <1>5, <1>6, <1>7 DEF TypeOK

\* Type correctness: in every reachable state the object, its copies and the
\* bookkeeping of the controller have the values the code gives them.
THEOREM TypeCorrect == Spec => []TypeOK
<1>1. Init => TypeOK BY InitType
<1>2. TypeOK /\ [Next]_vars => TypeOK' BY NextType
<1> QED BY <1>1, <1>2, PTL DEF Spec

-----------------------------------------------------------------------------
(* The inductive invariant *)

\* Rank is a natural number that only depends on the stage.
LEMMA RankType ==
    ASSUME NEW b \in Backup
    PROVE  /\ Rank(b) \in Nat /\ toOrdinal(b.stage) \in -1..5
           /\ toOrdinal(b.stage) >= 0 => Rank(b) = toOrdinal(b.stage)
           /\ toOrdinal(b.stage) < 0 => Rank(b) = 0
<1>1. b.stage \in Stages BY DEF Backup
<1>2. toOrdinal(b.stage) \in -1..5 BY <1>1, OrdinalType
<1> QED BY <1>2 DEF Rank

\* Rank and ordinal of an object are integers.
LEMMA RankIsInt ==
    ASSUME NEW b \in Backup
    PROVE  Rank(b) \in Nat /\ toOrdinal(b.stage) \in Int
<1>1. Rank(b) \in Nat /\ toOrdinal(b.stage) \in -1..5 BY RankType
<1> QED BY <1>1

\* Every copy of the object is a Backup with a revision and a rank.
LEMMA CopiesType ==
    ASSUME TypeOK, NEW c \in Copies \cup {rc}
    PROVE  c \in Backup /\ c.rv \in Nat /\ api.rv \in Nat /\ Rank(c) \in Nat /\ Rank(api) \in Nat
<1>1. c \in Backup BY DEF Copies, TypeOK
<1>2. c.rv \in Nat /\ api.rv \in Nat BY <1>1 DEF Backup, TypeOK
<1> QED BY <1>1, <1>2, RankType DEF TypeOK

\* A write adds at most the new object to the copies, and the copies still agree.
LEMMA StoredAgrees ==
    ASSUME TypeOK, CopiesAgree, api.rv # 0, Stored, TypeOK', UNCHANGED cache,
           rc' = rc \/ rc' = NoBackup
    PROVE  CopiesAgree' /\ Copies' \subseteq Copies \cup {api'}
<1>1. ASSUME NEW c \in Copies'
      PROVE  c \in Copies \cup {api'}
  <2>1. CASE c = cache' BY <2>1 DEF Copies
  <2>2. ASSUME NEW i \in DOMAIN watch', c = watch'[i]
        PROVE  c \in Copies \cup {api'}
    <3>1. CASE watch' = watch BY <2>2, <3>1 DEF Copies
    <3>2. CASE watch' = Append(watch, api')
      <4>1. watch \in Seq(Backup) BY DEF TypeOK
      <4>2. i \in 1..(Len(watch) + 1) BY <2>2, <3>2, <4>1
      <4>3. CASE i = Len(watch) + 1 BY <2>2, <3>2, <4>1, <4>3
      <4>4. CASE i # Len(watch) + 1
        <5>1. i \in DOMAIN watch /\ c = watch[i] BY <2>2, <3>2, <4>1, <4>2, <4>4
        <5> QED BY <5>1 DEF Copies
      <4> QED BY <4>3, <4>4
    <3> QED BY <3>1, <3>2 DEF Stored
  <2> QED BY <1>1, <2>1, <2>2 DEF Copies
<1>2. ASSUME NEW c \in Copies' \cup {rc'}
      PROVE  Agrees(c)'
  <2>1. c \in Copies \cup {rc} \/ c = api' \/ c = NoBackup BY <1>1, <1>2
  <2>2. CASE c \in Copies \cup {rc}
    <3>1. Agrees(c) BY <2>2 DEF CopiesAgree
    <3>2. c.rv \in Nat /\ api.rv \in Nat BY <2>2, CopiesType
    <3> QED BY <3>1, <3>2 DEF Agrees, Stored
  <2>3. CASE c = api'
    BY <2>3, SMTT(20) DEF Agrees, TypeOK, Backup
  <2>4. CASE c = NoBackup
    <3>1. api.rv \in Nat /\ c.rv = 0 BY <2>4, NoBackupType DEF TypeOK, Backup
    <3> QED BY <3>1 DEF Agrees, Stored
  <2> QED BY <2>1, <2>2, <2>3, <2>4
<1> QED BY <1>1, <1>2 DEF CopiesAgree

\* A step of the worker that leaves the object and its copies alone keeps the
\* invariant when the worker's copy keeps its revision and its rank.
LEMMA QuietKeeps ==
    ASSUME IInv, TypeOK',
           UNCHANGED <<api, watch, cache, processed, rpc, rc>>,
           w'.rv = 0 \/ /\ w'.rv = w.rv /\ Rank(w') = Rank(w)
                        /\ toOrdinal(w'.stage) >= toOrdinal(w.stage),
           w'.rv # 0 => StageAt(pc', w'.stage),
           w'.rv # 0 /\ pc' \in Locked => pc \in Locked,
           w'.rv # 0 /\ pc' = "toResources" => Released(apps'),
           Released(apps) => Released(apps') \/ api.rv = 0 \/ toOrdinal(api.stage) <= 3
    PROVE  IInv' /\ StageNotLowered
<1>t. /\ w \in Backup /\ w' \in Backup /\ api \in Backup
      /\ w.rv \in Nat /\ w'.rv \in Nat /\ api.rv \in Nat
  BY DEF IInv, TypeOK, Backup
<1>r. /\ Rank(w) \in Nat /\ Rank(w') \in Nat /\ Rank(api) \in Nat
      /\ toOrdinal(w.stage) \in Int /\ toOrdinal(w'.stage) \in Int
      /\ toOrdinal(api.stage) \in Int
  BY <1>t, RankIsInt, Zenon
<1>1. Copies' = Copies BY DEF Copies
<1>2. CopiesAgree' BY <1>1 DEF IInv, CopiesAgree, Agrees
<1>3. WorkerAgrees'
  <2>1. Rank(api)' = Rank(api) BY DEF Rank
  <2>2. Rank(w)' = Rank(w') BY DEF Rank
  <2> QED BY <1>t, <1>r, <2>1, <2>2 DEF IInv, WorkerAgrees
<1>4. BoundedLag' BY <1>1 DEF IInv, BoundedLag, Lags, Rank
<1>5. FreshCopies'
  <2> SUFFICES ASSUME api'.rv # 0, w'.rv # 0, w'.rv = api'.rv \/ pc' \in Locked,
                      NEW c \in Copies'
               PROVE  Fresh(c)'
    BY DEF FreshCopies
  <2>1. Fresh(c) BY <1>1 DEF IInv, FreshCopies
  <2> QED BY <2>1 DEF Fresh, Rank
<1>6. WorkerStage' BY DEF IInv, WorkerStage
<1>7. ResumedAtToResources' /\ ReconcilerHolds'
  BY DEF ResumedAtToResources, ReconcilerHolds, IInv
<1>8. ResumedBeforeResources'
  <2>1. api.rv = 0 => toOrdinal(api.stage) <= 3
    <3>1. api.rv = 0 => api.stage = "unset" BY NoBackupType DEF IInv, RemovedIsEmpty
    <3>2. api.rv = 0 => toOrdinal(api.stage) = -1 BY <3>1, OrdinalOf, Zenon
    <3> QED BY <1>r, <3>2
  <2>2. toOrdinal(api.stage) >= toOrdinal("Resources") => toOrdinal(api.stage) >= 4
    BY OrdinalValues, Zenon
  <2>4. toOrdinal(api.stage) >= 4 => ~(toOrdinal(api.stage) <= 3)
    BY <1>r
  <2>3. api' = api OBVIOUS
  <2> QED BY <2>1, <2>2, <2>3, <2>4, Zenon DEF IInv, ResumedBeforeResources
<1>9. RemovedIsEmpty' BY DEF IInv, RemovedIsEmpty
<1>10. StageNotLowered BY <1>r DEF StageNotLowered
<1> QED
  BY <1>2, <1>3, <1>4, <1>5, <1>6, <1>7, <1>8, <1>9, <1>10 DEF IInv

\* A write that leaves the stage alone, by anybody, keeps the invariant: the
\* worker keeps its copy or returns.
LEMMA SameStageKeeps ==
    ASSUME IInv, TypeOK', api.rv # 0, Stored, api'.stage = api.stage,
           UNCHANGED <<cache, processed, apps>>,
           (UNCHANGED <<pc, w>>) \/ (w'.rv = 0),
           (UNCHANGED <<rpc, rc>>) \/ (rpc' = "idle" /\ rc' = NoBackup)
    PROVE  IInv' /\ StageNotLowered
<1>t. /\ w \in Backup /\ w' \in Backup /\ api \in Backup /\ api' \in Backup
      /\ w.rv \in Nat /\ w'.rv \in Nat /\ api.rv \in Nat /\ api'.rv \in Nat
      /\ processed \in Nat
  BY DEF IInv, TypeOK, Backup
<1>r. /\ Rank(w) \in Nat /\ Rank(api) \in Nat
      /\ toOrdinal(w.stage) \in Int /\ toOrdinal(api.stage) \in Int
  BY <1>t, RankIsInt, Zenon
<1>s. Rank(api') = Rank(api) /\ Rank(api)' = Rank(api) BY DEF Rank
<1>0. api'.rv = api.rv \/ api'.rv = api.rv + 1 BY DEF Stored
<1>1. CopiesAgree' /\ Copies' \subseteq Copies \cup {api'}
  BY StoredAgrees DEF IInv
<1>2. WorkerAgrees'
  <2>1. CASE UNCHANGED <<pc, w>>
    <3>1. Rank(w)' = Rank(w) BY <2>1 DEF Rank
    <3> QED BY <1>t, <1>r, <1>s, <1>0, <2>1, <3>1 DEF IInv, WorkerAgrees
  <2>2. CASE w'.rv = 0
    BY <1>t, <1>r, <1>s, <1>0, <2>2 DEF IInv, WorkerAgrees
  <2> QED BY <2>1, <2>2
<1>3. BoundedLag'
  <2> SUFFICES ASSUME NEW c \in Copies' PROVE Lags(c)'
    BY DEF BoundedLag
  <2>1. CASE c \in Copies
    <3>1. Lags(c) BY <2>1 DEF IInv, BoundedLag
    <3> QED BY <1>s, <3>1 DEF Lags, Rank
  <2>2. CASE c = api'
    BY <1>r, <1>s, <2>2 DEF Lags, Rank
  <2> QED BY <1>1, <2>1, <2>2
<1>4. FreshCopies'
  <2> SUFFICES ASSUME api'.rv # 0, w'.rv # 0, w'.rv = api'.rv \/ pc' \in Locked,
                      NEW c \in Copies'
               PROVE  Fresh(c)'
    BY DEF FreshCopies
  <2>0. w' = w /\ pc' = pc /\ (w.rv = api.rv \/ pc \in Locked)
    BY <1>t, <1>0 DEF IInv, WorkerAgrees
  <2>1. CASE c \in Copies
    <3>1. Fresh(c) BY <2>0, <2>1 DEF IInv, FreshCopies
    <3> QED BY <1>s, <3>1 DEF Fresh, Rank
  <2>2. CASE c = api'
    BY <1>r, <1>s, <2>2 DEF Fresh, Rank
  <2> QED BY <1>1, <2>1, <2>2
<1>5. WorkerStage' /\ ResumedAtToResources'
  BY DEF IInv, WorkerStage, ResumedAtToResources
<1>6. ReconcilerHolds' BY DEF IInv, ReconcilerHolds
<1>7. ResumedBeforeResources' BY DEF IInv, ResumedBeforeResources
<1>8. RemovedIsEmpty' BY <1>t, <1>0 DEF RemovedIsEmpty
<1>9. StageNotLowered BY <1>r DEF StageNotLowered
<1> QED
  BY <1>1, <1>2, <1>3, <1>4, <1>5, <1>6, <1>7, <1>8, <1>9 DEF IInv

\* A worker that continues keeps its copy; one that returns drops it.
LEMMA ContinueTo ==
    ASSUME NEW next, NEW b, Continue(next, b)
    PROVE  (w' = b /\ pc' = next) \/ (w' = NoBackup /\ w'.rv = 0)
BY NoBackupType, Zenon DEF Continue, Goto, Return

\* The status write of a worker that raises the stage by at most one keeps the
\* invariant. The lock makes the worker's copy the server's object; the store
\* then hides every older copy, and if the reply is lost, those copies were not
\* behind before.
LEMMA WriteKeeps ==
    ASSUME IInv, TypeOK', NEW b \in Backup, NEW next \in Pcs \cup {"return"}, NEW err,
           WriteStatus(b, next, err), UNCHANGED <<cache, rcVars, volVars, envVars, crashes>>,
           b.rv = w.rv, toOrdinal(b.stage) >= toOrdinal(w.stage),
           w.rv # 0 => Rank(b) <= Rank(w) + 1,
           w.rv # 0 /\ toOrdinal(b.stage) >= 4 => toOrdinal(w.stage) >= 4 \/ Released(apps),
           w.rv # 0 => StageAt(next, b.stage),
           next \notin {"createVBC", "noVolume", "toResources"}
    PROVE  IInv' /\ StageNotLowered
<1>t. /\ w \in Backup /\ w' \in Backup /\ api \in Backup /\ api' \in Backup
      /\ w.rv \in Nat /\ w'.rv \in Nat /\ api.rv \in Nat /\ api'.rv \in Nat
      /\ processed \in Nat /\ watch \in Seq(Backup)
  BY DEF IInv, TypeOK, Backup
<1>r. /\ Rank(w) \in Nat /\ Rank(api) \in Nat /\ Rank(b) \in Nat /\ Rank(api') \in Nat
      /\ toOrdinal(w.stage) \in Int /\ toOrdinal(api.stage) \in Int
      /\ toOrdinal(b.stage) \in Int
  BY <1>t, RankIsInt, Zenon
<1>u. UNCHANGED <<cache, rpc, rc, apps>> BY DEF rcVars, envVars
<1>1. CASE /\ w.rv # 0 /\ w.rv = api.rv /\ Commit(StatusOf(b))
           /\ \/ StoreRevisionUpdate(api'.rv) /\ Continue(next, api')
              \/ UNCHANGED processed /\ w'.rv = 0
  <2>1. Stored /\ api'.stage = b.stage BY <1>1, <1>t, StatusOfType, CommitStores
  <2>2. api'.rv = api.rv \/ api'.rv = api.rv + 1 BY <2>1 DEF Stored
  <2>3. /\ toOrdinal(api'.stage) >= toOrdinal(api.stage)
        /\ toOrdinal(api'.stage) \in Int
    BY <1>1, <1>r, <2>1 DEF IInv, WorkerAgrees
  <2>4. Rank(api') = Rank(b) /\ Rank(api)' = Rank(b) BY <2>1 DEF Rank
  <2>5. Rank(b) <= Rank(api) + 1 BY <1>1, <1>r DEF IInv, WorkerAgrees
  <2>6. CopiesAgree' /\ Copies' \subseteq Copies \cup {api'}
    BY <1>1, <1>u, <2>1, StoredAgrees DEF IInv
  <2>7. processed <= api.rv /\ processed' <= api'.rv /\ processed' >= processed
    BY <1>1, <1>t, <2>2 DEF IInv, WorkerAgrees, StoreRevisionUpdate
  <2>8. WorkerAgrees'
    <3>1. w' = api' \/ w'.rv = 0 BY <1>1, ContinueTo
    <3>2. Rank(w)' = Rank(w') BY DEF Rank
    <3> QED BY <1>t, <1>r, <2>3, <2>4, <2>7, <3>1, <3>2, SMTT(20) DEF WorkerAgrees
  <2>9. \/ \A c \in Copies' : c.rv >= processed' => c = api'
        \/ w'.rv = 0 /\ UNCHANGED processed
    <3>1. CASE StoreRevisionUpdate(api'.rv)
      <4>1. processed' >= api'.rv BY <1>t, <3>1 DEF StoreRevisionUpdate
      <4>2. ASSUME NEW c \in Copies', c.rv >= processed'
            PROVE  c = api'
        <5>1. api'.rv # 0 BY <1>1, <1>t, <2>2
        <5>2. c.rv <= api'.rv /\ (c.rv = api'.rv => c = api')
          BY <2>6, <5>1 DEF CopiesAgree, Agrees
        <5>3. c \in Backup /\ c.rv \in Nat BY <2>6, <1>t, CopiesType DEF IInv, Backup
        <5>4. processed' \in Nat BY DEF TypeOK
        <5>5. c.rv = api'.rv BY <1>t, <4>1, <4>2, <5>2, <5>3, <5>4
        <5> QED BY <5>2, <5>5
      <4> QED BY <4>2
    <3> QED BY <1>1, <3>1
  <2>10. BoundedLag'
    <3> SUFFICES ASSUME NEW c \in Copies' PROVE Lags(c)'
      BY DEF BoundedLag
    <3>1. CASE c = api'
      BY <3>1, <1>r, <2>4 DEF Lags, Rank
    <3>2. CASE w'.rv = 0 /\ UNCHANGED processed /\ c \in Copies
      <4>1. Fresh(c) BY <1>1, <3>2 DEF IInv, FreshCopies
      <4>2. Rank(c) \in Nat BY <3>2, CopiesType DEF IInv
      <4> QED BY <1>r, <2>4, <2>5, <3>2, <4>1, <4>2 DEF Fresh, Lags, Rank
    <3>3. CASE ~(c.rv >= processed')
      BY <3>3 DEF Lags
    <3> QED BY <2>6, <2>9, <3>1, <3>2, <3>3
  <2>11. FreshCopies'
    <3> SUFFICES ASSUME w'.rv # 0, NEW c \in Copies' PROVE Fresh(c)'
      BY DEF FreshCopies
    <3>1. CASE c = api'
      BY <3>1, <1>r, <2>4 DEF Fresh, Rank
    <3>2. CASE ~(c.rv >= processed')
      BY <3>2 DEF Fresh
    <3> QED BY <2>9, <3>1, <3>2
  <2>12. WorkerStage' /\ ResumedAtToResources'
    <3>1. w'.rv = 0 \/ (w'.stage = b.stage /\ pc' = next /\ api'.stage = b.stage)
      BY <1>1, <2>1, ContinueTo
    <3>2. CASE w'.rv = 0 BY <3>2 DEF WorkerStage, ResumedAtToResources
    <3>3. CASE w'.stage = b.stage /\ pc' = next /\ api'.stage = b.stage
      <4>1. StageAt(next, b.stage) BY <1>1
      <4>2. next \in Locked => b.stage = "Volumes" BY <4>1 DEF StageAt, Locked
      <4> QED BY <3>3, <4>1, <4>2 DEF WorkerStage, ResumedAtToResources
    <3> QED BY <3>1, <3>2, <3>3
  <2>13. ReconcilerHolds' BY <1>u DEF IInv, ReconcilerHolds
  <2>14. ResumedBeforeResources'
    <3>1. toOrdinal(w.stage) >= 4 => toOrdinal(api.stage) >= 4
      <4>1. Rank(w) = Rank(api) BY <1>1, <1>r DEF IInv, WorkerAgrees
      <4>2. toOrdinal(w.stage) >= 0 => Rank(w) = toOrdinal(w.stage)
        BY <1>t, RankType, Zenon
      <4>3. /\ toOrdinal(api.stage) >= 0 => Rank(api) = toOrdinal(api.stage)
            /\ toOrdinal(api.stage) < 0 => Rank(api) = 0
        BY <1>t, RankType, Zenon
      <4> QED BY <1>r, <4>1, <4>2, <4>3
    <3>2. toOrdinal(api.stage) >= 4 => Released(apps)
      BY OrdinalValues, Zenon DEF IInv, ResumedBeforeResources
    <3>3. toOrdinal(api'.stage) >= 4 => Released(apps')
      BY <1>1, <1>u, <2>1, <3>1, <3>2, Zenon
    <3> QED BY <3>3, OrdinalValues, Zenon DEF ResumedBeforeResources
  <2>15. RemovedIsEmpty' BY <1>1, <1>t, <2>2 DEF RemovedIsEmpty
  <2>16. StageNotLowered BY <2>3 DEF StageNotLowered
  <2> QED
    BY <2>6, <2>8, <2>10, <2>11, <2>12, <2>13, <2>14, <2>15, <2>16 DEF IInv
<1>2. CASE UNCHANGED apiVars /\ UNCHANGED processed /\ w'.rv = 0
  BY <1>2, <1>u, QuietKeeps DEF apiVars
<1>3. Continue(next, NoBackup) \/ ReturnErr \/ Return => w'.rv = 0
  <2>1. Continue(next, NoBackup) => w'.rv = 0 BY ContinueTo, NoBackupType
  <2> QED BY <2>1, NoBackupType DEF ReturnErr, Return
<1> QED BY <1>1, <1>2, <1>3 DEF WriteStatus

\* updateBackupStatus keeps the invariant: it raises the stage by at most one.
LEMMA UpdateKeeps ==
    ASSUME IInv, TypeOK', NEW stage \in Stages, NEW state \in States,
           NEW next \in Pcs \cup {"return"}, UpdateStatus(stage, state, next),
           w.rv # 0 => /\ toOrdinal(stage) <= Rank(w) + 1
                       /\ StageAt(next, Updated(w, stage, state).stage)
                       /\ toOrdinal(stage) >= 4 => toOrdinal(w.stage) >= 4 \/ Released(apps),
           next \notin {"createVBC", "noVolume", "toResources", "volumeGroup"}
    PROVE  IInv' /\ StageNotLowered
<1> DEFINE b == Updated(w, stage, state)
<1>t. w \in Backup /\ w.rv \in Nat BY DEF IInv, TypeOK, Backup
<1>1. /\ b \in Backup /\ b.rv = w.rv /\ toOrdinal(b.stage) >= toOrdinal(w.stage)
      /\ b.stage = stage \/ b.stage = w.stage
  BY <1>t, UpdatedType
<1>r. /\ Rank(w) \in Nat /\ toOrdinal(stage) \in -1..5 /\ toOrdinal(w.stage) \in -1..5
      /\ Rank(b) \in Nat
  BY <1>t, <1>1, RankType, OrdinalType
<1>2. w.rv # 0 => Rank(b) <= Rank(w) + 1
  <2>1. CASE b.stage = stage
    <3>1. toOrdinal(b.stage) = toOrdinal(stage) BY <2>1
    <3>2. Rank(b) = IF toOrdinal(stage) < 0 THEN 0 ELSE toOrdinal(stage)
      BY <3>1 DEF Rank
    <3> QED BY <1>r, <3>2
  <2>2. CASE b.stage = w.stage
    <3>1. Rank(b) = Rank(w) BY <2>2 DEF Rank
    <3> QED BY <1>r, <3>1
  <2> QED BY <1>1, <2>1, <2>2
<1>3. w.rv # 0 /\ toOrdinal(b.stage) >= 4 => toOrdinal(w.stage) >= 4 \/ Released(apps)
  BY <1>1
<1>4. CASE b # w
  <2>1. /\ WriteStatus(b, next, "retry")
        /\ UNCHANGED <<cache, rcVars, volVars, envVars, crashes>>
    BY <1>4 DEF UpdateStatus
  <2> HIDE DEF b
  <2>2. w.rv # 0 => StageAt(next, b.stage) BY DEF b
  <2> QED BY <1>1, <1>2, <1>3, <2>1, <2>2, WriteKeeps
<1>5. CASE b = w
  <2>1. /\ Continue(next, w)
        /\ UNCHANGED <<api, watch, processed, cache, rpc, rc, apps>>
    BY <1>5 DEF UpdateStatus, apiVars, storeVars, rcVars, envVars
  <2>2. (w' = w /\ pc' = next) \/ w'.rv = 0 BY <2>1, ContinueTo
  <2>3. w'.rv # 0 => StageAt(pc', w'.stage) BY <1>5, <2>2
  <2>4. w'.rv = 0 \/ /\ w'.rv = w.rv /\ Rank(w') = Rank(w)
                     /\ toOrdinal(w'.stage) >= toOrdinal(w.stage)
    BY <1>r, <2>2
  <2>5. w'.rv # 0 => pc' \notin Locked /\ pc' # "toResources" BY <2>2 DEF Locked
  <2> QED BY <2>1, <2>3, <2>4, <2>5, QuietKeeps
<1> QED BY <1>4, <1>5

\* patchBackup with the stage of the server keeps the invariant.
LEMMA PatchKeeps ==
    ASSUME IInv, TypeOK', NEW b \in Backup, NEW next \in Pcs, PatchBackup(b, next),
           b.stage = api.stage, next \in {"initStatus", "validated"}
    PROVE  IInv' /\ StageNotLowered
<1>t. /\ w \in Backup /\ w' \in Backup /\ api \in Backup /\ api' \in Backup
      /\ w.rv \in Nat /\ w'.rv \in Nat /\ api.rv \in Nat /\ api'.rv \in Nat
      /\ processed \in Nat /\ processed' \in Nat /\ watch \in Seq(Backup)
  BY DEF IInv, TypeOK, Backup
<1>r. Rank(api) \in Nat /\ toOrdinal(api.stage) \in Int BY <1>t, RankIsInt, Zenon
<1>u. UNCHANGED <<cache, rpc, rc, apps>> BY DEF PatchBackup, rcVars, envVars
<1>1. CASE api.rv # 0 /\ Commit(b) /\ StoreRevisionUpdate(api'.rv) /\ Goto(next, api')
  <2>1. Stored /\ api'.stage = api.stage BY <1>1, <1>t, CommitStores DEF IInv
  <2>2. api'.rv = api.rv \/ api'.rv = api.rv + 1 BY <2>1 DEF Stored
  <2>3. Rank(api') = Rank(api) /\ Rank(api)' = Rank(api) BY <2>1 DEF Rank
  <2>4. CopiesAgree' /\ Copies' \subseteq Copies \cup {api'}
    BY <1>1, <1>u, <2>1, StoredAgrees DEF IInv
  <2>5. w' = api' /\ pc' = next BY <1>1 DEF Goto
  <2>6. processed' = api'.rv
    BY <1>1, <1>t, <2>2 DEF IInv, WorkerAgrees, StoreRevisionUpdate
  <2>7. WorkerAgrees'
    <3>1. Rank(w)' = Rank(w') BY DEF Rank
    <3>2. toOrdinal(w'.stage) = toOrdinal(api'.stage) /\ toOrdinal(api'.stage) \in Int
      BY <1>r, <2>1, <2>5
    <3> QED BY <1>t, <1>r, <2>3, <2>5, <2>6, <3>1, <3>2 DEF WorkerAgrees
  <2>8. \A c \in Copies' : c.rv >= processed' => c = api'
    <3> TAKE c \in Copies'
    <3>1. api'.rv # 0 BY <1>1, <1>t, <2>2
    <3>2. c.rv <= api'.rv /\ (c.rv = api'.rv => c = api')
      BY <2>4, <3>1 DEF CopiesAgree, Agrees
    <3>3. c.rv \in Nat BY <2>4, <1>t, CopiesType DEF IInv, Backup
    <3> QED BY <1>t, <2>6, <3>2, <3>3
  <2>9. BoundedLag' /\ FreshCopies'
    <3>1. ASSUME NEW c \in Copies' PROVE Lags(c)' /\ Fresh(c)'
      <4>1. CASE c = api' BY <4>1, <1>r, <2>3 DEF Lags, Fresh, Rank
      <4>2. CASE ~(c.rv >= processed') BY <4>2 DEF Lags, Fresh
      <4> QED BY <2>8, <4>1, <4>2
    <3> QED BY <3>1 DEF BoundedLag, FreshCopies
  <2>10. WorkerStage' /\ ResumedAtToResources'
    BY <2>5 DEF WorkerStage, StageAt, Locked, ResumedAtToResources
  <2>11. ReconcilerHolds' /\ ResumedBeforeResources'
    BY <1>u, <2>1 DEF IInv, ReconcilerHolds, ResumedBeforeResources
  <2>12. RemovedIsEmpty' BY <1>1, <1>t, <2>2 DEF RemovedIsEmpty
  <2>13. StageNotLowered BY <1>r, <2>1 DEF StageNotLowered
  <2> QED BY <2>4, <2>7, <2>9, <2>10, <2>11, <2>12, <2>13 DEF IInv
<1>2. CASE /\ ReturnErr /\ UNCHANGED storeVars
           /\ UNCHANGED apiVars \/ (api.rv # 0 /\ Commit(b))
  <2>1. w'.rv = 0 BY <1>2, NoBackupType DEF ReturnErr
  <2>2. CASE UNCHANGED apiVars
    BY <1>2, <1>u, <2>1, <2>2, QuietKeeps DEF apiVars, storeVars
  <2>3. CASE api.rv # 0 /\ Commit(b)
    <3>1. Stored /\ api'.stage = api.stage BY <2>3, <1>t, CommitStores
    <3> QED BY <1>2, <1>u, <2>1, <2>3, <3>1, SameStageKeeps DEF storeVars
  <2> QED BY <1>2, <2>2, <2>3
<1> QED BY <1>1, <1>2 DEF PatchBackup

\* annotateBackup of the worker keeps the invariant.
LEMMA AnnotateKeeps ==
    ASSUME IInv, TypeOK', NEW a \in Annotations, NEW next \in Pcs \cup {"return"},
           AnnotateBackup(a, next),
           next = "return" \/ (next = "scheduled" /\ pc = "noVolume")
    PROVE  IInv' /\ StageNotLowered
<1> DEFINE upd == [api EXCEPT !.ann = @ \cup {a}]
<1>t. /\ w \in Backup /\ w' \in Backup /\ api \in Backup /\ api' \in Backup
      /\ w.rv \in Nat /\ w'.rv \in Nat /\ api.rv \in Nat /\ api'.rv \in Nat
      /\ processed \in Nat /\ watch \in Seq(Backup)
  BY DEF IInv, TypeOK, Backup
<1>r. /\ Rank(api) \in Nat /\ toOrdinal(api.stage) \in Int
      /\ toOrdinal(w.stage) \in Int
  BY <1>t, RankIsInt, Zenon
<1>u. UNCHANGED <<cache, processed, rpc, rc, apps>>
  BY DEF AnnotateBackup, storeVars, rcVars, envVars
<1>0. upd \in Backup /\ upd.stage = api.stage BY <1>t DEF Backup
<1> HIDE DEF upd
<1>1. CASE Continue(next, w) /\ UNCHANGED apiVars
  <2>1. (w' = w /\ pc' = next /\ next = "scheduled" /\ pc = "noVolume") \/ w'.rv = 0
    BY <1>1, ContinueTo, NoBackupType DEF Continue, Return
  <2>2. w'.rv # 0 => StageAt(pc', w'.stage)
    BY <2>1 DEF IInv, WorkerStage, StageAt
  <2>3. w'.rv # 0 => pc' \notin Locked /\ pc' # "toResources" BY <2>1 DEF Locked
  <2>4. w'.rv = 0 \/ /\ w'.rv = w.rv /\ Rank(w') = Rank(w)
                     /\ toOrdinal(w'.stage) >= toOrdinal(w.stage)
    BY <1>r, <2>1
  <2> QED BY <1>1, <1>u, <2>2, <2>3, <2>4, QuietKeeps DEF apiVars
<1>2. CASE /\ w'.rv = 0
           /\ UNCHANGED apiVars \/ (api.rv # 0 /\ Commit(upd))
  <2>2. CASE UNCHANGED apiVars
    BY <1>2, <1>u, <2>2, QuietKeeps DEF apiVars
  <2>3. CASE api.rv # 0 /\ Commit(upd)
    <3>1. Stored /\ api'.stage = api.stage BY <1>0, <2>3, <1>t, CommitStores
    <3> QED BY <1>2, <1>u, <2>3, <3>1, SameStageKeeps
  <2> QED BY <1>2, <2>2, <2>3
<1>3. CASE /\ w.rv # 0 /\ api.rv # 0 /\ Commit(upd)
           /\ w' = api' /\ pc' = "scheduled" /\ pc = "noVolume"
  <2>1. Stored /\ api'.stage = api.stage BY <1>0, <1>3, <1>t, CommitStores
  <2>2. api'.rv = api.rv \/ api'.rv = api.rv + 1 BY <2>1 DEF Stored
  <2>3. Rank(api') = Rank(api) /\ Rank(api)' = Rank(api) BY <2>1 DEF Rank
  <2>4. CopiesAgree' /\ Copies' \subseteq Copies \cup {api'}
    BY <1>3, <1>u, <2>1, StoredAgrees DEF IInv
  <2>5. WorkerAgrees'
    <3>1. Rank(w)' = Rank(w') BY DEF Rank
    <3>2. toOrdinal(w'.stage) = toOrdinal(api'.stage) /\ toOrdinal(api'.stage) \in Int
      BY <1>r, <2>1, <1>3
    <3>3. processed <= api.rv BY <1>3 DEF IInv, WorkerAgrees
    <3> QED BY <1>t, <1>r, <1>u, <1>3, <2>2, <2>3, <3>1, <3>2, <3>3 DEF WorkerAgrees
  <2>6. BoundedLag' /\ FreshCopies'
    <3>1. ASSUME NEW c \in Copies' PROVE Lags(c)' /\ Fresh(c)'
      <4>1. CASE c = api' BY <4>1, <1>r, <2>3 DEF Lags, Fresh, Rank
      <4>2. CASE c \in Copies
        <5>1. Fresh(c) BY <1>3, <4>2 DEF IInv, FreshCopies, Locked
        <5>2. Rank(c) \in Nat BY <4>2, CopiesType DEF IInv
        <5>3. Rank(c)' = Rank(c) BY DEF Rank
        <5> QED BY <1>r, <1>u, <2>3, <5>1, <5>2, <5>3 DEF Lags, Fresh
      <4> QED BY <2>4, <4>1, <4>2
    <3> QED BY <3>1 DEF BoundedLag, FreshCopies
  <2>7. WorkerStage' /\ ResumedAtToResources'
    <3>1. w'.stage = "Volumes" BY <1>3, <2>1 DEF IInv, WorkerStage, Locked
    <3> QED BY <1>3, <3>1 DEF WorkerStage, StageAt, Locked, ResumedAtToResources
  <2>8. ReconcilerHolds' /\ ResumedBeforeResources'
    BY <1>u, <2>1 DEF IInv, ReconcilerHolds, ResumedBeforeResources
  <2>9. RemovedIsEmpty' BY <1>3, <1>t, <2>2 DEF RemovedIsEmpty
  <2>10. StageNotLowered BY <1>r, <2>1 DEF StageNotLowered
  <2> QED BY <2>4, <2>5, <2>6, <2>7, <2>8, <2>9, <2>10 DEF IInv
<1>4. Continue(next, NoBackup) => w'.rv = 0 BY ContinueTo, NoBackupType
<1>5. Continue(next, api') =>
          w'.rv = 0 \/ (w' = api' /\ pc' = "scheduled" /\ pc = "noVolume")
  BY ContinueTo, NoBackupType DEF Continue, Return
<1> QED BY <1>1, <1>2, <1>3, <1>4, <1>5 DEF AnnotateBackup, upd

\* An update of the state alone keeps the invariant.
LEMMA UpdateStateKeeps ==
    ASSUME IInv, TypeOK', NEW state \in States, NEW next \in Pcs \cup {"return"},
           UpdateStatus("unset", state, next), w.rv # 0 => StageAt(next, w.stage),
           next \notin {"createVBC", "noVolume", "toResources", "volumeGroup"}
    PROVE  IInv' /\ StageNotLowered
<1>t. w \in Backup BY DEF IInv, TypeOK
<1>r. Rank(w) \in Nat /\ toOrdinal(w.stage) \in -1..5 BY <1>t, RankType
<1>1. "unset" \in Stages BY DEF Stages
<1>2. Updated(w, "unset", state).stage = w.stage
  <2>1. Updated(w, "unset", state).stage
          = IF toOrdinal(w.stage) < -1 THEN "unset" ELSE w.stage
    BY <1>t, <1>1, UpdatedType, OrdinalValues, Zenon
  <2>2. ~(toOrdinal(w.stage) < -1) BY <1>r
  <2> QED BY <2>1, <2>2, Zenon
<1>3. -1 <= Rank(w) + 1 /\ ~(-1 >= 4)
  <2>1. \A r \in Nat : -1 <= r + 1 /\ ~(-1 >= 4) OBVIOUS
  <2> QED BY <1>r, <2>1, Zenon
<1>4. toOrdinal("unset") <= Rank(w) + 1 /\ ~(toOrdinal("unset") >= 4)
  BY <1>3, OrdinalValues, Zenon
<1> QED BY <1>1, <1>2, <1>4, UpdateKeeps

\* An update to the stage after the one the worker's copy is in keeps the
\* invariant, if nothing is quiesced when that is the Resources stage.
LEMMA UpdateStageKeeps ==
    ASSUME IInv, TypeOK', NEW stage \in Stages, NEW state \in States,
           NEW next \in Pcs \cup {"return"}, UpdateStatus(stage, state, next),
           NEW k \in 0..5, toOrdinal(stage) = k,
           w.rv # 0 => /\ toOrdinal(w.stage) = k - 1
                       /\ k = 4 => Released(apps),
           StageAt(next, stage),
           next \notin {"createVBC", "noVolume", "toResources", "volumeGroup"}
    PROVE  IInv' /\ StageNotLowered
<1>t. w \in Backup BY DEF IInv, TypeOK
<1>r. Rank(w) \in Nat /\ toOrdinal(w.stage) \in -1..5 BY <1>t, RankType
<1>1. w.rv # 0 => Updated(w, stage, state).stage = stage
  BY <1>t, <1>r, UpdatedType
<1>2. w.rv # 0 => toOrdinal(stage) <= Rank(w) + 1
  BY <1>t, <1>r, RankType
<1>3. w.rv # 0 /\ toOrdinal(stage) >= 4 => toOrdinal(w.stage) >= 4 \/ Released(apps)
  BY <1>r
<1> QED BY <1>1, <1>2, <1>3, UpdateKeeps

\* A local step to a call of the same stage keeps the invariant.
LEMMA LocalKeeps ==
    ASSUME IInv, TypeOK', NEW b \in Backup, NEW next \in Pcs \cup {"return"},
           Local(next, b), b.rv = w.rv, b.stage = w.stage,
           w.rv # 0 => StageAt(next, b.stage),
           next \in Locked => pc \in Locked,
           w.rv # 0 /\ next = "toResources" => Released(apps'),
           Released(apps) => Released(apps') \/ api.rv = 0 \/ toOrdinal(api.stage) <= 3
    PROVE  IInv' /\ StageNotLowered
<1>t. toOrdinal(w.stage) \in -1..5 BY RankType DEF IInv, TypeOK
<1>u. UNCHANGED <<api, watch, cache, processed, rpc, rc>>
  BY DEF Local, apiVars, storeVars, rcVars
<1>1. (w' = b /\ pc' = next) \/ w'.rv = 0 BY ContinueTo DEF Local
<1>2. w'.rv = 0 \/ /\ w'.rv = w.rv /\ Rank(w') = Rank(w)
                   /\ toOrdinal(w'.stage) >= toOrdinal(w.stage)
  BY <1>t, <1>1 DEF Rank
<1>3. w'.rv # 0 => StageAt(pc', w'.stage) BY <1>1
<1>4. w'.rv # 0 /\ pc' \in Locked => pc \in Locked BY <1>1
<1>5. w'.rv # 0 /\ pc' = "toResources" => Released(apps') BY <1>1
<1> QED BY <1>u, <1>2, <1>3, <1>4, <1>5, QuietKeeps

\* A failed call keeps the invariant.
LEMMA CallFailsKeeps ==
    ASSUME IInv, TypeOK', CallFails
    PROVE  IInv' /\ StageNotLowered
<1>1. w'.rv = 0 BY NoBackupType DEF CallFails, ReturnErr
<1>2. UNCHANGED <<api, watch, cache, processed, rpc, rc, apps>>
  BY DEF CallFails, apiVars, storeVars, rcVars, envVars
<1> QED BY <1>1, <1>2, QuietKeeps

\* A restart keeps the invariant: it leaves no stale copy behind.
LEMMA RestartKeeps ==
    ASSUME IInv, TypeOK', NEW b \in {api, NoBackup}, Restart(b), UNCHANGED envVars
    PROVE  IInv' /\ StageNotLowered
<1>n. NoBackup.rv = 0 /\ NoBackup.stage = "unset" /\ NoBackup \in Backup
  BY NoBackupType
<1>t. b \in Backup /\ b.rv \in Nat /\ Rank(b) \in Nat /\ toOrdinal(b.stage) \in Int
  <2>1. b \in Backup BY <1>n DEF IInv, TypeOK
  <2>2. b.rv \in Nat BY <2>1 DEF Backup
  <2> QED BY <2>1, <2>2, RankIsInt, Zenon
<1>1. /\ api' = b /\ cache' = b /\ watch' = <<>> /\ processed' = 0
      /\ rc' = NoBackup /\ w' = NoBackup /\ rpc' = "idle" /\ apps' = apps
  BY DEF Restart, envVars
<1>2. Copies' = {b} BY <1>1 DEF Copies
<1>3. CopiesAgree' BY <1>n, <1>t, <1>1, <1>2 DEF CopiesAgree, Agrees
<1>4. WorkerAgrees' BY <1>n, <1>t, <1>1 DEF WorkerAgrees
<1>5. BoundedLag' /\ FreshCopies'
  BY <1>n, <1>t, <1>1, <1>2 DEF BoundedLag, FreshCopies, Lags, Rank
<1>6. WorkerStage' /\ ResumedAtToResources' /\ ReconcilerHolds'
  BY <1>n, <1>1 DEF WorkerStage, ResumedAtToResources, ReconcilerHolds
<1>7. RemovedIsEmpty' BY <1>1 DEF IInv, RemovedIsEmpty
<1>8. ResumedBeforeResources'
  <2>1. CASE b = api BY <1>1, <2>1 DEF IInv, ResumedBeforeResources
  <2>2. CASE b = NoBackup
    BY <1>n, <1>1, <2>2, OrdinalOf DEF ResumedBeforeResources
  <2> QED BY <2>1, <2>2
<1>9. StageNotLowered BY <1>n, <1>t, <1>1 DEF StageNotLowered
<1> QED BY <1>3, <1>4, <1>5, <1>6, <1>7, <1>8, <1>9 DEF IInv

\* The removal of the object keeps the invariant.
LEMMA RemoveKeeps ==
    ASSUME IInv, TypeOK', Remove, UNCHANGED <<rpc, rc, apps>>,
           (UNCHANGED <<pc, w>>) \/ w'.rv = 0
    PROVE  IInv' /\ StageNotLowered
<1>1. api'.rv = 0 /\ api' = NoBackup /\ api'.stage = "unset"
  BY NoBackupType DEF Remove
<1>2. /\ CopiesAgree' /\ WorkerAgrees' /\ BoundedLag' /\ FreshCopies' /\ RemovedIsEmpty'
      /\ StageNotLowered
  BY <1>1 DEF CopiesAgree, WorkerAgrees, BoundedLag, FreshCopies, RemovedIsEmpty,
              StageNotLowered
<1>3. WorkerStage' /\ ResumedAtToResources' /\ ReconcilerHolds'
  BY <1>1 DEF IInv, WorkerStage, ResumedAtToResources, ReconcilerHolds
<1>4. ResumedBeforeResources'
  <2>1. ~(-1 >= 4) OBVIOUS
  <2> QED BY <1>1, <2>1, OrdinalValues, Zenon DEF ResumedBeforeResources
<1> QED BY <1>2, <1>3, <1>4 DEF IInv

\* The steps of processQueue before syncBackup keep the invariant.
LEMMA ProcessKeeps ==
    ASSUME IInv, TypeOK',
           \/ ProcessQueue \/ InitFinalizer \/ InitStatus \/ ValidateBackup
           \/ EnsureSupportedResourceList \/ Validated \/ SyncBackup
    PROVE  IInv' /\ StageNotLowered
<1>t. /\ w \in Backup /\ api \in Backup /\ cache \in Backup
      /\ w.rv \in Nat /\ api.rv \in Nat /\ cache.rv \in Nat /\ processed \in Nat
  BY DEF IInv, TypeOK, Backup
<1>r. /\ Rank(w) \in Nat /\ Rank(api) \in Nat /\ Rank(cache) \in Nat
      /\ toOrdinal(w.stage) \in -1..5 /\ toOrdinal(api.stage) \in -1..5
      /\ toOrdinal(cache.stage) \in -1..5
  BY <1>t, RankType, Zenon
<1>1. CASE ProcessQueue
  <2>u. UNCHANGED <<api, watch, cache, rpc, rc, apps>>
    BY <1>1 DEF ProcessQueue, apiVars, rcVars, envVars
  <2>1. CASE cache.rv = 0 \/ processed > cache.rv
    <3>1. UNCHANGED <<pc, w, processed>> BY <1>1, <2>1 DEF ProcessQueue, workerVars
    <3> QED BY <1>r, <2>u, <3>1, QuietKeeps DEF IInv, WorkerStage, ResumedAtToResources
  <2>2. CASE ~(cache.rv = 0 \/ processed > cache.rv)
    <3>1. /\ processed' = cache.rv /\ w' = cache
          /\ pc' \in {"delVBC", "finalizer", "sync"}
      BY <1>1, <2>2 DEF ProcessQueue
    <3>2. Copies' = Copies /\ cache \in Copies BY <2>u DEF Copies
    <3>3. CopiesAgree' BY <2>u, <3>2 DEF IInv, CopiesAgree, Agrees
    <3>4. api.rv # 0 => Agrees(cache) /\ Lags(cache)
      BY <3>2 DEF IInv, CopiesAgree, BoundedLag
    <3>5. WorkerAgrees'
      <4>1. Rank(w)' = Rank(cache) /\ Rank(api)' = Rank(api) BY <2>u, <3>1 DEF Rank
      <4> QED
        BY <1>t, <1>r, <2>u, <2>2, <3>1, <3>4, <4>1 DEF WorkerAgrees, Agrees, Lags
    <3>6. BoundedLag' /\ FreshCopies'
      <4> SUFFICES ASSUME api.rv # 0, NEW c \in Copies
                   PROVE  Lags(c)' /\ (w'.rv = api.rv => Fresh(c)')
        BY <2>u, <3>1, <3>2 DEF BoundedLag, FreshCopies, Locked
      <4>0. c.rv \in Nat /\ Rank(c) \in Nat BY CopiesType DEF IInv
      <4>1. Lags(c) /\ Agrees(c) BY DEF IInv, BoundedLag, CopiesAgree
      <4>2. Rank(c)' = Rank(c) /\ Rank(api)' = Rank(api) BY <2>u DEF Rank
      <4>3. Lags(c)'
        BY <1>t, <2>u, <2>2, <3>1, <4>0, <4>1, <4>2 DEF Lags
      <4>4. w'.rv = api.rv => Fresh(c)'
        <5>1. w'.rv = api.rv /\ c.rv >= processed' => c = api
          BY <1>t, <3>1, <4>0, <4>1 DEF Agrees
        <5> QED BY <1>r, <2>u, <4>2, <5>1 DEF Fresh
      <4> QED BY <4>3, <4>4
    <3>7. WorkerStage' /\ ResumedAtToResources' /\ ReconcilerHolds'
      BY <2>u, <3>1 DEF IInv, WorkerStage, StageAt, Locked, ResumedAtToResources,
                        ReconcilerHolds
    <3>8. ResumedBeforeResources' /\ RemovedIsEmpty'
      BY <2>u DEF IInv, ResumedBeforeResources, RemovedIsEmpty
    <3>9. StageNotLowered BY <1>r, <2>u DEF StageNotLowered
    <3> QED BY <3>3, <3>5, <3>6, <3>7, <3>8, <3>9 DEF IInv
  <2> QED BY <2>1, <2>2
<1>2. CASE InitFinalizer
  <2>1. /\ [api EXCEPT !.fin = TRUE] \in Backup
        /\ [api EXCEPT !.fin = TRUE].stage = api.stage
    BY <1>t DEF Backup
  <2>2. "initStatus" \in Pcs BY DEF Pcs
  <2>3. StageAt("initStatus", w.stage) /\ "initStatus" \notin Locked
    BY DEF StageAt, Locked
  <2>4. CASE w.fin
    BY <1>2, <1>t, <2>2, <2>3, <2>4, LocalKeeps DEF InitFinalizer, envVars
  <2>5. CASE ~w.fin
    BY <1>2, <2>1, <2>2, <2>5, PatchKeeps DEF InitFinalizer
  <2> QED BY <2>4, <2>5
<1>3. CASE InitStatus
  <2> DEFINE b == [w EXCEPT !.stage = IF @ = "unset" THEN "Initial" ELSE @]
  <2>1. /\ b \in Backup /\ b.rv = w.rv
        /\ b.stage = IF w.stage = "unset" THEN "Initial" ELSE w.stage
    BY <1>t DEF Backup, Stages
  <2>2. toOrdinal(b.stage) >= toOrdinal(w.stage) /\ Rank(b) = Rank(w)
        /\ toOrdinal(b.stage) \in -1..5
        /\ (toOrdinal(b.stage) >= 4 => toOrdinal(w.stage) >= 4)
    BY <1>r, <2>1, OrdinalOf DEF Rank
  <2>3. "validate" \in Pcs BY DEF Pcs
  <2>4. StageAt("validate", b.stage) BY DEF StageAt
  <2> HIDE DEF b
  <2>5. CASE w.verr \/ w.res
    <3>1. /\ WriteStatus(b, "validate", "retry")
          /\ UNCHANGED <<cache, rcVars, volVars, envVars, crashes>>
      BY <1>3, <2>5 DEF InitStatus, b
    <3> QED BY <1>r, <2>1, <2>2, <2>3, <2>4, <3>1, WriteKeeps
  <2>6. CASE ~(w.verr \/ w.res)
    <3>1. Local("validate", b) /\ UNCHANGED <<envVars, faults>>
      BY <1>3, <2>6 DEF InitStatus, b
    <3>2. w' = b /\ pc' = "validate" BY <3>1 DEF Local, Continue, Goto
    <3>3. UNCHANGED <<api, watch, cache, processed, rpc, rc, apps>>
      BY <3>1 DEF Local, apiVars, storeVars, rcVars, envVars
    <3>4. "validate" \notin Locked BY DEF Locked
    <3> QED BY <2>1, <2>2, <2>4, <3>2, <3>3, <3>4, QuietKeeps
  <2> QED BY <2>5, <2>6
<1>4. CASE ValidateBackup
  <2> DEFINE u == Updated(w, "unset", "Failed")
             b == [u EXCEPT !.verr = TRUE]
  <2>1. u \in Backup /\ u.rv = w.rv /\ u.stage = w.stage
    <3>1. /\ u \in Backup /\ u.rv = w.rv
          /\ u.stage = IF toOrdinal(w.stage) < toOrdinal("unset") THEN "unset" ELSE w.stage
      BY <1>t, UpdatedType DEF Stages, States
    <3> QED BY <1>r, <3>1, OrdinalValues
  <2> HIDE DEF u
  <2>2. b \in Backup /\ b.rv = w.rv /\ b.stage = w.stage BY <2>1 DEF Backup
  <2>3. Rank(b) = Rank(w) BY <2>2 DEF Rank
  <2>4. "supported" \in Pcs /\ "supported" \notin Locked BY DEF Pcs, Locked
  <2>5. StageAt("supported", w.stage) /\ StageAt("return", w.stage) BY DEF StageAt
  <2> HIDE DEF b
  <2>6. CASE Local("supported", w) /\ UNCHANGED <<envVars, faults>>
    BY <1>t, <2>4, <2>5, <2>6, LocalKeeps DEF envVars
  <2>7. CASE /\ WriteStatus(b, "return", "drop")
             /\ UNCHANGED <<cache, rcVars, volVars, envVars, crashes>>
    BY <1>r, <2>2, <2>3, <2>5, <2>7, WriteKeeps
  <2> QED BY <1>4, <2>6, <2>7 DEF ValidateBackup, b, u
<1>5. CASE EnsureSupportedResourceList
  <2> DEFINE b == [api EXCEPT !.ann = @ \cup {"backup-resources"}]
  <2>1. b \in Backup /\ b.stage = api.stage BY <1>t DEF Backup, Annotations
  <2>2. "validated" \in Pcs /\ "validated" \notin Locked BY DEF Pcs, Locked
  <2>3. StageAt("validated", w.stage) BY DEF StageAt
  <2> HIDE DEF b
  <2>4. CASE PatchBackup(b, "validated") BY <2>1, <2>2, <2>4, PatchKeeps
  <2>5. CASE Local("validated", w) /\ UNCHANGED <<envVars, faults>>
    BY <1>t, <2>2, <2>3, <2>5, LocalKeeps DEF envVars
  <2> QED BY <1>5, <2>4, <2>5 DEF EnsureSupportedResourceList, b
<1>6. CASE Validated
  <2>1. UpdateStatus("unset", "Completed", "sync") BY <1>6 DEF Validated
  <2>2. "sync" \in Pcs /\ "Completed" \in States BY DEF Pcs, States
  <2>3. StageAt("sync", w.stage) BY DEF StageAt
  <2> QED BY <2>1, <2>2, <2>3, UpdateStateKeeps
<1>7. CASE SyncBackup
  <2>1. SyncEntry(w) \in Pcs \cup {"return"} BY DEF SyncEntry, Pcs
  <2>2. StageAt(SyncEntry(w), w.stage) BY DEF StageAt, SyncEntry
  <2>3. SyncEntry(w) \notin Locked /\ SyncEntry(w) # "toResources"
    BY DEF SyncEntry, Locked
  <2> QED BY <1>7, <1>t, <2>1, <2>2, <2>3, LocalKeeps DEF SyncBackup, envVars
<1> QED BY <1>1, <1>2, <1>3, <1>4, <1>5, <1>6, <1>7

\* The pre hook, post hook and resource steps of syncBackup keep the invariant.
LEMMA StagesKeep ==
    ASSUME IInv, TypeOK',
           \/ SyncInitial \/ PreHookProcessing \/ ExecutePreHooks \/ PreHookFailed
           \/ ReversePreHooks \/ ToVolumes \/ ExecutePostHooks \/ PostHookFailed
           \/ ToResources \/ BackupMetadata \/ BackupMetadataDone
           \/ BackupMetadataFailed \/ ResourcesSynced \/ Finish
    PROVE  IInv' /\ StageNotLowered
<1>t. w \in Backup /\ api \in Backup /\ w.rv \in Nat /\ api.rv \in Nat
  BY DEF IInv, TypeOK, Backup
<1>r. /\ Rank(w) \in Nat /\ Rank(api) \in Nat
      /\ toOrdinal(w.stage) \in -1..5 /\ toOrdinal(api.stage) \in -1..5
  BY <1>t, RankType, Zenon
<1>s. w.rv # 0 => StageAt(pc, w.stage) BY DEF IInv, WorkerStage
<1>o. /\ w.stage = "Initial" => toOrdinal(w.stage) = 0
      /\ w.stage = "PreHook" => toOrdinal(w.stage) = 1
      /\ w.stage = "PostHook" => toOrdinal(w.stage) = 3
      /\ w.stage = "Resources" => toOrdinal(w.stage) = 4
      /\ w.stage = "Finished" => toOrdinal(w.stage) = 5
  BY OrdinalOf
<1>1. CASE SyncInitial
  <2>1. UpdateStatus("PreHook", "New", "preProcessing") BY <1>1 DEF SyncInitial
  <2>2. w.rv # 0 => w.stage = "Initial" BY <1>1, <1>s DEF SyncInitial, StageAt
  <2>3. "PreHook" \in Stages /\ "New" \in States /\ "preProcessing" \in Pcs
    BY DEF Stages, States, Pcs
  <2>4. StageAt("preProcessing", "PreHook") BY DEF StageAt
  <2>5. toOrdinal("PreHook") = 1 /\ 1 \in 0..5 BY OrdinalValues
  <2>6. w.rv # 0 => toOrdinal(w.stage) = 1 - 1 /\ (1 = 4 => Released(apps))
    BY <2>2, <1>o
  <2> QED BY <2>1, <2>3, <2>4, <2>5, <2>6, UpdateStageKeeps
<1>2. CASE PreHookProcessing
  <2>1. UpdateStatus("unset", "Processing", "preExec") BY <1>2 DEF PreHookProcessing
  <2>2. w.rv # 0 => StageAt("preExec", w.stage)
    BY <1>2, <1>s DEF PreHookProcessing, StageAt
  <2>3. "preExec" \in Pcs /\ "Processing" \in States BY DEF Pcs, States
  <2> QED BY <2>1, <2>2, <2>3, UpdateStateKeeps
<1>3. CASE ExecutePreHooks
  <2>1. w.rv # 0 => /\ StageAt("toVolumes", w.stage) /\ StageAt("preFailed", w.stage)
                    /\ w.stage = "PreHook"
    BY <1>3, <1>s DEF ExecutePreHooks, StageAt
  <2>2. w.rv # 0 => api.rv = 0 \/ toOrdinal(api.stage) <= 3
    <3>1. w.rv # 0 => Rank(w) = 1 BY <1>t, <1>o, <2>1, RankType
    <3>2. w.rv # 0 /\ api.rv # 0 => Rank(api) <= Rank(w) + 1
      BY DEF IInv, WorkerAgrees
    <3> QED BY <1>t, <1>r, <3>1, <3>2, RankType
  <2>3. /\ "toVolumes" \in Pcs /\ "preFailed" \in Pcs
        /\ "toVolumes" \notin Locked /\ "preFailed" \notin Locked
    BY DEF Pcs, Locked
  <2>a. apps \in Apps BY DEF IInv, TypeOK
  <2>4. Released(apps) => Released(apps') \/ w.rv # 0 BY <1>3, <2>a, PreHooksRun, Zenon
  <2>5. Local("toVolumes", w) \/ Local("preFailed", w) BY <1>3, <2>a, PreHooksRun, Zenon
  <2> QED BY <1>t, <2>1, <2>2, <2>3, <2>4, <2>5, LocalKeeps
<1>4. CASE PreHookFailed
  <2>1. UpdateStatus("unset", "Failed", "preReverse") BY <1>4 DEF PreHookFailed
  <2>2. w.rv # 0 => StageAt("preReverse", w.stage)
    BY <1>4, <1>s DEF PreHookFailed, StageAt
  <2>3. "preReverse" \in Pcs /\ "Failed" \in States BY DEF Pcs, States
  <2> QED BY <2>1, <2>2, <2>3, UpdateStateKeeps
<1>5. CASE ReversePreHooks
  <2>a. apps \in Apps /\ RunPostHooks("return", "return") BY <1>5 DEF ReversePreHooks, IInv, TypeOK
  <2>0. Released(apps) => Released(apps') BY <2>a, PostHooksRun, Zenon
  <2>1. Local("return", w) BY <2>a, PostHooksRun, Zenon
  <2>2. StageAt("return", w.stage) /\ "return" \notin Locked BY DEF StageAt, Locked
  <2> QED BY <1>t, <2>0, <2>1, <2>2, LocalKeeps
<1>6. CASE ToVolumes
  <2>1. UpdateStatus("Volumes", "New", "volumes") BY <1>6 DEF ToVolumes
  <2>2. w.rv # 0 => w.stage = "PreHook" BY <1>6, <1>s DEF ToVolumes, StageAt
  <2>3. "Volumes" \in Stages /\ "New" \in States /\ "volumes" \in Pcs
    BY DEF Stages, States, Pcs
  <2>4. StageAt("volumes", "Volumes") BY DEF StageAt
  <2>5. toOrdinal("Volumes") = 2 /\ 2 \in 0..5 BY OrdinalValues
  <2>6. w.rv # 0 => toOrdinal(w.stage) = 2 - 1 /\ (2 = 4 => Released(apps))
    BY <2>2, <1>o
  <2> QED BY <2>1, <2>3, <2>4, <2>5, <2>6, UpdateStageKeeps
<1>7. CASE ExecutePostHooks
  <2>1. w.rv # 0 => StageAt("toResources", w.stage) /\ StageAt("postFailed", w.stage)
    BY <1>7, <1>s DEF ExecutePostHooks, StageAt
  <2>2. /\ "toResources" \in Pcs /\ "postFailed" \in Pcs
        /\ "toResources" \notin Locked /\ "postFailed" \notin Locked
    BY DEF Pcs, Locked
  <2>a. apps \in Apps /\ RunPostHooks("toResources", "postFailed")
    BY <1>7 DEF ExecutePostHooks, IInv, TypeOK
  <2>3. Released(apps) => Released(apps') BY <2>a, PostHooksRun, Zenon
  <2>4. CASE Local("toResources", w) /\ (w.rv # 0 => Released(apps'))
    BY <1>t, <2>1, <2>2, <2>3, <2>4, LocalKeeps
  <2>5. CASE Local("postFailed", w)
    BY <1>t, <2>1, <2>2, <2>3, <2>5, LocalKeeps
  <2> QED BY <2>a, <2>4, <2>5, PostHooksRun, Zenon
<1>8. CASE PostHookFailed
  <2>1. UpdateStatus("unset", "Failed", "return") BY <1>8 DEF PostHookFailed
  <2>2. StageAt("return", w.stage) /\ "Failed" \in States BY DEF StageAt, States
  <2> QED BY <2>1, <2>2, UpdateStateKeeps
<1>9. CASE ToResources
  <2>1. UpdateStatus("Resources", "New", "resources") BY <1>9 DEF ToResources
  <2>2. w.rv # 0 => w.stage = "PostHook" BY <1>9, <1>s DEF ToResources, StageAt
  <2>3. "Resources" \in Stages /\ "New" \in States /\ "resources" \in Pcs
    BY DEF Stages, States, Pcs
  <2>4. StageAt("resources", "Resources") BY DEF StageAt
  <2>5. toOrdinal("Resources") = 4 /\ 4 \in 0..5 BY OrdinalValues
  <2>6. w.rv # 0 => Released(apps) BY <1>9, Zenon DEF ToResources, IInv, ResumedAtToResources
  <2>7. w.rv # 0 => toOrdinal(w.stage) = 4 - 1 /\ (4 = 4 => Released(apps))
    BY <2>2, <2>6, <1>o
  <2> QED BY <2>1, <2>3, <2>4, <2>5, <2>7, UpdateStageKeeps
<1>10. CASE BackupMetadata
  <2> DEFINE b == [w EXCEPT !.verr = FALSE]
  <2>1. b \in Backup /\ b.rv = w.rv /\ b.stage = w.stage BY <1>t DEF Backup
  <2>2. w.rv # 0 => /\ StageAt("resSynced", w.stage) /\ StageAt("resOK", w.stage)
                    /\ StageAt("resFail", w.stage)
    BY <1>10, <1>s DEF BackupMetadata, StageAt
  <2>3. /\ "resSynced" \in Pcs /\ "resOK" \in Pcs /\ "resFail" \in Pcs
        /\ "resSynced" \notin Locked /\ "resOK" \notin Locked /\ "resFail" \notin Locked
    BY DEF Pcs, Locked
  <2> HIDE DEF b
  <2>4. /\ Local("resSynced", w) \/ Local("resOK", b) \/ Local("resFail", b)
        /\ UNCHANGED apps
    BY <1>10 DEF BackupMetadata, b
  <2> QED BY <1>t, <2>1, <2>2, <2>3, <2>4, LocalKeeps
<1>11. CASE BackupMetadataDone
  <2>1. UpdateStatus("unset", "Completed", "resSynced") BY <1>11 DEF BackupMetadataDone
  <2>2. w.rv # 0 => StageAt("resSynced", w.stage)
    BY <1>11, <1>s DEF BackupMetadataDone, StageAt
  <2>3. "resSynced" \in Pcs /\ "Completed" \in States BY DEF Pcs, States
  <2> QED BY <2>1, <2>2, <2>3, UpdateStateKeeps
<1>12. CASE BackupMetadataFailed
  <2>1. UpdateStatus("unset", "Failed", "resSynced") BY <1>12 DEF BackupMetadataFailed
  <2>2. w.rv # 0 => StageAt("resSynced", w.stage)
    BY <1>12, <1>s DEF BackupMetadataFailed, StageAt
  <2>3. "resSynced" \in Pcs /\ "Failed" \in States BY DEF Pcs, States
  <2> QED BY <2>1, <2>2, <2>3, UpdateStateKeeps
<1>13. CASE ResourcesSynced
  <2>1. CASE UpdateStatus("Finished", "New", "finished")
    <3>1. w.rv # 0 => w.stage = "Resources" BY <1>13, <1>s DEF ResourcesSynced, StageAt
    <3>2. "Finished" \in Stages /\ "New" \in States /\ "finished" \in Pcs
      BY DEF Stages, States, Pcs
    <3>3. StageAt("finished", "Finished") BY DEF StageAt
    <3>4. toOrdinal("Finished") = 5 /\ 5 \in 0..5 BY OrdinalValues
    <3>5. w.rv # 0 => toOrdinal(w.stage) = 5 - 1 /\ (5 = 4 => Released(apps))
      BY <3>1, <1>o
    <3> QED BY <2>1, <3>2, <3>3, <3>4, <3>5, UpdateStageKeeps
  <2>2. CASE Local("return", w) /\ UNCHANGED <<envVars, faults>>
    <3>1. StageAt("return", w.stage) /\ "return" \notin Locked BY DEF StageAt, Locked
    <3> QED BY <1>t, <2>2, <3>1, LocalKeeps DEF envVars
  <2> QED BY <1>13, <2>1, <2>2 DEF ResourcesSynced
<1>14. CASE Finish
  <2>1. UpdateStatus("Finished", "Completed", "return") BY <1>14 DEF Finish
  <2>2. w.rv # 0 => w.stage = "Finished" BY <1>14, <1>s DEF Finish, StageAt
  <2>3. "Finished" \in Stages /\ "Completed" \in States BY DEF Stages, States
  <2>4. toOrdinal("Finished") = 5 BY OrdinalValues
  <2>5. w.rv # 0 => toOrdinal(w.stage) = 5 /\ Rank(w) = 5
    BY <1>t, <1>o, <2>2, RankType
  <2>6. StageAt("return", Updated(w, "Finished", "Completed").stage) BY DEF StageAt
  <2>7. w.rv # 0 => /\ toOrdinal("Finished") <= Rank(w) + 1
                    /\ toOrdinal("Finished") >= 4 => toOrdinal(w.stage) >= 4 \/ Released(apps)
    BY <2>4, <2>5
  <2> QED BY <2>1, <2>3, <2>6, <2>7, UpdateKeeps
<1> QED
  BY <1>1, <1>2, <1>3, <1>4, <1>5, <1>6, <1>7, <1>8, <1>9, <1>10, <1>11, <1>12, <1>13,
     <1>14

\* The volume steps of syncBackup keep the invariant.
LEMMA VolumesKeep ==
    ASSUME IInv, TypeOK',
           \/ SyncVolumeBackup \/ CollectResources \/ TakeSnapshots \/ AnnotateNoVolume
           \/ CreateVBC \/ CreateVBCFails \/ Scheduled \/ VolumesSynced
           \/ ReverseVolumeHooks \/ AnnotateFailHooks
    PROVE  IInv' /\ StageNotLowered
<1>t. w \in Backup /\ api \in Backup /\ w.rv \in Nat /\ api.rv \in Nat
  BY DEF IInv, TypeOK, Backup
<1>r. Rank(w) \in Nat /\ toOrdinal(w.stage) \in -1..5 BY <1>t, RankType
<1>s. w.rv # 0 => StageAt(pc, w.stage) BY DEF IInv, WorkerStage
<1>p. /\ {"volSynced", "collect", "volumeGroup", "noVolume", "createVBC", "scheduled",
          "volReverse", "annFailHooks", "postExec"} \subseteq Pcs
      /\ "Completed" \in States /\ "Processing" \in States
  BY DEF Pcs, States
<1>l. StageAt("return", w.stage) /\ "return" \notin Locked BY DEF StageAt, Locked
<1>1. CASE SyncVolumeBackup
  <2>1. w.rv # 0 => StageAt("volSynced", w.stage) /\ StageAt("collect", w.stage)
    BY <1>1, <1>s DEF SyncVolumeBackup, StageAt
  <2>2. "volSynced" \notin Locked /\ "collect" \notin Locked BY DEF Locked
  <2>3. CASE UpdateStatus("unset", "Completed", "volSynced")
    BY <1>p, <2>1, <2>3, UpdateStateKeeps
  <2>4. CASE (Local("volSynced", w) \/ Local("collect", w)) /\ UNCHANGED apps
    BY <1>t, <1>p, <2>1, <2>2, <2>4, LocalKeeps
  <2> QED BY <1>1, <2>3, <2>4 DEF SyncVolumeBackup, envVars
<1>2. CASE CollectResources
  <2> DEFINE b == [w EXCEPT !.res = TRUE]
  <2>1. b \in Backup /\ b.rv = w.rv /\ b.stage = w.stage BY <1>t DEF Backup
  <2>2. Rank(b) = Rank(w) BY <2>1 DEF Rank
  <2>3. w.rv # 0 => StageAt("volumeGroup", w.stage)
    BY <1>2, <1>s DEF CollectResources, StageAt
  <2> HIDE DEF b
  <2>4. CASE /\ WriteStatus(b, "volumeGroup", "retry")
             /\ UNCHANGED <<cache, rcVars, volVars, envVars, crashes>>
    BY <1>r, <1>p, <2>1, <2>2, <2>3, <2>4, WriteKeeps
  <2> QED BY <1>2, <2>4, CallFailsKeeps DEF CollectResources, b
<1>3. CASE TakeSnapshots
  <2>1. w.rv # 0 => StageAt("noVolume", w.stage) /\ StageAt("createVBC", w.stage)
    BY <1>3, <1>s DEF TakeSnapshots, StageAt
  <2>2. pc \in Locked BY <1>3 DEF TakeSnapshots, Locked
  <2>3. CASE Local("noVolume", w) /\ UNCHANGED <<envVars, faults>>
    BY <1>t, <1>p, <2>1, <2>2, <2>3, LocalKeeps DEF envVars
  <2>4. CASE /\ Goto("createVBC", w)
             /\ UNCHANGED <<apiVars, cache, storeVars, rcVars, envVars>>
    <3>1. w' = w /\ pc' = "createVBC" BY <2>4 DEF Goto
    <3>2. UNCHANGED <<api, watch, cache, processed, rpc, rc, apps>>
      BY <2>4 DEF apiVars, storeVars, rcVars, envVars
    <3> QED BY <1>r, <2>1, <2>2, <3>1, <3>2, QuietKeeps
  <2>5. CASE ReturnErr /\ UNCHANGED <<apiVars, cache, storeVars, rcVars, envVars>>
    <3>1. w'.rv = 0 BY <2>5, NoBackupType DEF ReturnErr
    <3>2. UNCHANGED <<api, watch, cache, processed, rpc, rc, apps>>
      BY <2>5 DEF apiVars, storeVars, rcVars, envVars
    <3> QED BY <3>1, <3>2, QuietKeeps
  <2> QED BY <1>3, <2>3, <2>4, <2>5, CallFailsKeeps DEF TakeSnapshots
<1>4. CASE AnnotateNoVolume
  <2>1. "volume-backup-completed" \in Annotations BY DEF Annotations
  <2> QED BY <1>4, <1>p, <2>1, AnnotateKeeps DEF AnnotateNoVolume
<1>5. CASE CreateVBC
  <2>u. UNCHANGED <<api, watch, cache, processed, rpc, rc, apps>>
    BY <1>5 DEF CreateVBC, apiVars, storeVars, rcVars, envVars
  <2>1. CASE Goto("scheduled", w) \/ Goto("createVBC", w)
    <3>1. w' = w /\ pc' \in {"scheduled", "createVBC"} BY <2>1 DEF Goto
    <3>2. w.rv # 0 => StageAt(pc', w.stage) BY <1>5, <1>s, <3>1 DEF CreateVBC, StageAt
    <3>3. pc \in Locked BY <1>5 DEF CreateVBC, Locked
    <3> QED BY <1>r, <2>u, <3>1, <3>2, <3>3, QuietKeeps
  <2>2. CASE ReturnErr
    <3>1. w'.rv = 0 BY <2>2, NoBackupType DEF ReturnErr
    <3> QED BY <2>u, <3>1, QuietKeeps
  <2> QED BY <1>5, <2>1, <2>2 DEF CreateVBC
<1>6. CASE CreateVBCFails BY <1>6, CallFailsKeeps DEF CreateVBCFails
<1>7. CASE Scheduled
  <2>1. UpdateStatus("unset", "Processing", "volSynced") BY <1>7 DEF Scheduled
  <2>2. w.rv # 0 => StageAt("volSynced", w.stage) BY <1>7, <1>s DEF Scheduled, StageAt
  <2> QED BY <1>p, <2>1, <2>2, UpdateStateKeeps
<1>8. CASE VolumesSynced
  <2>1. w.rv # 0 => StageAt("volReverse", w.stage) /\ w.stage = "Volumes"
    BY <1>8, <1>s DEF VolumesSynced, StageAt
  <2>2. CASE UpdateStatus("PostHook", "Processing", "postExec")
    <3>1. "PostHook" \in Stages BY DEF Stages
    <3>2. StageAt("postExec", "PostHook") BY DEF StageAt
    <3>3. toOrdinal("PostHook") = 3 /\ 3 \in 0..5 BY OrdinalValues
    <3>4. w.rv # 0 => toOrdinal(w.stage) = 2 BY <2>1, OrdinalOf
    <3>5. w.rv # 0 => toOrdinal(w.stage) = 3 - 1 /\ (3 = 4 => Released(apps)) BY <3>4
    <3> QED BY <1>p, <2>2, <3>1, <3>2, <3>3, <3>5, UpdateStageKeeps
  <2>3. CASE (Local("volReverse", w) \/ Local("return", w)) /\ UNCHANGED apps
    <3>1. "volReverse" \notin Locked BY DEF Locked
    <3> QED BY <1>t, <1>p, <1>l, <2>1, <2>3, <3>1, LocalKeeps
  <2> QED BY <1>8, <2>2, <2>3 DEF VolumesSynced, envVars
<1>9. CASE ReverseVolumeHooks
  <2>a. apps \in Apps /\ RunPostHooks("annFailHooks", "annFailHooks") BY <1>9 DEF ReverseVolumeHooks, IInv, TypeOK
  <2>0. Released(apps) => Released(apps') BY <2>a, PostHooksRun, Zenon
  <2>1. Local("annFailHooks", w) BY <2>a, PostHooksRun, Zenon
  <2>2. w.rv # 0 => StageAt("annFailHooks", w.stage)
    BY <1>9, <1>s DEF ReverseVolumeHooks, StageAt
  <2>3. "annFailHooks" \notin Locked BY DEF Locked
  <2> QED BY <1>t, <1>p, <2>0, <2>1, <2>2, <2>3, LocalKeeps
<1>10. CASE AnnotateFailHooks
  <2>1. "fail-hooks-completed" \in Annotations BY DEF Annotations
  <2> QED BY <1>10, <2>1, AnnotateKeeps DEF AnnotateFailHooks
<1> QED
  BY <1>1, <1>2, <1>3, <1>4, <1>5, <1>6, <1>7, <1>8, <1>9, <1>10

\* The steps of deleteBackup keep the invariant.
LEMMA DeleteKeeps ==
    ASSUME IInv, TypeOK',
           \/ RemoveVolumeBackup \/ ListVolumeBackup \/ DeleteMetadataBackup
           \/ RemoveFinalizer \/ RemoveFinalizerPanics
    PROVE  IInv' /\ StageNotLowered
<1>t. w \in Backup /\ toOrdinal(w.stage) \in -1..5 BY RankType DEF IInv, TypeOK
<1>p. /\ {"delList", "delMeta", "delFinalizer"} \subseteq Pcs
      /\ "delList" \notin Locked /\ "delMeta" \notin Locked
      /\ "delFinalizer" \notin Locked /\ "return" \notin Locked
  BY DEF Pcs, Locked
<1>s. /\ StageAt("delList", w.stage) /\ StageAt("delMeta", w.stage)
      /\ StageAt("delFinalizer", w.stage) /\ StageAt("return", w.stage)
  BY DEF StageAt
<1>1. CASE RemoveVolumeBackup
  <2>1. UNCHANGED <<api, watch, cache, processed, rpc, rc, apps>>
    BY <1>1 DEF RemoveVolumeBackup, apiVars, storeVars, rcVars, envVars
  <2>2. CASE ReturnErr
    <3>1. w'.rv = 0 BY <2>2, NoBackupType DEF ReturnErr
    <3> QED BY <2>1, <3>1, QuietKeeps
  <2>3. CASE Goto("delList", w)
    <3>1. w' = w /\ pc' = "delList" BY <2>3 DEF Goto
    <3> QED BY <1>t, <1>p, <1>s, <2>1, <3>1, QuietKeeps
  <2> QED BY <1>1, <2>2, <2>3 DEF RemoveVolumeBackup
<1>2. CASE ListVolumeBackup
  BY <1>2, <1>t, <1>p, <1>s, LocalKeeps, CallFailsKeeps DEF ListVolumeBackup, envVars
<1>3. CASE DeleteMetadataBackup
  <2>1. CallFails \/ (Local("delFinalizer", w) /\ UNCHANGED apps)
    BY <1>3, Zenon DEF DeleteMetadataBackup, envVars
  <2>2. "delFinalizer" # "toResources" OBVIOUS
  <2> QED BY <1>t, <1>p, <1>s, <2>1, <2>2, LocalKeeps, CallFailsKeeps
<1>4. CASE RemoveFinalizer
  <2>1. w'.rv = 0 BY <1>4, NoBackupType DEF RemoveFinalizer, Return
  <2> QED BY <1>4, <2>1, RemoveKeeps DEF RemoveFinalizer, rcVars, envVars
<1>5. CASE RemoveFinalizerPanics
  BY <1>5, RestartKeeps DEF RemoveFinalizerPanics
<1> QED BY <1>1, <1>2, <1>3, <1>4, <1>5

\* The steps of the reconciler keep the invariant: its failure write succeeds only
\* from the server's own object, its annotations leave the stage alone.
LEMMA ReconcilerKeeps ==
    ASSUME IInv, TypeOK', Reconciler
    PROVE  IInv' /\ StageNotLowered
<1>t. /\ api \in Backup /\ rc \in Backup /\ cache \in Backup /\ watch \in Seq(Backup)
      /\ api.rv \in Nat /\ rc.rv \in Nat
      /\ toOrdinal(w.stage) \in -1..5 /\ toOrdinal(api.stage) \in -1..5
  BY RankType DEF IInv, TypeOK, Backup
<1>q. ASSUME UNCHANGED <<apiVars, cache, storeVars, workerVars, envVars>>,
             rc' = NoBackup \/ rc' = rc \/ rc' = cache,
             ReconcilerHolds'
      PROVE  IInv' /\ StageNotLowered
  <2>u. UNCHANGED <<api, watch, cache, processed, pc, w, apps>>
    BY <1>q DEF apiVars, storeVars, workerVars, envVars
  <2>1. Copies' = Copies /\ cache \in Copies BY <2>u DEF Copies
  <2>2. CopiesAgree'
    <3>1. api.rv # 0 => Agrees(NoBackup)
      BY <1>t, NoBackupType DEF Agrees
    <3> QED BY <1>q, <2>u, <2>1, <3>1 DEF IInv, CopiesAgree, Agrees
  <2>3. WorkerAgrees' BY <2>u DEF IInv, WorkerAgrees, Rank
  <2>4. BoundedLag' BY <2>u, <2>1 DEF IInv, BoundedLag, Lags, Rank
  <2>5. FreshCopies' BY <2>u, <2>1 DEF IInv, FreshCopies, Fresh, Rank
  <2>6. WorkerStage' /\ ResumedAtToResources'
    BY <2>u DEF IInv, WorkerStage, ResumedAtToResources
  <2>7. ResumedBeforeResources' /\ RemovedIsEmpty'
    BY <2>u DEF IInv, ResumedBeforeResources, RemovedIsEmpty
  <2>8. StageNotLowered BY <1>t, <2>u DEF StageNotLowered
  <2> QED BY <1>q, <2>2, <2>3, <2>4, <2>5, <2>6, <2>7, <2>8 DEF IInv
<1>1. CASE RcStart \/ RcCheckDeleted
  <2>1. ReconcilerHolds'
    BY <1>1 DEF RcStart, RcCheckDeleted, RcGoto, ReconcilerHolds, IInv
  <2> QED BY <1>1, <1>q, <2>1 DEF RcStart, RcCheckDeleted, RcGoto
<1>2. CASE RcList
  <2>1. ReconcilerHolds'
    BY <1>2 DEF RcList, RcGoto, RcVerdicts, ReconcilerHolds, IInv
  <2> QED BY <1>2, <1>q, <2>1 DEF RcList, RcGoto
<1>3. ASSUME NEW b \in Backup, b.stage = api.stage, api.rv # 0, Commit(b),
             RcGoto("idle", NoBackup)
      PROVE  IInv' /\ StageNotLowered
  <2>1. Stored /\ api'.stage = api.stage BY <1>t, <1>3, CommitStores
  <2>2. UNCHANGED <<cache, processed, apps, pc, w>> /\ rpc' = "idle" /\ rc' = NoBackup
    BY <1>3 DEF RcGoto, storeVars, envVars, workerVars
  <2> QED BY <1>3, <2>1, <2>2, SameStageKeeps
<1>4. ASSUME RcGoto("idle", NoBackup), UNCHANGED apiVars
      PROVE  IInv' /\ StageNotLowered
  BY <1>4, <1>q DEF RcGoto, ReconcilerHolds
<1>5. CASE RcUpdateFailure
  <2> DEFINE b == [StatusOf(rc) EXCEPT !.state = "Failed"]
  <2>1. StatusOf(rc) \in Backup /\ StatusOf(rc).stage = rc.stage
    BY <1>t, StatusOfType
  <2>2. b \in Backup /\ b.stage = rc.stage BY <2>1 DEF Backup, States
  <2> HIDE DEF b
  <2>3. CASE rc.rv = api.rv /\ Commit(b)
    <3>1. api.rv # 0 BY <1>5, <2>3 DEF RcUpdateFailure, IInv, ReconcilerHolds
    <3>2. rc = api BY <2>3, <3>1 DEF IInv, CopiesAgree, Agrees
    <3> QED BY <1>5, <2>2, <2>3, <3>1, <3>2, <1>3 DEF RcUpdateFailure
  <2>4. CASE UNCHANGED apiVars BY <1>5, <1>4, <2>4 DEF RcUpdateFailure
  <2> QED BY <1>5, <2>3, <2>4 DEF RcUpdateFailure, b
<1>6. ASSUME NEW at, NEW a \in Annotations, RcAnnotate(at, a)
      PROVE  IInv' /\ StageNotLowered
  <2> DEFINE b == [api EXCEPT !.ann = @ \cup {a}]
  <2>1. b \in Backup /\ b.stage = api.stage BY <1>t DEF Backup
  <2> HIDE DEF b
  <2>2. CASE api.rv # 0 /\ Commit(b) BY <1>3, <1>6, <2>1, <2>2 DEF RcAnnotate
  <2>3. CASE UNCHANGED apiVars BY <1>4, <1>6, <2>3 DEF RcAnnotate
  <2> QED BY <1>6, <2>2, <2>3 DEF RcAnnotate, b
<1> QED
  BY <1>1, <1>2, <1>5, <1>6 DEF Reconciler, Annotations

\* The informer, the resync, users, providers and crashes keep the invariant.
LEMMA EnvironmentKeeps ==
    ASSUME IInv, TypeOK',
           \/ Informer \/ ReSync \/ UserDelete \/ UserTouch
           \/ ProviderFinishes \/ ProviderDeletes \/ ProviderRemoves \/ Crash
           \/ UNCHANGED vars
    PROVE  IInv' /\ StageNotLowered
<1>t. /\ api \in Backup /\ watch \in Seq(Backup) /\ api.rv \in Nat
      /\ toOrdinal(w.stage) \in -1..5 /\ toOrdinal(api.stage) \in -1..5
  BY RankType DEF IInv, TypeOK, Backup
<1>q. ASSUME UNCHANGED <<apiVars, cache, storeVars, workerVars, rcVars, envVars>>
      PROVE  IInv' /\ StageNotLowered
  <2>1. UNCHANGED <<api, watch, cache, processed, rpc, rc, pc, w, apps>>
    BY <1>q DEF apiVars, storeVars, workerVars, rcVars, envVars
  <2>2. w.rv # 0 => StageAt(pc, w.stage) BY DEF IInv, WorkerStage
  <2>3. w.rv # 0 /\ pc = "toResources" => Released(apps)
    BY Zenon DEF IInv, ResumedAtToResources
  <2> QED BY <1>t, <2>1, <2>2, <2>3, QuietKeeps
<1>1. CASE Informer
  <2>u. UNCHANGED <<api, processed, pc, w, rpc, rc, apps>>
    BY <1>1 DEF Informer, storeVars, workerVars, rcVars, envVars
  <2>1. Copies' \subseteq Copies
    <3>0. watch # <<>> /\ cache' = Head(watch) /\ watch' = Tail(watch)
      BY <1>1 DEF Informer
    <3> SUFFICES ASSUME NEW c \in Copies' PROVE \E i \in DOMAIN watch : c = watch[i]
      BY DEF Copies
    <3>1. CASE c = cache'
      <4>1. 1 \in DOMAIN watch /\ c = watch[1] BY <1>t, <3>0, <3>1
      <4> QED BY <4>1
    <3>2. ASSUME NEW i \in DOMAIN watch', c = watch'[i]
          PROVE  \E j \in DOMAIN watch : c = watch[j]
      <4>1. i + 1 \in DOMAIN watch /\ c = watch[i + 1] BY <1>t, <3>0, <3>2
      <4> QED BY <4>1
    <3> QED BY <3>1, <3>2 DEF Copies
  <2>2. CopiesAgree' BY <2>u, <2>1 DEF IInv, CopiesAgree, Agrees
  <2>3. WorkerAgrees' BY <2>u DEF IInv, WorkerAgrees, Rank
  <2>4. BoundedLag' BY <2>u, <2>1 DEF IInv, BoundedLag, Lags, Rank
  <2>5. FreshCopies' BY <2>u, <2>1 DEF IInv, FreshCopies, Fresh, Rank
  <2>6. WorkerStage' /\ ResumedAtToResources' /\ ReconcilerHolds'
    BY <2>u DEF IInv, WorkerStage, ResumedAtToResources, ReconcilerHolds
  <2>7. ResumedBeforeResources' /\ RemovedIsEmpty'
    BY <2>u DEF IInv, ResumedBeforeResources, RemovedIsEmpty
  <2>8. StageNotLowered BY <1>t, <2>u DEF StageNotLowered
  <2> QED BY <2>2, <2>3, <2>4, <2>5, <2>6, <2>7, <2>8 DEF IInv
<1>2. CASE ReSync BY <1>2, <1>q DEF ReSync
<1>3. CASE UserDelete
  <2> DEFINE b == [api EXCEPT !.del = TRUE]
  <2>1. b \in Backup /\ b.stage = api.stage BY <1>t DEF Backup
  <2> HIDE DEF b
  <2>u. UNCHANGED <<cache, processed, pc, w, rpc, rc, apps>> /\ api.rv # 0
    BY <1>3 DEF UserDelete, storeVars, workerVars, rcVars, envVars
  <2>2. CASE Remove BY <2>u, <2>2, RemoveKeeps
  <2>3. CASE Commit(b)
    <3>1. Stored /\ api'.stage = api.stage BY <1>t, <2>1, <2>3, CommitStores
    <3> QED BY <2>u, <3>1, SameStageKeeps
  <2> QED BY <1>3, <2>2, <2>3 DEF UserDelete, b
<1>4. CASE UserTouch
  <2>u. UNCHANGED <<cache, processed, pc, w, rpc, rc, apps>> /\ api.rv # 0
    BY <1>4 DEF UserTouch, storeVars, workerVars, rcVars, envVars
  <2>1. api' = [api EXCEPT !.rv = api.rv + 1] /\ watch' = Append(watch, api')
    BY <1>4 DEF UserTouch
  <2>2. api'.rv = api.rv + 1 /\ api'.stage = api.stage BY <1>t, <2>1, NextRevision
  <2> QED BY <2>u, <2>1, <2>2, SameStageKeeps DEF Stored
<1>5. CASE ProviderFinishes BY <1>5, <1>q DEF ProviderFinishes
<1>6. CASE ProviderDeletes BY <1>6, <1>q DEF ProviderDeletes
<1>7. CASE ProviderRemoves BY <1>7, <1>q DEF ProviderRemoves
<1>8. CASE Crash BY <1>8, RestartKeeps DEF Crash
<1>9. CASE UNCHANGED vars
  BY <1>9, <1>q DEF vars, apiVars, storeVars, workerVars, rcVars, envVars
<1> QED BY <1>1, <1>2, <1>3, <1>4, <1>5, <1>6, <1>7, <1>8, <1>9

\* Every step keeps the invariant and does not lower the stage.
LEMMA NextKeeps ==
    ASSUME IInv, [Next]_vars
    PROVE  IInv' /\ StageNotLowered
<1>1. TypeOK' BY NextType DEF IInv
<1>2. CASE Worker
  BY <1>1, <1>2, ProcessKeeps, StagesKeep, VolumesKeep, DeleteKeeps DEF Worker
<1>3. CASE Reconciler BY <1>1, <1>3, ReconcilerKeeps
<1> QED BY <1>1, <1>2, <1>3, EnvironmentKeeps DEF Next

\* The invariant holds initially.
LEMMA InitKeeps ==
    ASSUME Init
    PROVE  IInv
<1>1. TypeOK BY InitType
<1>2. /\ api.rv = 1 /\ api.stage = "unset" /\ api \in Backup /\ NoBackup.rv = 0
      /\ NoBackup.stage = "unset"
  BY <1>1, NoBackupType DEF Init, TypeOK, Backup
<1>3. Copies = {NoBackup, api} BY DEF Init, Copies
<1>4. Rank(api) = 0 /\ Rank(NoBackup) = 0
  BY <1>2, NoBackupType, RankType, OrdinalOf
<1>5. w = NoBackup /\ rc = NoBackup /\ processed = 0 /\ rpc = "idle" /\ Released(apps)
  BY Zenon DEF Init, Released
<1>6. CopiesAgree BY <1>2, <1>3, <1>5 DEF CopiesAgree, Agrees
<1>7. WorkerAgrees BY <1>2, <1>4, <1>5 DEF WorkerAgrees
<1>8. BoundedLag /\ FreshCopies BY <1>2, <1>3, <1>4, <1>5 DEF BoundedLag, Lags, FreshCopies
<1>9. WorkerStage /\ ReconcilerHolds /\ RemovedIsEmpty
  BY <1>2, <1>5 DEF WorkerStage, ReconcilerHolds, RemovedIsEmpty
<1>10. ResumedAtToResources /\ ResumedBeforeResources
  BY <1>5, Zenon DEF ResumedAtToResources, ResumedBeforeResources
<1> QED BY <1>1, <1>6, <1>7, <1>8, <1>9, <1>10 DEF IInv

\* The inductive invariant: copies of the object agree with the server at equal
\* revisions, and the processed store lets through only copies that are at most
\* one stage behind.
THEOREM Inductive == Spec => []IInv
<1>1. Init => IInv BY InitKeeps
<1>2. IInv /\ [Next]_vars => IInv' BY NextKeeps
<1> QED BY <1>1, <1>2, PTL DEF Spec

\* The stage of a Backup never goes back, whatever stale copies the worker and
\* the reconciler act on, however calls fail and the process crashes.
THEOREM StageNeverLowered == Spec => StageMonotone
<1>1. IInv /\ [Next]_vars => [StageNotLowered]_vars
  BY NextKeeps
<1> QED BY <1>1, Inductive, PTL DEF Spec, StageMonotone

\* Once the object has reached the Resources stage a successful run of the post hooks has
\* released the applications, except for what it passed over, and no pre hook has run since,
\* not even from a stale copy.
THEOREM Resumes == Spec => []ResumedBeforeResources
<1>1. IInv => ResumedBeforeResources BY DEF IInv
<1> QED BY <1>1, Inductive, PTL
=============================================================================
