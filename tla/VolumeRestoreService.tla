-------------------------- MODULE VolumeRestoreService --------------------------
(***************************************************************************)
(* The volume restore controller of a volume provider's service: one       *)
(* VolumeRestoreContent (VRC) in the API server, the informer, the work    *)
(* queue and its worker, which has the driver create the volumes, and the  *)
(* operation goroutine, which polls the driver and records the progress.   *)
(*                                                                         *)
(* It differs from VolumeBackupService where the code does: the first      *)
(* status is written under the optimistic lock, an unavailable driver is   *)
(* an error, there is no phase Deleting, only a VRC in progress or         *)
(* annotated for cleanup has its volumes deleted, and a failed patch of    *)
(* the operation ends the process.  The provider a VRC names is never      *)
(* compared with the service's own: one provider's service is modelled.    *)
(***************************************************************************)
EXTENDS Integers, Sequences, FiniteSets

CONSTANTS
    Volumes,         \* the volumes of the VRC
    Full,            \* the progress of a restored volume (100 in the code)
    MaxStarts,       \* bound: CreateVolumeFromBackup calls the driver carries out
    MaxRetry,        \* defaultMaxRetry of the generic controller
    MaxDisturbed,    \* bound: failed calls and crashes together
    MaxPeriods,      \* bound: progress timeouts that elapse
    InformerLags     \* may an event take longer than the poll interval?

ASSUME ServiceAssumption ==
    /\ Full \in Nat \ {0}
    /\ MaxStarts \in Nat /\ MaxRetry \in Nat /\ MaxDisturbed \in Nat /\ MaxPeriods \in Nat
    /\ InformerLags \in BOOLEAN

VARIABLES
    api,        \* the VRC in the API server; NoVRC when there is none
    watch,      \* versions not yet delivered to the informer
    cache,      \* the lister's copy
    queued,     \* is the key in the work queue?
    requeues,   \* NumRequeues of the key
    processed,  \* revision kept for the key by the processedVRC store, 0: none
    pc,         \* next call of the worker
    w,          \* the worker's copy
    wnew,       \* the status the worker is about to write
    opc,        \* next call of the operation; "none": no operation is registered
    o,          \* the operation's copy
    onew,       \* the status the operation is about to write
    due,        \* revision of the VRC when the operation's ticker was armed
    starts,     \* driver runs started so far
    live,       \* driver runs whose volumes exist
    progress,   \* progress of every run's volumes at the driver
    clock,      \* progress timeouts elapsed
    faults,     \* calls that failed so far
    crashes     \* crashes so far

apiVars    == <<api, watch>>
queueVars  == <<queued, requeues>>
workerVars == <<pc, w, wnew>>
opVars     == <<opc, o, onew, due>>
driverVars == <<starts, live, progress>>
vars == <<api, watch, cache, queued, requeues, processed, pc, w, wnew, opc, o, onew,
          due, starts, live, progress, clock, faults, crashes>>

-----------------------------------------------------------------------------
(* Objects *)

Phases == {"unset", "New", "InProgress", "Completed", "Failed"}
Runs == 1..MaxStarts

\* status.RestoreState: the run its handles belong to (0: the list is empty), the
\* progress per volume and the timeout period of the latest LastProgressUpdate.
RestoreState == [run: 0..MaxStarts, prog: [Volumes -> 0..Full], stamp: 0..MaxPeriods]
Untouched == [v \in Volumes |-> 0]
NoState == [run |-> 0, prog |-> Untouched, stamp |-> 0]

Status == [phase: Phases, rs: RestoreState]
NoStatus == [phase |-> "unset", rs |-> NoState]

\* clean: annotated for the cleanup of its volumes
VRC == [rv: Nat, st: Status, fin: BOOLEAN, clean: BOOLEAN, del: BOOLEAN]
NoVRC == [rv |-> 0, st |-> NoStatus, fin |-> FALSE, clean |-> FALSE, del |-> FALSE]

Pcs == {"idle", "finalizer", "init", "switch", "create", "createFailed", "created", "run",
        "cancel", "delFinalizer"}
OPcs == {"none", "tick", "stat", "update", "success", "failure", "complete", "fail", "exit"}

Init ==
    /\ api = [NoVRC EXCEPT !.rv = 1]
    /\ watch = <<api>>
    /\ cache = NoVRC
    /\ queued = FALSE /\ requeues = 0
    /\ processed = 0
    /\ pc = "idle" /\ w = NoVRC /\ wnew = NoStatus
    /\ opc = "none" /\ o = NoVRC /\ onew = NoStatus /\ due = 0
    /\ starts = 0 /\ live = {}
    /\ progress = [r \in Runs |-> Untouched]
    /\ clock = 0 /\ faults = 0 /\ crashes = 0

-----------------------------------------------------------------------------
(* API server, store and work queue primitives *)

\* Store a version of the object; a write that changes nothing has no event.
Commit(b) ==
    IF b = api THEN UNCHANGED apiVars
    ELSE LET new == [b EXCEPT !.rv = api.rv + 1] IN
         api' = new /\ watch' = Append(watch, new)

Remove == api' = NoVRC /\ watch' = Append(watch, NoVRC)

\* patchRestoreStatus: a field in which the two copies agree is not in the patch.
Patched(old, new) ==
    [api EXCEPT !.st.phase = IF new.phase # old.phase THEN new.phase ELSE @,
                !.st.rs    = IF new.rs # old.rs THEN new.rs ELSE @]

StoreRevisionUpdate(rv) == processed' = IF processed > rv THEN processed ELSE rv

Fault == faults + crashes < MaxDisturbed /\ faults' = faults + 1

Goto(next, b, st) == pc' = next /\ w' = b /\ wnew' = st /\ UNCHANGED queueVars

Idle == pc' = "idle" /\ w' = NoVRC /\ wnew' = NoStatus

Return == Idle /\ requeues' = 0 /\ UNCHANGED queued

ReturnErr ==
    /\ Idle
    /\ IF requeues < MaxRetry
       THEN requeues' = requeues + 1 /\ queued' = TRUE
       ELSE requeues' = 0 /\ UNCHANGED queued

\* A write of the worker that stores b. A failed call may have been carried out.
WorkerWrite(b, next) ==
    /\ \/ /\ api.rv # 0
          /\ Commit(b)
          /\ StoreRevisionUpdate(api'.rv)
          /\ IF next = "return" THEN Return ELSE Goto(next, api', api'.st)
          /\ UNCHANGED faults
       \/ /\ \/ api.rv = 0 /\ UNCHANGED <<apiVars, faults>>
             \/ api.rv # 0 /\ Fault /\ (UNCHANGED apiVars \/ Commit(b))
          /\ ReturnErr
          /\ UNCHANGED processed
    /\ UNCHANGED <<cache, opVars, driverVars, clock, crashes>>

\* A step of the worker without a write.
Local(next) ==
    /\ CASE next = "return" -> Return
         [] next = "error"  -> ReturnErr
         [] OTHER           -> Goto(next, w, w.st)
    /\ UNCHANGED <<apiVars, cache, processed, opVars, driverVars, clock, faults, crashes>>

-----------------------------------------------------------------------------
(* processQueue *)

\* Take the key, read the lister (not found is an error here), drop what is older than
\* the stored revision.
ProcessQueue ==
    /\ pc = "idle" /\ queued
    /\ IF cache.rv = 0
       THEN /\ IF requeues < MaxRetry
               THEN requeues' = requeues + 1 /\ UNCHANGED queued
               ELSE requeues' = 0 /\ queued' = FALSE
            /\ UNCHANGED <<workerVars, processed>>
       ELSE /\ queued' = FALSE
            /\ IF processed > cache.rv
               THEN requeues' = 0 /\ UNCHANGED <<workerVars, processed>>
               ELSE /\ processed' = cache.rv
                    /\ pc' = IF cache.del THEN "cancel"
                             ELSE IF cache.st.phase \in {"unset", "New"} THEN "finalizer"
                             ELSE "switch"
                    /\ w' = cache /\ wnew' = cache.st
                    /\ UNCHANGED requeues
    /\ UNCHANGED <<apiVars, cache, opVars, driverVars, clock, faults, crashes>>

\* Mutant: the finalizer is left for later.
SetFinalizerSkipped == pc = "finalizer" /\ Local("init")

\* restoreInitialize, first half
SetFinalizer == pc = "finalizer" /\ WorkerWrite([api EXCEPT !.fin = TRUE], "init")

\* restoreInitialize, second half: UpdateStatus of the patched copy, under its rv
UpdateStatus ==
    /\ pc = "init"
    /\ \/ /\ w.rv = api.rv
          /\ WorkerWrite([api EXCEPT !.st.phase = IF @ = "unset" THEN "New" ELSE @], "switch")
       \/ w.rv # api.rv /\ Local("error")

\* Mutant: a VRC in progress is taken for a new one.
ProcessVolumeRestoreAgain ==
    /\ pc = "switch"
    /\ Local(IF w.st.phase \in {"unset", "New", "InProgress"} THEN "create" ELSE "return")

\* The switch of processVolumeRestore
ProcessVolumeRestore ==
    /\ pc = "switch"
    /\ Local(CASE w.st.phase \in {"unset", "New"} -> "create"
               [] w.st.phase = "InProgress"       -> "run"
               [] OTHER                           -> "return")

\* handleVolumeRestore, the request carried out by the driver
CreateVolumeFromBackup ==
    /\ pc = "create"
    /\ starts < MaxStarts
    /\ starts' = starts + 1
    /\ live' = live \cup {starts'}
    /\ \/ /\ Goto("created", w, [phase |-> "InProgress",
                                 rs |-> [run |-> starts', prog |-> Untouched, stamp |-> clock]])
          /\ UNCHANGED faults
       \/ Fault /\ (ReturnErr \/ Goto("createFailed", w, w.st))
    /\ UNCHANGED <<apiVars, cache, processed, opVars, progress, clock, crashes>>

\* The driver is unavailable or answers with errors.
CreateVolumeFails ==
    /\ pc = "create"
    /\ Fault
    /\ ReturnErr \/ Goto("createFailed", w, w.st)
    /\ UNCHANGED <<apiVars, cache, processed, opVars, driverVars, clock, crashes>>

\* updateStatusWithFailure; the handler returns the error of the patch only.
CreateFailed ==
    pc = "createFailed" /\ WorkerWrite(Patched(w.st, [w.st EXCEPT !.phase = "Failed"]), "return")

Created == pc = "created" /\ WorkerWrite(Patched(w.st, wnew), "run")

\* operationManager.Run: nothing happens while an operation of that name exists.
RunOperation ==
    /\ pc = "run"
    /\ IF opc = "none"
       THEN opc' = "tick" /\ due' = api.rv /\ UNCHANGED <<o, onew>>
       ELSE UNCHANGED opVars
    /\ Return
    /\ UNCHANGED <<apiVars, cache, processed, driverVars, clock, faults, crashes>>

-----------------------------------------------------------------------------
(* processDeleteVolumeRestore *)

needCancel(b) == b.st.phase = "InProgress" \/ b.clean

CancelRestore ==
    /\ pc = "cancel"
    /\ \/ ~needCancel(w) /\ Local("delFinalizer")
       \/ /\ needCancel(w)
          /\ \/ live' = live \ {w.st.rs.run} /\ Goto("delFinalizer", w, w.st) /\ UNCHANGED faults
             \/ Fault /\ live' \in {live, live \ {w.st.rs.run}} /\ ReturnErr
          /\ UNCHANGED <<apiVars, cache, processed, opVars, starts, progress, clock, crashes>>

\* The finalizer, then StoreClean
RemoveFinalizer ==
    /\ pc = "delFinalizer"
    /\ \/ /\ api.rv # 0
          /\ Remove
          /\ processed' = 0
          /\ Return
          /\ UNCHANGED faults
       \/ /\ \/ api.rv = 0 /\ UNCHANGED <<apiVars, faults>>
             \/ api.rv # 0 /\ Fault /\ (UNCHANGED apiVars \/ Remove)
          /\ ReturnErr
          /\ UNCHANGED processed
    /\ UNCHANGED <<cache, opVars, driverVars, clock, crashes>>

Worker ==
    \/ ProcessQueue \/ SetFinalizer \/ UpdateStatus \/ ProcessVolumeRestore
    \/ CreateVolumeFromBackup \/ CreateVolumeFails \/ CreateFailed \/ Created \/ RunOperation
    \/ CancelRestore \/ RemoveFinalizer

-----------------------------------------------------------------------------
(* The operation, with the handlers of the restore progress context *)

OpGoto(next, b, st) ==
    /\ opc' = next /\ o' = b /\ onew' = st
    /\ UNCHANGED <<cache, queueVars, workerVars, driverVars, clock, crashes>>

skipRestoreProgressProcessing(b) == b.del \/ b.st.phase # "InProgress"

\* processRestoreProgress reads the lister. Unless the informer lags, what was written
\* before the poll interval began has arrived.
OpTick ==
    /\ opc = "tick"
    /\ InformerLags \/ cache.rv = 0 \/ cache.rv >= due
    /\ IF cache.rv = 0 \/ skipRestoreProgressProcessing(cache)
       THEN OpGoto("success", NoVRC, NoStatus)
       ELSE OpGoto("stat", cache, cache.st)
    /\ UNCHANGED <<apiVars, processed, due, faults>>

\* Mutant: one finished volume makes a finished restore.
ProgressCompletedAny(prog) == \E v \in Volumes : prog[v] >= Full

ProgressCompleted(prog) == \A v \in Volumes : prog[v] >= Full

\* Mutant: a restore without progress never times out.
ProgressTimeoutNever(stamp) == stamp # stamp

ProgressTimeout(stamp) == stamp < clock

\* syncRestoreStat on a status, and the phase processRestoreProgress sets afterwards:
\* completion overrides the timeout.
SyncRestoreStat(st) ==
    LET now  == IF st.rs.run = 0 THEN Untouched ELSE progress[st.rs.run]
        prog == [v \in Volumes |-> IF now[v] > st.rs.prog[v] THEN now[v] ELSE st.rs.prog[v]]
        rs   == [run |-> st.rs.run, prog |-> prog,
                 stamp |-> IF prog # st.rs.prog THEN clock ELSE st.rs.stamp]
    IN [phase |-> IF ProgressCompleted(prog) THEN "Completed"
                  ELSE IF ProgressTimeout(rs.stamp) THEN "Failed" ELSE st.phase,
        rs |-> rs]

OpStat ==
    /\ opc = "stat"
    /\ OpGoto("update", o, SyncRestoreStat(o.st))
    /\ UNCHANGED <<apiVars, processed, due, faults>>

\* The driver is unavailable (try again at the next tick) or fails.
OpStatFails ==
    /\ opc = "stat"
    /\ Fault
    /\ \/ OpGoto("tick", NoVRC, NoStatus) /\ due' = api.rv
       \/ OpGoto("failure", NoVRC, NoStatus) /\ UNCHANGED due
    /\ UNCHANGED <<apiVars, processed>>

OpUpdate ==
    /\ opc = "update"
    /\ api.rv # 0
    /\ Commit(Patched(o.st, onew))
    /\ StoreRevisionUpdate(api'.rv)
    /\ IF onew.phase = "Completed"
       THEN OpGoto("success", NoVRC, NoStatus) /\ UNCHANGED due
       ELSE OpGoto("tick", NoVRC, NoStatus) /\ due' = api'.rv
    /\ UNCHANGED faults

\* The process starts anew; its informer lists the VRC.
Restart ==
    /\ Idle
    /\ opc' = "none" /\ o' = NoVRC /\ onew' = NoStatus /\ due' = 0
    /\ cache' = api' /\ watch' = <<>>
    /\ queued' = (api'.rv # 0) /\ requeues' = 0
    /\ processed' = 0

\* The error branch logs the name of the nil object the failed patch returned: the
\* process panics. No fault is needed if the VRC went while the driver was polled.
OpUpdatePanics ==
    /\ opc = "update"
    /\ \/ api.rv = 0 /\ UNCHANGED <<api, faults>>
       \/ /\ api.rv # 0 /\ Fault
          /\ api' \in {api, [Patched(o.st, onew) EXCEPT !.rv = @ + 1]}
    /\ Restart
    /\ UNCHANGED <<driverVars, clock, crashes>>

\* handleRestoreProgressSuccess and handleRestoreProgressFailure read the lister again
OpOutcome(at, next) ==
    /\ opc = at
    /\ IF cache.rv = 0 \/ skipRestoreProgressProcessing(cache)
       THEN OpGoto("exit", NoVRC, NoStatus)
       ELSE OpGoto(next, cache, cache.st)
    /\ UNCHANGED <<apiVars, processed, due, faults>>

\* and record the phase; an error is logged.
OpRecord(at, phase) ==
    /\ opc = at
    /\ LET b == Patched(o.st, [o.st EXCEPT !.phase = phase]) IN
       \/ api.rv # 0 /\ Commit(b) /\ StoreRevisionUpdate(api'.rv) /\ UNCHANGED faults
       \/ /\ \/ api.rv = 0 /\ UNCHANGED <<apiVars, faults>>
             \/ api.rv # 0 /\ Fault /\ (UNCHANGED apiVars \/ Commit(b))
          /\ UNCHANGED processed
    /\ OpGoto("exit", NoVRC, NoStatus)
    /\ UNCHANGED due

\* The manager forgets the operation.
OpExit ==
    /\ opc = "exit"
    /\ OpGoto("none", NoVRC, NoStatus)
    /\ due' = 0
    /\ UNCHANGED <<apiVars, processed, faults>>

Operation ==
    \/ OpTick \/ OpStat \/ OpStatFails \/ OpUpdate \/ OpUpdatePanics
    \/ OpOutcome("success", "complete") \/ OpOutcome("failure", "fail")
    \/ OpRecord("complete", "Completed") \/ OpRecord("fail", "Failed")
    \/ OpExit

-----------------------------------------------------------------------------
(* Informer, resync, the restore controller, the driver, time, crashes *)

Informer ==
    /\ watch # <<>>
    /\ cache' = Head(watch)
    /\ watch' = Tail(watch)
    /\ queued' = (queued \/ Head(watch).rv # 0)
    /\ UNCHANGED <<api, requeues, processed, workerVars, opVars, driverVars, clock, faults, crashes>>

\* reSync passes over VRCs that have ended.
ReSync ==
    /\ cache.rv # 0 /\ ~queued
    /\ cache.st.phase \notin {"Failed", "Completed"}
    /\ queued' = TRUE
    /\ UNCHANGED <<apiVars, cache, requeues, processed, workerVars, opVars, driverVars,
                   clock, faults, crashes>>

EnvUnchanged == UNCHANGED <<cache, queueVars, processed, workerVars, opVars, crashes>>

\* The deletion of an unfinished Restore annotates the VRC
AnnotateVRC ==
    /\ api.rv # 0 /\ ~api.del /\ ~api.clean
    /\ Commit([api EXCEPT !.clean = TRUE])
    /\ EnvUnchanged /\ UNCHANGED <<driverVars, clock, faults>>

\* and then deletes it; that of a finished one only deletes it.
DeleteVRC ==
    /\ api.rv # 0 /\ ~api.del
    /\ api.clean \/ api.st.phase = "Completed"
    /\ IF api.fin THEN Commit([api EXCEPT !.del = TRUE]) ELSE Remove
    /\ EnvUnchanged /\ UNCHANGED <<driverVars, clock, faults>>

DriverProgress ==
    /\ \E r \in live, v \in Volumes :
          /\ progress[r][v] < Full
          /\ progress' = [progress EXCEPT ![r][v] = @ + 1]
    /\ EnvUnchanged /\ UNCHANGED <<apiVars, starts, live, clock, faults>>

\* A progress timeout passes since the last recorded progress.
TimePasses ==
    /\ clock < MaxPeriods
    /\ api.st.phase = "InProgress" /\ api.st.rs.stamp = clock
    /\ clock' = clock + 1
    /\ EnvUnchanged /\ UNCHANGED <<apiVars, driverVars, faults>>

Crash ==
    /\ faults + crashes < MaxDisturbed
    /\ crashes' = crashes + 1
    /\ api' = api /\ Restart
    /\ UNCHANGED <<driverVars, clock, faults>>

Next ==
    \/ Worker \/ Operation \/ Informer \/ ReSync
    \/ AnnotateVRC \/ DeleteVRC \/ DriverProgress \/ TimePasses \/ Crash

Spec == Init /\ [][Next]_vars

\* Goroutines are scheduled, events arrive, the resync loop runs and time passes. The
\* driver need not make any progress.
Fairness ==
    /\ WF_vars(Worker)
    /\ WF_vars(Operation)
    /\ WF_vars(Informer)
    /\ WF_vars(ReSync)
    /\ WF_vars(TimePasses)

FairSpec == Spec /\ Fairness

-----------------------------------------------------------------------------
(* Properties *)

\* The values the VRC, its copies, the retry count and the driver may take.
TypeOK ==
    /\ api \in VRC /\ cache \in VRC /\ w \in VRC /\ o \in VRC
    /\ watch \in Seq(VRC)
    /\ wnew \in Status /\ onew \in Status
    /\ queued \in BOOLEAN /\ requeues \in 0..MaxRetry
    /\ processed \in Nat /\ due \in Nat
    /\ pc \in Pcs /\ opc \in OPcs
    /\ starts \in 0..MaxStarts /\ live \in SUBSET (1..starts)
    /\ progress \in [Runs -> [Volumes -> 0..Full]]
    /\ clock \in 0..MaxPeriods
    /\ faults \in Nat /\ crashes \in Nat /\ faults + crashes <= MaxDisturbed

\* Failed calls and crashes
Disturbances == faults + crashes

\* The driver creates the volumes once, and once more for every call that failed and
\* every crash: stale copies of the lister, the resync loop and the panics of
\* processRestoreProgress do not make handleVolumeRestore run again.
StartsPaidFor == starts <= 1 + Disturbances

\* A VRC is Completed only if its handles belong to volumes that exist and every one of
\* which is restored, whichever of processRestoreProgress and
\* handleRestoreProgressSuccess wrote the phase, as long as the informer delivers within the
\* interval of two polls (InformerLags = FALSE; with a later event it is violated).
CompletedMeansDone ==
    api.st.phase = "Completed" /\ ~api.del =>
        /\ api.st.rs.run \in live
        /\ \A v \in Volumes : progress[api.st.rs.run][v] = Full

\* When the VRC of an unfinished restore goes, the driver keeps none of its volumes,
\* except one set for every failed call or crash that lost its handles:
\* processDeleteVolumeRestore cancels what an earlier step of the worker has started.
CleanedUp ==
    [][api.clean /\ api'.rv = 0 => Cardinality(live) <= Disturbances]_vars

\* The VRC as the restore controller sees it
Contract == INSTANCE VolumeBackupContract WITH
    phase <- IF api.rv = 0 THEN "absent"
             ELSE IF api.st.phase \in {"Completed", "Failed"} THEN api.st.phase ELSE "Pending",
    del <- api.del

\* The service fulfils the contract of the volume services: a restore of volumes ends
\* once, even if the driver makes no progress or the process panics, only a deleted VRC
\* goes and it is gone in the end.
FulfilsContract == Contract!FairSpec

-----------------------------------------------------------------------------
(* The inductive invariant behind StartsPaidFor and CleanedUp *)

\* What the lister may still come to see, and what is stored
Arriving == {cache} \cup {watch[i] : i \in DOMAIN watch}
Copies == Arriving \cup {api}

\* Nothing is newer than the stored object, whose finalizer and deletion stay once they
\* are set; the annotation for the cleanup came before the deletion.
CopiesBehind ==
    api.rv # 0 =>
        /\ processed <= api.rv
        /\ \A c \in Arriving : /\ c.rv <= api.rv
                               /\ c.del => api.del
                               /\ c.del /\ api.clean => c.clean

\* Without a finalizer no volume is created; nothing is annotated after the removal.
FinalizerFirst ==
    /\ starts > 0 => api.rv = 0 \/ api.fin
    /\ api.rv = 0 => ~api.clean

\* The runs of which handles were recorded; a run just started has no record yet.
Recorded == IF pc = "created" THEN starts - 1 ELSE starts

\* A restore in progress has handles.
HandlesKnown(st) ==
    /\ st.rs.run <= Recorded
    /\ st.phase = "InProgress" => st.rs.run # 0

\* Every start so far is paid for; or the status lets nobody start again, and knows
\* handles.
Settled(st) ==
    \/ starts <= Disturbances
    \/ st.phase \notin {"unset", "New"} /\ st.rs.run # 0

\* So it is with what the worker may still take from the lister.
CopiesSettled ==
    /\ \A c \in Copies : HandlesKnown(c.st)
    /\ api.rv # 0 /\ pc # "created" =>
          \A c \in Copies : c.rv # 0 /\ c.rv >= processed => Settled(c.st)

\* What the worker knows at its next call
WorkerHolds ==
    /\ HandlesKnown(w.st)
    /\ api.rv # 0 /\ pc \notin {"idle", "run", "created"} => Settled(w.st)
    /\ pc \in {"init", "create", "createFailed", "created"} => api.rv # 0 /\ api.fin
    /\ pc = "switch" /\ w.st.phase \in {"unset", "New"} => api.rv # 0 /\ api.fin
    /\ pc \in {"create", "createFailed", "created"} => w.st.phase \in {"unset", "New"}
    /\ pc = "created" => wnew.phase = "InProgress" /\ wnew.rs.run = starts
    /\ pc \in {"cancel", "delFinalizer"} /\ api.rv # 0 => api.del /\ (api.clean => w.clean)
    /\ pc = "delFinalizer" /\ api.rv # 0 /\ needCancel(w) => Cardinality(live) <= Disturbances

\* What the operation knows at its next call
OperationHolds ==
    /\ HandlesKnown(o.st) /\ HandlesKnown(onew)
    /\ opc \in {"stat", "update", "complete", "fail"} => o.st.phase = "InProgress"
    /\ opc = "update" => /\ onew.rs.run = o.st.rs.run
                         /\ onew.phase \in {"InProgress", "Completed", "Failed"}

IInv ==
    /\ TypeOK /\ CopiesBehind /\ FinalizerFirst /\ CopiesSettled
    /\ WorkerHolds /\ OperationHolds /\ StartsPaidFor

-----------------------------------------------------------------------------
(* The inductive invariant behind CompletedMeansDone and the steps of the          *)
(* contract, with IInv, when events arrive within the poll interval                *)

\* A phase other than these two says that volumes were created.
Begun(st) == st.phase \notin {"unset", "New"}

\* d may be a version of the object after c.
NotBehind(c, d) == (Begun(c.st) => Begun(d.st)) /\ (c.del => d.del)

\* The processedVRC store lets the worker take c from the lister.
Accessible(c) == c.rv # 0 /\ c.rv >= processed

\* Versions arrive as they were written, each once, and none is behind an earlier one.
VersionsInOrder ==
    /\ cache.rv = 0 => pc = "idle" /\ opc = "none"
    /\ \A c \in Arriving : c.rv = api.rv => c = api
    /\ \A i \in DOMAIN watch : cache.rv < watch[i].rv
    /\ \A i, j \in DOMAIN watch : i < j => watch[i].rv < watch[j].rv
    /\ \A c, d \in Copies : c.rv # 0 /\ c.rv <= d.rv => NotBehind(c, d)

\* What the worker knows of the object, and what it may still take from the lister: when
\* restoreInitialize has written the object the worker's copy is not a stale one.
WorkerBehind ==
    /\ pc # "idle" /\ Begun(w.st) => \A c \in Copies : Accessible(c) => Begun(c.st)
    /\ pc \in {"switch", "create", "createFailed", "created"} /\ ~Begun(w.st) =>
          ~Begun(api.st)
    /\ pc = "run" => Begun(w.st)

\* No volumes are created while an operation is registered.
OneAtATime ==
    opc # "none" =>
        /\ \A c \in Copies : Accessible(c) => Begun(c.st)
        /\ pc # "idle" => Begun(w.st)

\* What the operation knows of the object: nobody else writes the status.
OperationAhead ==
    /\ opc # "none" =>
          \A c, d \in Copies :
             due <= c.rv /\ c.rv <= d.rv /\ c.st.phase # "InProgress" => d.st.phase # "InProgress"
    /\ opc = "tick" =>
          \A c \in Copies : c.rv >= due =>
             /\ c.st.rs = api.st.rs
             /\ ~skipRestoreProgressProcessing(c) => api.st.phase = "InProgress"
    /\ opc \in {"stat", "update"} => o.st.rs = api.st.rs
    /\ opc \in {"stat", "update", "failure", "fail"} => api.st.phase = "InProgress"
    /\ opc = "update" /\ onew.phase = "Completed" => ProgressCompleted(onew.rs.prog)
    /\ opc = "success" =>
          \/ api.st.phase = "Completed"
          \/ \A c \in Copies : skipRestoreProgressProcessing(c)
    /\ opc = "complete" => api.st.phase = "Completed"

\* No progress is ahead of the driver's.
ProgressKnown(rs) ==
    \A v \in Volumes : rs.prog[v] <= IF rs.run = 0 THEN 0 ELSE progress[rs.run][v]

\* What all the copies say of handles and progress
RestoreStates == {c.st.rs : c \in Copies} \cup {w.st.rs, wnew.rs, o.st.rs, onew.rs}

\* Handles of an object that is not under deletion belong to volumes that exist.
DriverKnows ==
    /\ \A rs \in RestoreStates : ProgressKnown(rs)
    /\ pc = "created" => starts \in live
    /\ api.st.rs.run # 0 /\ ~api.del => api.st.rs.run \in live
    /\ api.rv = 0 => api = NoVRC

PromptInv ==
    /\ api.rv # 0 =>
          VersionsInOrder /\ WorkerBehind /\ OneAtATime /\ OperationAhead
    /\ DriverKnows
    /\ CompletedMeansDone

=============================================================================
