-------------------------- MODULE VolumeBackupService --------------------------
(***************************************************************************)
(* The volume backup controller of a volume provider's service: one        *)
(* VolumeBackupContent (VBC) in the API server, the informer, the work     *)
(* queue and its worker, which starts the backup at the provider's driver, *)
(* and the operation goroutine, which polls the driver every 5 s and       *)
(* records the progress.  Both write the VBC with JSON merge patches that  *)
(* carry no resource version: only the fields in which the two copies of   *)
(* the writer differ are overwritten.                                      *)
(*                                                                         *)
(* Every driver or API call is a step of its own; pc and opc name the next *)
(* call of the worker and of the operation.                                *)
(***************************************************************************)
EXTENDS Integers, Sequences, FiniteSets

CONSTANTS
    Volumes,         \* the volumes of the VBC
    Full,            \* the progress of a finished volume (100 in the code)
    MaxStarts,       \* bound: StartBackup calls the driver carries out
    MaxRetry,        \* defaultMaxRetry of the generic controller
    MaxDisturbed,    \* bound: failed calls and crashes together
    MaxPeriods,      \* bound: progress timeouts (30 min) that elapse
    InformerLags,    \* may an event take longer than the poll interval (5 s)?
    UserDeletes      \* may the VBC be deleted?

ASSUME ServiceAssumption ==
    /\ Full \in Nat \ {0}
    /\ MaxStarts \in Nat /\ MaxRetry \in Nat /\ MaxDisturbed \in Nat /\ MaxPeriods \in Nat
    /\ InformerLags \in BOOLEAN /\ UserDeletes \in BOOLEAN

VARIABLES
    api,        \* the VBC in the API server; NoVBC when there is none
    watch,      \* versions not yet delivered to the informer
    cache,      \* the lister's copy
    queued,     \* is the key in the work queue?
    requeues,   \* NumRequeues of the key
    processed,  \* revision kept for the key by the processedVBC store, 0: none
    pc,         \* next call of the worker
    w,          \* the worker's copy
    wnew,       \* the status the worker is about to write
    opc,        \* next call of the operation; "none": no operation is registered
    o,          \* the operation's copy
    onew,       \* the status the operation is about to write
    due,        \* revision of the VBC when the operation's ticker was armed
    starts,     \* driver runs started so far
    live,       \* driver runs that exist at the driver
    progress,   \* progress of every run's volumes at the driver
    clock,      \* progress timeouts elapsed
    faults,     \* calls that failed so far
    crashes     \* crashes so far

apiVars    == <<api, watch>>
queueVars  == <<queued, requeues>>
workerVars == <<pc, w, wnew>>
opVars     == <<opc, o, onew, due>>
driverVars == <<starts, live, progress>>
vars == <<api, watch, cache, queued, requeues, processed, pc, w, wnew, opc, o, onew,
          due, starts, live, progress, clock, faults, crashes>>

-----------------------------------------------------------------------------
(* Objects *)

\* "unset" is the empty string of a VBC that nobody initialised.
Phases == {"unset", "New", "InProgress", "Completed", "Failed", "Deleting"}
Runs == 1..MaxStarts

\* status.BackupState: the run its handles belong to (0: the list is empty), the
\* progress per volume and the timeout period of the latest LastProgressUpdate.
BackupState == [run: 0..MaxStarts, prog: [Volumes -> 0..Full], stamp: 0..MaxPeriods]
Untouched == [v \in Volumes |-> 0]
NoState == [run |-> 0, prog |-> Untouched, stamp |-> 0]

Status == [phase: Phases, bs: BackupState]
NoStatus == [phase |-> "unset", bs |-> NoState]

\* prov: status.VolumeBackupProvider names this service's driver.
VBC == [rv: Nat, st: Status, prov: BOOLEAN, fin: BOOLEAN, del: BOOLEAN]
NoVBC == [rv |-> 0, st |-> NoStatus, prov |-> FALSE, fin |-> FALSE, del |-> FALSE]

Pcs == {"idle", "init", "finalizer", "driver", "start", "startFailed", "started", "run",
        "deleting", "delDriver", "delFinalizer"}
OPcs == {"none", "tick", "stat", "update", "success", "failure", "complete", "fail", "exit"}

Init ==
    /\ api = [NoVBC EXCEPT !.rv = 1]
    /\ watch = <<api>>
    /\ cache = NoVBC
    /\ queued = FALSE /\ requeues = 0
    /\ processed = 0
    /\ pc = "idle" /\ w = NoVBC /\ wnew = NoStatus
    /\ opc = "none" /\ o = NoVBC /\ onew = NoStatus /\ due = 0
    /\ starts = 0 /\ live = {}
    /\ progress = [r \in Runs |-> Untouched]
    /\ clock = 0 /\ faults = 0 /\ crashes = 0

-----------------------------------------------------------------------------
(* API server, store and work queue primitives *)

\* Store a version of the object; a write that changes nothing has no event.
Commit(b) ==
    IF b = api THEN UNCHANGED apiVars
    ELSE LET new == [b EXCEPT !.rv = api.rv + 1] IN
         api' = new /\ watch' = Append(watch, new)

Remove == api' = NoVBC /\ watch' = Append(watch, NoVBC)

\* The merge patch that turns the status old into new, applied to the stored object:
\* a field in which they agree is not in the patch.
Patched(old, new) ==
    [api EXCEPT !.st.phase = IF new.phase # old.phase THEN new.phase ELSE @,
                !.st.bs    = IF new.bs # old.bs THEN new.bs ELSE @]

\* Mutant: a write does not advance the stored revision.
StoreRevisionForgets(rv) == processed' = processed /\ rv = rv

StoreRevisionUpdate(rv) == processed' = IF processed > rv THEN processed ELSE rv

Fault == faults + crashes < MaxDisturbed /\ faults' = faults + 1

Goto(next, b, st) == pc' = next /\ w' = b /\ wnew' = st /\ UNCHANGED queueVars

Idle == pc' = "idle" /\ w' = NoVBC /\ wnew' = NoStatus

Return == Idle /\ requeues' = 0 /\ UNCHANGED queued

ReturnErr ==
    /\ Idle
    /\ IF requeues < MaxRetry
       THEN requeues' = requeues + 1 /\ queued' = TRUE
       ELSE requeues' = 0 /\ UNCHANGED queued

\* A patch by the worker that turns the stored object into b. A failed call may have
\* been carried out; a NotFound is an error like any other for this caller.
WorkerPatch(b, next) ==
    /\ \/ /\ api.rv # 0
          /\ Commit(b)
          /\ StoreRevisionUpdate(api'.rv)
          /\ Goto(next, api', api'.st)
          /\ UNCHANGED faults
       \/ /\ \/ api.rv = 0 /\ UNCHANGED <<apiVars, faults>>
             \/ api.rv # 0 /\ Fault /\ (UNCHANGED apiVars \/ Commit(b))
          /\ ReturnErr
          /\ UNCHANGED processed
    /\ UNCHANGED <<cache, opVars, driverVars, clock, crashes>>

\* A step of the worker without a call.
Local(next) ==
    /\ IF next = "return" THEN Return ELSE Goto(next, w, w.st)
    /\ UNCHANGED <<apiVars, cache, processed, opVars, driverVars, clock, faults, crashes>>

-----------------------------------------------------------------------------
(* processQueue *)

\* Take the key, read the lister, drop what is older than the stored revision.
ProcessQueue ==
    /\ pc = "idle" /\ queued
    /\ queued' = FALSE
    /\ IF cache.rv = 0 \/ processed > cache.rv
       THEN requeues' = 0 /\ UNCHANGED <<workerVars, processed>>
       ELSE /\ processed' = cache.rv
            /\ pc' = IF cache.del THEN "deleting" ELSE "init"
            /\ w' = cache /\ wnew' = cache.st
            /\ UNCHANGED requeues
    /\ UNCHANGED <<apiVars, cache, opVars, driverVars, clock, faults, crashes>>

\* ensureVolBackupInit: phase and start time are set together.
EnsureVolBackupInit ==
    /\ pc = "init"
    /\ IF w.st.phase = "unset"
       THEN WorkerPatch(Patched(w.st, [w.st EXCEPT !.phase = "New"]), "finalizer")
       ELSE Local("finalizer")

\* Mutant: the finalizer is left for later.
EnsureFinalizerSkipped == pc = "finalizer" /\ Local("driver")

EnsureFinalizer ==
    /\ pc = "finalizer"
    /\ IF ~w.fin THEN WorkerPatch([api EXCEPT !.fin = TRUE], "driver") ELSE Local("driver")

\* checkVolumeBackupDriver and the switch of processVolumeBackup
CheckVolumeBackupDriver ==
    /\ pc = "driver"
    /\ Local(IF ~w.prov THEN "return"
             ELSE CASE w.st.phase \in {"unset", "New"} -> "start"
                    [] w.st.phase = "InProgress"       -> "run"
                    [] OTHER                           -> "return")

\* handleVolumeBackup, the request carried out by the driver
StartBackup ==
    /\ pc = "start"
    /\ starts < MaxStarts
    /\ starts' = starts + 1
    /\ live' = live \cup {starts'}
    /\ \/ /\ Goto("started", w, [phase |-> "InProgress",
                                 bs |-> [run |-> starts', prog |-> Untouched, stamp |-> clock]])
          /\ UNCHANGED faults
       \/ Fault /\ (Return \/ Goto("startFailed", w, w.st))
    /\ UNCHANGED <<apiVars, cache, processed, opVars, progress, clock, crashes>>

\* The request is not carried out: it cannot be built, the driver is unavailable
\* (the handler returns nil) or answers with errors.
StartBackupFails ==
    /\ pc = "start"
    /\ Fault
    /\ Return \/ Goto("startFailed", w, w.st)
    /\ UNCHANGED <<apiVars, cache, processed, opVars, driverVars, clock, crashes>>

\* updateStatusWithFailure; the handler returns the error of the patch only.
StartFailed ==
    /\ pc = "startFailed"
    /\ LET b == Patched(w.st, [w.st EXCEPT !.phase = "Failed"]) IN
       \/ /\ api.rv # 0
          /\ Commit(b)
          /\ StoreRevisionUpdate(api'.rv)
          /\ Return
          /\ UNCHANGED faults
       \/ /\ \/ api.rv = 0 /\ UNCHANGED <<apiVars, faults>>
             \/ api.rv # 0 /\ Fault /\ (UNCHANGED apiVars \/ Commit(b))
          /\ ReturnErr
          /\ UNCHANGED processed
    /\ UNCHANGED <<cache, opVars, driverVars, clock, crashes>>

Started == pc = "started" /\ WorkerPatch(Patched(w.st, wnew), "run")

\* operationManager.Run: nothing happens while an operation of that name exists. The
\* ticker of a new one fires for the first time after a poll interval.
RunOperation ==
    /\ pc = "run"
    /\ IF opc = "none"
       THEN opc' = "tick" /\ due' = api.rv /\ UNCHANGED <<o, onew>>
       ELSE UNCHANGED opVars
    /\ Return
    /\ UNCHANGED <<apiVars, cache, processed, driverVars, clock, faults, crashes>>

-----------------------------------------------------------------------------
(* processDeleteVolumeBackup; VBCs have no owner, so that isValidDelete holds *)

\* The phase. The cancellation that follows asks for phase InProgress in the patched
\* copy and is never reached unless another write came first.
UpdateDeleting ==
    /\ pc = "deleting"
    /\ \/ api.rv = 0 /\ Local("return")
       \/ /\ api.rv # 0
          /\ WorkerPatch(Patched(w.st, [w.st EXCEPT !.phase = "Deleting"]), "delDriver")

\* CancelBackup when the phase is still InProgress, then DeleteBackup for the handles
\* of the patched copy. Unavailable: the handler returns nil.
DeleteBackup ==
    /\ pc = "delDriver"
    /\ \/ /\ live' = live \ {w.st.bs.run}
          /\ Goto("delFinalizer", w, w.st)
          /\ UNCHANGED faults
       \/ /\ Fault
          /\ live' \in {live, live \ {w.st.bs.run}}
          /\ Return \/ ReturnErr
    /\ UNCHANGED <<apiVars, cache, processed, opVars, starts, progress, clock, crashes>>

\* ensureFinalizerRemove and StoreClean
EnsureFinalizerRemove ==
    /\ pc = "delFinalizer"
    /\ \/ /\ api.rv # 0
          /\ Remove
          /\ processed' = 0
          /\ Return
          /\ UNCHANGED faults
       \/ /\ \/ api.rv = 0 /\ UNCHANGED <<apiVars, faults>>
             \/ api.rv # 0 /\ Fault /\ (UNCHANGED apiVars \/ Remove)
          /\ ReturnErr
          /\ UNCHANGED processed
    /\ UNCHANGED <<cache, opVars, driverVars, clock, crashes>>

Worker ==
    \/ ProcessQueue \/ EnsureVolBackupInit \/ EnsureFinalizer \/ CheckVolumeBackupDriver
    \/ StartBackup \/ StartBackupFails \/ StartFailed \/ Started \/ RunOperation
    \/ UpdateDeleting \/ DeleteBackup \/ EnsureFinalizerRemove

-----------------------------------------------------------------------------
(* The operation: operate and operationHandler of the operation manager, with the  *)
(* handlers of the backup progress context                                         *)

OpGoto(next, b, st) ==
    /\ opc' = next /\ o' = b /\ onew' = st
    /\ UNCHANGED <<cache, queueVars, workerVars, starts, live, progress, clock, crashes>>

\* The next tick comes a poll interval later.
OpWait == OpGoto("tick", NoVBC, NoStatus) /\ due' = api.rv

skipBackupProgressProcessing(b) == b.del \/ b.st.phase # "InProgress"

\* processBackupProgress reads the lister. Unless the informer lags, what was written
\* before the poll interval began has arrived.
OpTick ==
    /\ opc = "tick"
    /\ InformerLags \/ cache.rv = 0 \/ cache.rv >= due
    /\ IF cache.rv = 0 \/ skipBackupProgressProcessing(cache)
       THEN OpGoto("success", NoVBC, NoStatus)
       ELSE OpGoto("stat", cache, cache.st)
    /\ UNCHANGED <<apiVars, processed, due, faults>>

\* Mutant: one finished volume makes a finished backup.
ProgressCompletedAny(prog) == \E v \in Volumes : prog[v] >= Full

ProgressCompleted(prog) == \A v \in Volumes : prog[v] >= Full

\* Mutant: a backup without progress never times out.
ProgressTimeoutNever(stamp) == stamp # stamp

ProgressTimeout(stamp) == stamp < clock

\* syncBackupStat on a status: take over what has advanced, then judge; completion
\* overrides the timeout.
SyncBackupStat(st) ==
    LET now  == IF st.bs.run = 0 THEN Untouched ELSE progress[st.bs.run]
        prog == [v \in Volumes |-> IF now[v] > st.bs.prog[v] THEN now[v] ELSE st.bs.prog[v]]
        bs   == [run |-> st.bs.run, prog |-> prog,
                 stamp |-> IF prog # st.bs.prog THEN clock ELSE st.bs.stamp]
    IN [phase |-> IF ProgressCompleted(prog) THEN "Completed"
                  ELSE IF ProgressTimeout(bs.stamp) THEN "Failed" ELSE st.phase,
        bs |-> bs]

OpStat ==
    /\ opc = "stat"
    /\ OpGoto("update", o, SyncBackupStat(o.st))
    /\ UNCHANGED <<apiVars, processed, due, faults>>

\* The driver is unavailable (try again) or knows no such backup, or fails.
OpStatFails ==
    /\ opc = "stat"
    /\ Fault
    /\ \/ OpWait
       \/ OpGoto("failure", NoVBC, NoStatus) /\ UNCHANGED due
    /\ UNCHANGED <<apiVars, processed>>

OpUpdate ==
    /\ opc = "update"
    /\ LET b == Patched(o.st, onew) IN
       \/ /\ api.rv # 0
          /\ Commit(b)
          /\ StoreRevisionUpdate(api'.rv)
          /\ IF onew.phase = "Completed"
             THEN OpGoto("success", NoVBC, NoStatus) /\ UNCHANGED due
             ELSE OpGoto("tick", NoVBC, NoStatus) /\ due' = api'.rv
          /\ UNCHANGED faults
       \/ /\ \/ api.rv = 0 /\ UNCHANGED <<apiVars, faults>>
             \/ api.rv # 0 /\ Fault /\ (UNCHANGED apiVars \/ Commit(b))
          /\ OpGoto("tick", NoVBC, NoStatus) /\ due' = api'.rv
          /\ UNCHANGED processed

\* handleBackupProgressSuccess and handleBackupProgressFailure read the lister again
OpOutcome(at, next) ==
    /\ opc = at
    /\ IF cache.rv = 0 \/ skipBackupProgressProcessing(cache)
       THEN OpGoto("exit", NoVBC, NoStatus)
       ELSE OpGoto(next, cache, cache.st)
    /\ UNCHANGED <<apiVars, processed, due, faults>>

\* and record the phase; an error is logged.
OpRecord(at, phase) ==
    /\ opc = at
    /\ LET b == Patched(o.st, [o.st EXCEPT !.phase = phase]) IN
       \/ api.rv # 0 /\ Commit(b) /\ StoreRevisionUpdate(api'.rv) /\ UNCHANGED faults
       \/ /\ \/ api.rv = 0 /\ UNCHANGED <<apiVars, faults>>
             \/ api.rv # 0 /\ Fault /\ (UNCHANGED apiVars \/ Commit(b))
          /\ UNCHANGED processed
    /\ OpGoto("exit", NoVBC, NoStatus)
    /\ UNCHANGED due

\* The manager forgets the operation.
OpExit ==
    /\ opc = "exit"
    /\ OpGoto("none", NoVBC, NoStatus)
    /\ due' = 0
    /\ UNCHANGED <<apiVars, processed, faults>>

Operation ==
    \/ OpTick \/ OpStat \/ OpStatFails \/ OpUpdate
    \/ OpOutcome("success", "complete") \/ OpOutcome("failure", "fail")
    \/ OpRecord("complete", "Completed") \/ OpRecord("fail", "Failed")
    \/ OpExit

-----------------------------------------------------------------------------
(* Informer, resync, the other controllers, the driver, time, crashes *)

Informer ==
    /\ watch # <<>>
    /\ cache' = Head(watch)
    /\ watch' = Tail(watch)
    /\ queued' = (queued \/ Head(watch).rv # 0)
    /\ UNCHANGED <<api, requeues, processed, workerVars, opVars, driverVars, clock, faults, crashes>>

\* reSync passes over VBCs that have ended.
ReSync ==
    /\ cache.rv # 0 /\ ~queued
    /\ cache.st.phase \notin {"Failed", "Completed"}
    /\ queued' = TRUE
    /\ UNCHANGED <<apiVars, cache, requeues, processed, workerVars, opVars, driverVars,
                   clock, faults, crashes>>

EnvUnchanged == UNCHANGED <<cache, queueVars, processed, workerVars, opVars, crashes>>

\* The volume backup controller of the controller manager names the driver.
Assign ==
    /\ api.rv # 0 /\ ~api.prov
    /\ Commit([api EXCEPT !.prov = TRUE])
    /\ EnvUnchanged /\ UNCHANGED <<driverVars, clock, faults>>

\* The backup controller deletes the VBC.
DeleteVBC ==
    /\ UserDeletes /\ api.rv # 0 /\ ~api.del
    /\ IF api.fin THEN Commit([api EXCEPT !.del = TRUE]) ELSE Remove
    /\ EnvUnchanged /\ UNCHANGED <<driverVars, clock, faults>>

DriverProgress ==
    /\ \E r \in live, v \in Volumes :
          /\ progress[r][v] < Full
          /\ progress' = [progress EXCEPT ![r][v] = @ + 1]
    /\ EnvUnchanged /\ UNCHANGED <<apiVars, starts, live, clock, faults>>

\* A progress timeout passes since the last recorded progress.
TimePasses ==
    /\ clock < MaxPeriods
    /\ api.st.phase = "InProgress" /\ api.st.bs.stamp = clock
    /\ clock' = clock + 1
    /\ EnvUnchanged /\ UNCHANGED <<apiVars, driverVars, faults>>

Crash ==
    /\ faults + crashes < MaxDisturbed
    /\ crashes' = crashes + 1
    /\ Idle
    /\ opc' = "none" /\ o' = NoVBC /\ onew' = NoStatus /\ due' = 0
    /\ cache' = api /\ watch' = <<>>
    /\ queued' = (api.rv # 0) /\ requeues' = 0
    /\ processed' = 0
    /\ UNCHANGED <<api, driverVars, clock, faults>>

Next ==
    \/ Worker \/ Operation \/ Informer \/ ReSync
    \/ Assign \/ DeleteVBC \/ DriverProgress \/ TimePasses \/ Crash

Spec == Init /\ [][Next]_vars

\* Goroutines are scheduled, events arrive, the resync loop runs every 5 minutes, a
\* driver is named and time passes. The driver need not make any progress.
Fairness ==
    /\ WF_vars(Worker)
    /\ WF_vars(Operation)
    /\ WF_vars(Informer)
    /\ WF_vars(ReSync)
    /\ WF_vars(Assign)
    /\ WF_vars(TimePasses)

FairSpec == Spec /\ Fairness

-----------------------------------------------------------------------------
(* Properties *)

\* The values the VBC, its copies, the retry count and the driver may take.
TypeOK ==
    /\ api \in VBC /\ cache \in VBC /\ w \in VBC /\ o \in VBC
    /\ watch \in Seq(VBC)
    /\ wnew \in Status /\ onew \in Status
    /\ queued \in BOOLEAN /\ requeues \in 0..MaxRetry
    /\ processed \in Nat /\ due \in Nat
    /\ pc \in Pcs /\ opc \in OPcs
    /\ starts \in 0..MaxStarts /\ live \in SUBSET (1..starts)
    /\ progress \in [Runs -> [Volumes -> 0..Full]]
    /\ clock \in 0..MaxPeriods
    /\ faults \in Nat /\ crashes \in Nat /\ faults + crashes <= MaxDisturbed

\* Failed calls and crashes
Disturbances == faults + crashes

\* The driver is asked to start a backup once, and once more for every call that
\* failed and every crash: neither stale copies of the lister, which the processedVBC
\* store drops, nor the resync loop make handleVolumeBackup run again.
StartsPaidFor == starts <= 1 + Disturbances

\* When the VBC is gone the driver keeps no backup nobody knows of, except one for
\* every failed call or crash that lost the handles handleVolumeBackup had received:
\* the finalizer is there before the driver is asked, and goes after it has deleted.
OrphansPaidFor == api.rv = 0 => Cardinality(live) <= Disturbances

\* A VBC is Completed only if its handles belong to a backup that exists at the driver
\* and in which every volume is finished, whichever of processBackupProgress and
\* handleBackupProgressSuccess wrote the phase, as long as the informer delivers within the
\* interval of two polls (InformerLags = FALSE; with a later event it is violated).
CompletedMeansDone ==
    api.st.phase = "Completed" /\ ~api.del =>
        /\ api.st.bs.run \in live
        /\ \A v \in Volumes : progress[api.st.bs.run][v] = Full

\* The VBC as the backup controller sees it
Contract == INSTANCE VolumeBackupContract WITH
    phase <- IF api.rv = 0 THEN "absent"
             ELSE IF api.st.phase \in {"Completed", "Failed"} THEN api.st.phase ELSE "Pending",
    del <- api.del

\* The service fulfils its contract: a volume backup ends once (a progress timeout is
\* not followed by a late completion, nor a completion by a failure, until the VBC is
\* deleted), also if the driver never makes any progress, for the worker, the resync
\* loop and the progress timeout see to it; only a deleted VBC goes, and it is gone in
\* the end.
FulfilsContract == Contract!FairSpec

\* A deleted VBC is gone in the end; the deletion of its Backup waits for that.
DeletionCompletes == api.del ~> api.rv = 0

-----------------------------------------------------------------------------
(* The inductive invariant behind StartsPaidFor and OrphansPaidFor *)

\* What the lister may still come to see, and what is stored
Arriving == {cache} \cup {watch[i] : i \in DOMAIN watch}
Copies == Arriving \cup {api}

\* Nothing is newer than the stored object, and its finalizer and deletion, once set,
\* stay.
CopiesBehind ==
    api.rv # 0 =>
        /\ processed <= api.rv
        /\ \A c \in Arriving : /\ c.rv <= api.rv
                               /\ c.fin => api.fin
                               /\ c.del => api.del

\* Events come in order: after a version under deletion, versions under deletion.
DeletionLast ==
    /\ cache.del => \A i \in DOMAIN watch : watch[i].rv = 0 \/ watch[i].del
    /\ \A i, j \in DOMAIN watch :
          i < j /\ watch[i].del => watch[j].rv = 0 \/ watch[j].del

\* Without a finalizer nothing is started; with one, the object goes only after the
\* lister has seen the deletion.
FinalizerFirst ==
    /\ starts > 0 => api.rv = 0 \/ api.fin
    /\ api.rv = 0 => \A c \in Arriving : c.rv = 0 \/ c.del \/ ~c.fin

\* The runs of which handles were recorded; a run just started has no record yet.
Recorded == IF pc = "started" THEN starts - 1 ELSE starts

\* A backup in progress has handles.
HandlesKnown(st) ==
    /\ st.bs.run <= Recorded
    /\ st.phase = "InProgress" => st.bs.run # 0

\* Every start so far is paid for; or the status lets nobody start again, and knows
\* handles.
Settled(st) ==
    \/ starts <= Disturbances
    \/ st.phase \notin {"unset", "New"} /\ st.bs.run # 0

\* So it is with what the worker may still take from the lister.
CopiesSettled ==
    /\ \A c \in Copies : HandlesKnown(c.st)
    /\ api.rv # 0 /\ pc # "started" =>
          \A c \in Copies : c.rv # 0 /\ c.rv >= processed => Settled(c.st)

\* What the worker knows at its next call
WorkerHolds ==
    /\ HandlesKnown(w.st)
    /\ api.rv # 0 /\ pc \notin {"idle", "run", "started"} => Settled(w.st)
    /\ pc \in {"init", "finalizer"} /\ w.fin => api.rv # 0 /\ api.fin
    /\ pc \in {"driver", "start", "startFailed", "started", "run"} => api.rv # 0 /\ api.fin
    /\ pc \in {"start", "startFailed", "started"} => w.st.phase \in {"unset", "New"}
    /\ pc = "started" => wnew.phase = "InProgress" /\ wnew.bs.run = starts
    /\ pc \in {"deleting", "delDriver", "delFinalizer"} =>
          \A c \in Copies : c.rv = 0 \/ c.del
    /\ pc = "delFinalizer" => w.st.bs.run \notin live

\* What the operation knows at its next call
OperationHolds ==
    /\ HandlesKnown(o.st) /\ HandlesKnown(onew)
    /\ opc \in {"stat", "update", "complete", "fail"} => o.st.phase = "InProgress"
    /\ opc = "update" => /\ onew.bs.run = o.st.bs.run
                         /\ onew.phase \in {"InProgress", "Completed", "Failed"}

IInv ==
    /\ TypeOK /\ CopiesBehind /\ DeletionLast /\ FinalizerFirst /\ CopiesSettled
    /\ WorkerHolds /\ OperationHolds /\ StartsPaidFor /\ OrphansPaidFor

-----------------------------------------------------------------------------
(* The inductive invariant behind CompletedMeansDone and ServiceStep, with IInv,   *)
(* when events arrive within the poll interval                                     *)

\* A phase other than these two says that a backup was started.
Begun(st) == st.phase \notin {"unset", "New"}

\* st is as far as old on the way from "unset" over "New" to the start.
NotBehind(old, st) ==
    /\ old.phase # "unset" => st.phase # "unset"
    /\ Begun(old) => Begun(st)

\* The processedVBC store lets the worker take c from the lister.
Accessible(c) == c.rv # 0 /\ c.rv >= processed

\* Versions arrive as they were written, each once, and none is behind an earlier one.
VersionsInOrder ==
    /\ cache.rv = 0 => pc = "idle" /\ opc = "none"
    /\ \A c \in Arriving : c.rv = api.rv => c = api
    /\ \A i \in DOMAIN watch : cache.rv < watch[i].rv
    /\ \A i, j \in DOMAIN watch : i < j => watch[i].rv < watch[j].rv
    /\ \A c, d \in Copies : c.rv # 0 /\ c.rv <= d.rv => NotBehind(c.st, d.st)

\* A handler whose copy does not know of a start finds one only if an answer got lost.
MayStart(st) ==
    /\ st.phase = "unset" => ~Begun(api.st)
    /\ ~Begun(st) => \/ api.st.phase \in {"unset", "New", "InProgress"}
                     \/ api.st.phase = "Failed" /\ Disturbances >= 2

\* What the worker knows of the object, and what it may still take from the lister
WorkerBehind ==
    /\ pc # "idle" => \A c \in Copies : Accessible(c) => NotBehind(w.st, c.st)
    /\ pc \in {"finalizer", "driver", "start", "startFailed", "started"} =>
          w.st.phase # "unset"
    /\ pc = "run" => Begun(w.st)
    /\ pc = "startFailed" => Disturbances >= 1
    /\ pc \in {"init", "finalizer", "driver", "start", "startFailed", "started"} =>
          MayStart(w.st)
    /\ \A c \in Copies : Accessible(c) /\ ~c.del => MayStart(c.st)

\* Nothing is started while an operation is registered.
OneAtATime ==
    opc # "none" =>
        /\ \A c \in Copies : Accessible(c) => Begun(c.st)
        /\ pc # "idle" => Begun(w.st)

\* What the operation knows of the object: but for the worker's "Deleting", nobody else
\* writes the status.
OperationAhead ==
    /\ opc # "none" =>
          \A c, d \in Copies :
             due <= c.rv /\ c.rv <= d.rv /\ c.st.phase # "InProgress" => d.st.phase # "InProgress"
    /\ opc = "tick" =>
          \A c \in Copies : c.rv >= due =>
             /\ c.st.bs = api.st.bs
             /\ ~skipBackupProgressProcessing(c) => api.st.phase \in {"InProgress", "Deleting"}
    /\ opc \in {"stat", "update"} => o.st.bs = api.st.bs
    /\ opc \in {"stat", "update", "failure", "fail"} =>
          api.st.phase \in {"InProgress", "Deleting"}
    /\ opc = "update" /\ onew.phase = "Completed" => ProgressCompleted(onew.bs.prog)
    /\ opc = "success" =>
          \/ api.st.phase \in {"Completed", "Deleting"}
          \/ \A c \in Copies : skipBackupProgressProcessing(c)
    /\ opc = "complete" => api.st.phase \in {"Completed", "Deleting"}

\* No progress is ahead of the driver's.
ProgressKnown(bs) ==
    \A v \in Volumes : bs.prog[v] <= IF bs.run = 0 THEN 0 ELSE progress[bs.run][v]

\* What all the copies say of handles and progress
BackupStates == {c.st.bs : c \in Copies} \cup {w.st.bs, wnew.bs, o.st.bs, onew.bs}

\* Handles of an object that is not under deletion belong to a backup that exists.
DriverKnows ==
    /\ \A bs \in BackupStates : ProgressKnown(bs)
    /\ pc = "started" => starts \in live
    /\ api.st.bs.run # 0 /\ ~api.del => api.st.bs.run \in live
    /\ api.st.phase = "Deleting" => api.del
    /\ api.rv = 0 => api = NoVBC

PromptInv ==
    /\ api.rv # 0 =>
          VersionsInOrder /\ WorkerBehind /\ OneAtATime /\ OperationAhead
    /\ DriverKnows
    /\ CompletedMeansDone

\* What a step means to the backup controller: a step of the contract. But when the
\* driver has refused a backup and the answer to the patch that records Failed is lost,
\* the handler is repeated with a copy that knows nothing of it, and starts the backup
\* after all: the phase Failed gives way to InProgress.
ServiceStep ==
    \/ Contract!Next
    \/ Started /\ api.st.phase = "Failed" /\ Disturbances >= 2

=============================================================================
