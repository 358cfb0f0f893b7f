---------------------- MODULE VolumeBackupService_proofs ----------------------
(***************************************************************************)
(* Proofs about VolumeBackupService, for every value of its constants: the *)
(* driver is asked for one backup and for one more per failed call or      *)
(* crash, and what it keeps when the object is gone is paid for in the     *)
(* same way, however late the informer is and whatever the operation       *)
(* writes in between.  When events arrive within the poll interval, what   *)
(* is Completed is done, and every step is one the backup controller       *)
(* expects (VolumeBackupContract), but for one that two failures lead to.  *)
(***************************************************************************)
EXTENDS VolumeBackupService, TLAPS, FiniteSetTheorems

-----------------------------------------------------------------------------
(* Types *)

\* The empty object and its status have their types.
LEMMA NoVBCType ==
    /\ Untouched \in [Volumes -> 0..Full] /\ NoState \in BackupState
    /\ NoStatus \in Status /\ NoVBC \in VBC
    /\ NoVBC.rv = 0 /\ NoVBC.st = NoStatus /\ ~NoVBC.del /\ ~NoVBC.fin
    /\ NoStatus.phase = "unset" /\ NoStatus.bs = NoState /\ NoState.run = 0
<1>1. Untouched \in [Volumes -> 0..Full] BY ServiceAssumption DEF Untouched
<1>2. NoState \in BackupState /\ NoState.run = 0
  BY <1>1, ServiceAssumption DEF NoState, BackupState
<1>3. NoStatus \in Status /\ NoStatus.phase = "unset" /\ NoStatus.bs = NoState
  BY <1>2 DEF NoStatus, Status, Phases
<1>4. NoVBC \in VBC /\ NoVBC.rv = 0 /\ NoVBC.st = NoStatus /\ ~NoVBC.del /\ ~NoVBC.fin
  BY <1>3 DEF NoVBC, VBC
<1> QED BY <1>1, <1>2, <1>3, <1>4

\* The fields of an object
LEMMA VBCFields ==
    ASSUME NEW b \in VBC
    PROVE  /\ b.rv \in Nat /\ b.st \in Status /\ b.fin \in BOOLEAN /\ b.del \in BOOLEAN
           /\ b.st.phase \in Phases /\ b.st.bs \in BackupState /\ b.st.bs.run \in 0..MaxStarts
           /\ b.st.bs.prog \in [Volumes -> 0..Full] /\ b.st.bs.stamp \in 0..MaxPeriods
BY DEF VBC, Status, BackupState

\* A status with another phase
LEMMA PhaseType ==
    ASSUME NEW st \in Status, NEW ph \in Phases
    PROVE  /\ [st EXCEPT !.phase = ph] \in Status
           /\ [st EXCEPT !.phase = ph].phase = ph /\ [st EXCEPT !.phase = ph].bs = st.bs
BY DEF Status

\* A patch turns the stored object into one of its revision that differs in the status.
LEMMA PatchedType ==
    ASSUME api \in VBC, NEW old \in Status, NEW new \in Status
    PROVE  LET b == Patched(old, new) IN
           /\ b \in VBC /\ b.rv = api.rv /\ b.fin = api.fin /\ b.del = api.del
           /\ b.st.phase = IF new.phase # old.phase THEN new.phase ELSE api.st.phase
           /\ b.st.bs = IF new.bs # old.bs THEN new.bs ELSE api.st.bs
<1> DEFINE ph == IF new.phase # old.phase THEN new.phase ELSE api.st.phase
           bs == IF new.bs # old.bs THEN new.bs ELSE api.st.bs
           st == [api.st EXCEPT !.phase = ph, !.bs = bs]
<1>1. ph \in Phases /\ bs \in BackupState BY DEF VBC, Status
<1>2. Patched(old, new) = [api EXCEPT !.st = st] BY DEF Patched, VBC, Status
<1> HIDE DEF ph, bs
<1>3. st \in Status /\ st.phase = ph /\ st.bs = bs BY <1>1 DEF Status, VBC
<1> HIDE DEF st
<1>4. /\ [api EXCEPT !.st = st] \in VBC /\ [api EXCEPT !.st = st].st = st
      /\ [api EXCEPT !.st = st].rv = api.rv /\ [api EXCEPT !.st = st].fin = api.fin
      /\ [api EXCEPT !.st = st].del = api.del
  BY <1>3 DEF VBC
<1> QED BY <1>2, <1>3, <1>4 DEF ph, bs

\* What a write of b leaves: nothing new, or a new revision of which the informer hears.
Stored(b) ==
    /\ api' \in VBC /\ api'.st = b.st /\ api'.fin = b.fin /\ api'.del = b.del
    /\ \/ api' = api /\ watch' = watch
       \/ api'.rv = api.rv + 1 /\ watch' = Append(watch, api')

\* A write stores what it says.
LEMMA CommitStores ==
    ASSUME api \in VBC, watch \in Seq(VBC), NEW b \in VBC, Commit(b)
    PROVE  Stored(b) /\ watch' \in Seq(VBC)
<1> DEFINE new == [b EXCEPT !.rv = api.rv + 1]
<1>1. CASE b = api BY <1>1 DEF Commit, apiVars, Stored
<1>2. CASE b # api
  <2>1. api.rv + 1 \in Nat BY DEF VBC
  <2>2. /\ new \in VBC /\ new.st = b.st /\ new.fin = b.fin /\ new.del = b.del
        /\ new.rv = api.rv + 1
    BY <2>1 DEF VBC
  <2>3. api' = new /\ watch' = Append(watch, new) BY <1>2 DEF Commit
  <2> HIDE DEF new
  <2> QED BY <2>2, <2>3 DEF Stored
<1> QED BY <1>1, <1>2

\* A removal leaves nothing.
LEMMA RemoveType ==
    ASSUME watch \in Seq(VBC), Remove
    PROVE  api' = NoVBC /\ api' \in VBC /\ watch' = Append(watch, NoVBC) /\ watch' \in Seq(VBC)
BY NoVBCType DEF Remove

\* The end of a handler
LEMMA ReturnType ==
    ASSUME queued \in BOOLEAN, requeues \in 0..MaxRetry, Return \/ ReturnErr
    PROVE  /\ queued' \in BOOLEAN /\ requeues' \in 0..MaxRetry
           /\ pc' = "idle" /\ w' = NoVBC /\ wnew' = NoStatus
<1>1. pc' = "idle" /\ w' = NoVBC /\ wnew' = NoStatus BY Zenon DEF Return, ReturnErr, Idle
<1>2. queued' = queued \/ queued' = TRUE BY Zenon DEF Return, ReturnErr
<1>3. requeues' = 0 \/ (requeues < MaxRetry /\ requeues' = requeues + 1)
  BY Zenon DEF Return, ReturnErr
<1>4. requeues' \in 0..MaxRetry BY <1>3, ServiceAssumption
<1>5. queued' \in BOOLEAN BY <1>2, Zenon
<1> QED BY <1>1, <1>4, <1>5, Zenon

\* A failure is counted.
LEMMA FaultType ==
    ASSUME faults \in Nat, crashes \in Nat, Fault \/ UNCHANGED faults,
           faults + crashes <= MaxDisturbed, UNCHANGED crashes
    PROVE  /\ faults' \in Nat /\ faults' + crashes' <= MaxDisturbed
           /\ faults' >= faults /\ (Fault => faults' = faults + 1)
BY ServiceAssumption DEF Fault

\* StoreRevisionUpdate keeps the larger revision.
LEMMA StoreRevisionType ==
    ASSUME processed \in Nat, NEW rv \in Nat, StoreRevisionUpdate(rv)
    PROVE  /\ processed' \in Nat /\ processed' >= processed /\ processed' >= rv
           /\ processed' = processed \/ processed' = rv
BY DEF StoreRevisionUpdate

\* What a patch by the worker does: a write its copy then reflects, or an error.
LEMMA WorkerPatchOutcomes ==
    ASSUME TypeOK, NEW b \in VBC, NEW next \in Pcs, WorkerPatch(b, next)
    PROVE  \/ /\ api.rv # 0 /\ Stored(b) /\ StoreRevisionUpdate(api'.rv)
              /\ pc' = next /\ w' = api' /\ wnew' = api'.st
              /\ UNCHANGED <<queueVars, faults>>
           \/ /\ \/ api.rv = 0 /\ UNCHANGED <<apiVars, faults>>
                 \/ api.rv # 0 /\ Fault /\ (UNCHANGED apiVars \/ Stored(b))
              /\ ReturnErr /\ UNCHANGED processed
<1>1. api \in VBC /\ watch \in Seq(VBC) BY DEF TypeOK
<1>2. Commit(b) => Stored(b) BY <1>1, CommitStores
<1> QED BY <1>2, Zenon DEF WorkerPatch, Goto

\* Every step of the worker's patches keeps the types.
LEMMA WorkerPatchType ==
    ASSUME TypeOK, NEW b \in VBC, NEW next \in Pcs, WorkerPatch(b, next)
    PROVE  TypeOK'
<1>t. /\ api \in VBC /\ watch \in Seq(VBC) /\ processed \in Nat /\ queued \in BOOLEAN
      /\ requeues \in 0..MaxRetry /\ faults \in Nat /\ crashes \in Nat
      /\ faults + crashes <= MaxDisturbed
  BY Zenon DEF TypeOK
<1>1. UNCHANGED apiVars \/ Commit(b) BY Zenon DEF WorkerPatch
<1>2. api' \in VBC /\ watch' \in Seq(VBC) /\ api'.st \in Status /\ api'.rv \in Nat
  BY <1>1, <1>t, CommitStores DEF Stored, apiVars, VBC
<1>3. processed' \in Nat BY <1>2, <1>t, StoreRevisionType DEF WorkerPatch
<1>4. faults' \in Nat /\ faults' + crashes' <= MaxDisturbed /\ crashes' = crashes
  BY <1>t, FaultType DEF WorkerPatch
<1>5. pc' \in Pcs /\ w' \in VBC /\ wnew' \in Status
  <2>1. CASE ReturnErr BY <2>1, <1>t, ReturnType, NoVBCType DEF Pcs
  <2>2. CASE Goto(next, api', api'.st) BY <2>2, <1>2 DEF Goto
  <2> QED BY <2>1, <2>2, Zenon DEF WorkerPatch
<1>6. queued' \in BOOLEAN /\ requeues' \in 0..MaxRetry
  <2>1. CASE ReturnErr BY <2>1, <1>t, ReturnType
  <2>2. CASE Goto(next, api', api'.st) BY <2>2, <1>t, Zenon DEF Goto, queueVars
  <2> QED BY <2>1, <2>2, Zenon DEF WorkerPatch
<1>7. UNCHANGED <<cache, opVars, driverVars, clock, crashes>> BY Zenon DEF WorkerPatch
<1> QED BY <1>2, <1>3, <1>4, <1>5, <1>6, <1>7 DEF TypeOK, opVars, driverVars

\* A step without a call
LEMMA LocalType ==
    ASSUME TypeOK, NEW next \in Pcs \cup {"return"}, Local(next)
    PROVE  TypeOK'
<1>t. queued \in BOOLEAN /\ requeues \in 0..MaxRetry /\ w \in VBC /\ w.st \in Status
  BY DEF TypeOK, VBC
<1>1. pc' \in Pcs /\ w' \in VBC /\ wnew' \in Status
  <2>1. CASE Return BY <2>1, <1>t, ReturnType, NoVBCType DEF Pcs
  <2>2. CASE next # "return" /\ Goto(next, w, w.st) BY <2>2, <1>t DEF Goto
  <2> QED BY <2>1, <2>2, Zenon DEF Local
<1>2. queued' \in BOOLEAN /\ requeues' \in 0..MaxRetry
  <2>1. CASE Return BY <2>1, <1>t, ReturnType
  <2>2. CASE Goto(next, w, w.st) BY <2>2, <1>t, Zenon DEF Goto, queueVars
  <2> QED BY <2>1, <2>2, Zenon DEF Local
<1>3. UNCHANGED <<apiVars, cache, processed, opVars, driverVars, clock, faults, crashes>>
  BY Zenon DEF Local
<1> QED BY <1>1, <1>2, <1>3 DEF TypeOK, apiVars, opVars, driverVars

\* Patches of the worker that only set the phase
LEMMA PhasePatchType ==
    ASSUME TypeOK, NEW ph \in Phases
    PROVE  /\ w.st \in Status /\ o.st \in Status /\ wnew \in Status /\ onew \in Status
           /\ Patched(w.st, wnew) \in VBC /\ Patched(o.st, onew) \in VBC
           /\ Patched(w.st, [w.st EXCEPT !.phase = ph]) \in VBC
           /\ Patched(o.st, [o.st EXCEPT !.phase = ph]) \in VBC
<1>1. /\ api \in VBC /\ w.st \in Status /\ o.st \in Status /\ wnew \in Status /\ onew \in Status
  BY DEF TypeOK, VBC
<1> QED BY <1>1, PhaseType, PatchedType

\* Every step of the worker keeps the types.
LEMMA WorkerType ==
    ASSUME TypeOK, Worker
    PROVE  TypeOK'
<1>t. /\ api \in VBC /\ watch \in Seq(VBC) /\ processed \in Nat /\ queued \in BOOLEAN
      /\ requeues \in 0..MaxRetry /\ faults \in Nat /\ crashes \in Nat /\ cache \in VBC
      /\ faults + crashes <= MaxDisturbed /\ w \in VBC /\ w.st \in Status
      /\ starts \in 0..MaxStarts /\ live \in SUBSET (1..starts) /\ clock \in 0..MaxPeriods
  BY DEF TypeOK, VBC
<1>p. \A ph \in Phases : Patched(w.st, [w.st EXCEPT !.phase = ph]) \in VBC
  BY PhasePatchType
<1>q. "New" \in Phases /\ "Failed" \in Phases /\ "Deleting" \in Phases BY DEF Phases
<1>r. {"finalizer", "driver", "start", "run", "delDriver"} \subseteq Pcs BY DEF Pcs
<1>1. CASE ProcessQueue
  <2>1. queued' = FALSE BY <1>1 DEF ProcessQueue
  <2>2. CASE cache.rv = 0 \/ processed > cache.rv
    <3>1. /\ requeues' = 0 /\ UNCHANGED <<workerVars, processed>>
          /\ UNCHANGED <<apiVars, cache, opVars, driverVars, clock, faults, crashes>>
      BY <1>1, <2>2, Zenon DEF ProcessQueue
    <3>2. requeues' \in 0..MaxRetry BY <3>1, ServiceAssumption
    <3>3. queued' \in BOOLEAN BY <2>1, Zenon
    <3> QED BY <3>1, <3>2, <3>3 DEF TypeOK, apiVars, opVars, driverVars, workerVars
  <2>3. CASE ~(cache.rv = 0 \/ processed > cache.rv)
    <3>1. /\ processed' = cache.rv /\ w' = cache /\ wnew' = cache.st
          /\ pc' \in {"deleting", "init"}
      BY <1>1, <2>3 DEF ProcessQueue
    <3>2. processed' \in Nat /\ wnew' \in Status /\ pc' \in Pcs /\ w' \in VBC
      BY <3>1, <1>t, VBCFields DEF Pcs
    <3> QED
      BY <1>1, <2>1, <2>3, <3>2 DEF ProcessQueue, TypeOK, apiVars, opVars, driverVars
  <2> QED BY <2>2, <2>3
<1>2. CASE EnsureVolBackupInit
  BY <1>2, <1>p, <1>q, <1>r, WorkerPatchType, LocalType DEF EnsureVolBackupInit
<1>3. CASE EnsureFinalizer
  <2>1. [api EXCEPT !.fin = TRUE] \in VBC BY <1>t DEF VBC
  <2> QED BY <1>3, <2>1, <1>r, WorkerPatchType, LocalType DEF EnsureFinalizer
<1>4. CASE CheckVolumeBackupDriver
  <2>1. PICK next \in {"return", "start", "run"} : Local(next)
    BY <1>4 DEF CheckVolumeBackupDriver
  <2> QED BY <2>1, <1>r, LocalType
<1>5. CASE StartBackup
  <2>0. UNCHANGED <<apiVars, cache, processed, opVars, progress, clock, crashes>>
    BY <1>5 DEF StartBackup
  <2>1. starts' \in 0..MaxStarts /\ live' \in SUBSET (1..starts') /\ starts' = starts + 1
    BY <1>5, <1>t, ServiceAssumption DEF StartBackup
  <2> DEFINE st == [phase |-> "InProgress",
                    bs |-> [run |-> starts', prog |-> Untouched, stamp |-> clock]]
  <2>2. st \in Status BY <2>1, <1>t, NoVBCType DEF Status, BackupState, Phases
  <2>3. \/ Goto("started", w, st) /\ UNCHANGED faults
        \/ Fault /\ (Return \/ Goto("startFailed", w, w.st))
    BY <1>5 DEF StartBackup
  <2> HIDE DEF st
  <2>4. faults' \in Nat /\ faults' + crashes' <= MaxDisturbed
    BY <2>0, <2>3, <1>t, FaultType
  <2>5. pc' \in Pcs /\ w' \in VBC /\ wnew' \in Status
    BY <2>2, <2>3, <1>t, ReturnType, NoVBCType DEF Goto, Pcs
  <2>6. queued' \in BOOLEAN /\ requeues' \in 0..MaxRetry
    BY <2>3, <1>t, ReturnType DEF Goto, queueVars
  <2> QED BY <2>0, <2>1, <2>4, <2>5, <2>6 DEF TypeOK, apiVars, opVars
<1>6. CASE StartBackupFails
  <2>0. UNCHANGED <<apiVars, cache, processed, opVars, driverVars, clock, crashes>>
    BY <1>6 DEF StartBackupFails
  <2>1. Fault /\ (Return \/ Goto("startFailed", w, w.st)) BY <1>6 DEF StartBackupFails
  <2>2. faults' \in Nat /\ faults' + crashes' <= MaxDisturbed
    BY <2>0, <2>1, <1>t, FaultType
  <2>3. pc' \in Pcs /\ w' \in VBC /\ wnew' \in Status
    BY <2>1, <1>t, ReturnType, NoVBCType DEF Goto, Pcs
  <2>4. queued' \in BOOLEAN /\ requeues' \in 0..MaxRetry
    BY <2>1, <1>t, ReturnType DEF Goto, queueVars
  <2> QED BY <2>0, <2>2, <2>3, <2>4 DEF TypeOK, apiVars, opVars, driverVars
<1>7. CASE StartFailed
  <2> DEFINE b == Patched(w.st, [w.st EXCEPT !.phase = "Failed"])
  <2>1. b \in VBC BY <1>p, <1>q
  <2>2. /\ UNCHANGED apiVars \/ Commit(b)
        /\ Fault \/ UNCHANGED faults
        /\ StoreRevisionUpdate(api'.rv) \/ UNCHANGED processed
        /\ Return \/ ReturnErr
        /\ UNCHANGED <<cache, opVars, driverVars, clock, crashes>>
    BY <1>7, Zenon DEF StartFailed
  <2> HIDE DEF b
  <2>3. api' \in VBC /\ watch' \in Seq(VBC) /\ api'.rv \in Nat
    BY <2>1, <2>2, <1>t, CommitStores DEF Stored, apiVars, VBC
  <2>4. processed' \in Nat BY <2>2, <2>3, <1>t, StoreRevisionType
  <2>5. faults' \in Nat /\ faults' + crashes' <= MaxDisturbed BY <2>2, <1>t, FaultType
  <2>6. pc' \in Pcs /\ w' \in VBC /\ wnew' \in Status
    BY <2>2, <1>t, ReturnType, NoVBCType DEF Pcs
  <2>7. queued' \in BOOLEAN /\ requeues' \in 0..MaxRetry BY <2>2, <1>t, ReturnType
  <2> QED BY <2>2, <2>3, <2>4, <2>5, <2>6, <2>7 DEF TypeOK, opVars, driverVars
<1>8. CASE Started
  BY <1>8, <1>q, <1>r, PhasePatchType, WorkerPatchType DEF Started
<1>9. CASE RunOperation
  <2>1. Return /\ UNCHANGED <<apiVars, cache, processed, driverVars, clock, faults, crashes>>
    BY <1>9 DEF RunOperation
  <2>2. opc' \in OPcs /\ o' \in VBC /\ onew' \in Status /\ due' \in Nat
    BY <1>9, <1>t, VBCFields DEF RunOperation, OPcs, opVars, TypeOK
  <2>3. pc' \in Pcs /\ w' \in VBC /\ wnew' \in Status
    BY <2>1, <1>t, ReturnType, NoVBCType DEF Pcs
  <2>4. queued' \in BOOLEAN /\ requeues' \in 0..MaxRetry BY <2>1, <1>t, ReturnType
  <2> QED BY <2>1, <2>2, <2>3, <2>4 DEF TypeOK, apiVars, driverVars
<1>10. CASE UpdateDeleting
  <2>1. \/ Local("return")
        \/ WorkerPatch(Patched(w.st, [w.st EXCEPT !.phase = "Deleting"]), "delDriver")
    BY <1>10, Zenon DEF UpdateDeleting
  <2> QED BY <2>1, <1>p, <1>q, <1>r, WorkerPatchType, LocalType
<1>11. CASE DeleteBackup
  <2>0. UNCHANGED <<apiVars, cache, processed, opVars, starts, progress, clock, crashes>>
    BY <1>11 DEF DeleteBackup
  <2>1. live' \in SUBSET (1..starts') BY <1>11, <1>t DEF DeleteBackup
  <2>2. \/ Goto("delFinalizer", w, w.st) /\ UNCHANGED faults
        \/ Fault /\ (Return \/ ReturnErr)
    BY <1>11, Zenon DEF DeleteBackup
  <2>3. faults' \in Nat /\ faults' + crashes' <= MaxDisturbed
    BY <2>0, <2>2, <1>t, FaultType
  <2>4. pc' \in Pcs /\ w' \in VBC /\ wnew' \in Status
    BY <2>2, <1>t, ReturnType, NoVBCType DEF Goto, Pcs
  <2>5. queued' \in BOOLEAN /\ requeues' \in 0..MaxRetry
    BY <2>2, <1>t, ReturnType DEF Goto, queueVars
  <2> QED BY <2>0, <2>1, <2>3, <2>4, <2>5 DEF TypeOK, apiVars, opVars
<1>12. CASE EnsureFinalizerRemove
  <2>1. /\ UNCHANGED apiVars \/ Remove
        /\ Fault \/ UNCHANGED faults
        /\ processed' = 0 \/ UNCHANGED processed
        /\ Return \/ ReturnErr
        /\ UNCHANGED <<cache, opVars, driverVars, clock, crashes>>
    BY <1>12, Zenon DEF EnsureFinalizerRemove
  <2>2. api' \in VBC /\ watch' \in Seq(VBC) BY <2>1, <1>t, RemoveType DEF apiVars
  <2>3. faults' \in Nat /\ faults' + crashes' <= MaxDisturbed BY <2>1, <1>t, FaultType
  <2>4. pc' \in Pcs /\ w' \in VBC /\ wnew' \in Status
    BY <2>1, <1>t, ReturnType, NoVBCType DEF Pcs
  <2>5. queued' \in BOOLEAN /\ requeues' \in 0..MaxRetry BY <2>1, <1>t, ReturnType
  <2> QED BY <1>t, <2>1, <2>2, <2>3, <2>4, <2>5 DEF TypeOK, opVars, driverVars
<1> QED
  BY <1>1, <1>2, <1>3, <1>4, <1>5, <1>6, <1>7, <1>8, <1>9, <1>10, <1>11, <1>12 DEF Worker

\* What syncBackupStat makes of a status
LEMMA SyncType ==
    ASSUME TypeOK, NEW st \in Status
    PROVE  /\ SyncBackupStat(st) \in Status
           /\ SyncBackupStat(st).bs.run = st.bs.run
           /\ SyncBackupStat(st).phase \in {"Completed", "Failed", st.phase}
<1> DEFINE now == IF st.bs.run = 0 THEN Untouched ELSE progress[st.bs.run]
           prog == [v \in Volumes |-> IF now[v] > st.bs.prog[v] THEN now[v] ELSE st.bs.prog[v]]
           stamp == IF prog # st.bs.prog THEN clock ELSE st.bs.stamp
           bs == [run |-> st.bs.run, prog |-> prog, stamp |-> stamp]
           ph == IF ProgressCompleted(prog) THEN "Completed"
                 ELSE IF ProgressTimeout(bs.stamp) THEN "Failed" ELSE st.phase
<1>1. /\ st.bs.run \in 0..MaxStarts /\ st.bs.prog \in [Volumes -> 0..Full]
      /\ st.bs.stamp \in 0..MaxPeriods /\ st.phase \in Phases
  BY DEF Status, BackupState
<1>2. now \in [Volumes -> 0..Full] BY <1>1, NoVBCType, ServiceAssumption DEF TypeOK, Runs
<1> HIDE DEF now
<1>3. prog \in [Volumes -> 0..Full] BY <1>1, <1>2
<1> HIDE DEF prog
<1>4. stamp \in 0..MaxPeriods BY <1>1 DEF TypeOK
<1> HIDE DEF stamp
<1>5. bs \in BackupState /\ bs.run = st.bs.run BY <1>1, <1>3, <1>4 DEF BackupState
<1>6. ph \in Phases /\ ph \in {"Completed", "Failed", st.phase} BY <1>1 DEF Phases
<1>7. SyncBackupStat(st) = [phase |-> ph, bs |-> bs]
  BY Zenon DEF SyncBackupStat, ph, bs, stamp, prog, now
<1> HIDE DEF ph, bs
<1> QED BY <1>5, <1>6, <1>7 DEF Status
\* What a step of the operation does to everything but the object
LEMMA OpGotoLeaves ==
    ASSUME NEW next, NEW b, NEW st, OpGoto(next, b, st)
    PROVE  /\ opc' = next /\ o' = b /\ onew' = st
           /\ UNCHANGED <<cache, queued, requeues, pc, w, wnew, starts, live, progress, clock,
                          crashes>>
BY DEF OpGoto, queueVars, workerVars

\* Every step of the operation keeps the types.
LEMMA OperationType ==
    ASSUME TypeOK, Operation
    PROVE  TypeOK'
<1>t. /\ api \in VBC /\ watch \in Seq(VBC) /\ processed \in Nat /\ cache \in VBC
      /\ faults \in Nat /\ crashes \in Nat /\ faults + crashes <= MaxDisturbed
      /\ o \in VBC /\ o.st \in Status /\ cache.st \in Status /\ due \in Nat /\ api.rv \in Nat
  BY DEF TypeOK, VBC
<1>n. /\ NoVBC \in VBC /\ NoStatus \in Status /\ "Completed" \in Phases /\ "Failed" \in Phases
  BY NoVBCType DEF Phases
<1>1. ASSUME NEW next \in OPcs, NEW b \in VBC, NEW st \in Status, OpGoto(next, b, st),
             due' \in Nat, api' \in VBC, watch' \in Seq(VBC), processed' \in Nat,
             Fault \/ UNCHANGED faults
      PROVE  TypeOK'
  <2>1. /\ opc' = next /\ o' = b /\ onew' = st
        /\ UNCHANGED <<cache, queued, requeues, pc, w, wnew, starts, live, progress, clock,
                       crashes>>
    BY <1>1, OpGotoLeaves
  <2>2. faults' \in Nat /\ faults' + crashes' <= MaxDisturbed BY <1>1, <1>t, <2>1, FaultType
  <2> QED BY <1>1, <2>1, <2>2 DEF TypeOK
<1>2. ASSUME NEW b \in VBC, Commit(b) \/ UNCHANGED apiVars,
             StoreRevisionUpdate(api'.rv) \/ UNCHANGED processed
      PROVE  api' \in VBC /\ watch' \in Seq(VBC) /\ processed' \in Nat /\ api'.rv \in Nat
  <2>1. api' \in VBC /\ watch' \in Seq(VBC) /\ api'.rv \in Nat
    BY <1>2, <1>t, CommitStores DEF Stored, apiVars, VBC
  <2> QED BY <1>2, <1>t, <2>1, StoreRevisionType
<1>o. {"success", "stat", "tick", "update", "failure", "complete", "fail", "exit", "none"}
        \subseteq OPcs
  BY DEF OPcs
<1>s. ASSUME UNCHANGED apiVars
      PROVE  api' \in VBC /\ watch' \in Seq(VBC) /\ api'.rv \in Nat
  BY <1>s, <1>t DEF apiVars
<1>3. CASE OpTick
  <2>1. \/ OpGoto("success", NoVBC, NoStatus)
        \/ OpGoto("stat", cache, cache.st)
    BY <1>3, Zenon DEF OpTick
  <2>2. UNCHANGED <<apiVars, processed, due, faults>> BY <1>3 DEF OpTick
  <2> QED BY <2>1, <2>2, <1>1, <1>s, <1>t, <1>n, <1>o
<1>4. CASE OpStat
  <2>1. OpGoto("update", o, SyncBackupStat(o.st)) BY <1>4 DEF OpStat
  <2>2. UNCHANGED <<apiVars, processed, due, faults>> BY <1>4 DEF OpStat
  <2> QED BY <2>1, <2>2, <1>1, <1>s, <1>t, <1>o, SyncType
<1>5. CASE OpStatFails
  <2>1. OpWait \/ (OpGoto("failure", NoVBC, NoStatus) /\ UNCHANGED due)
    BY <1>5, Zenon DEF OpStatFails
  <2>2. UNCHANGED <<apiVars, processed>> /\ Fault BY <1>5 DEF OpStatFails
  <2> QED BY <2>1, <2>2, <1>1, <1>s, <1>t, <1>n, <1>o DEF OpWait
<1>6. CASE OpUpdate
  <2> DEFINE b == Patched(o.st, onew)
  <2>1. b \in VBC BY PhasePatchType, <1>n
  <2>2. /\ Commit(b) \/ UNCHANGED apiVars
        /\ StoreRevisionUpdate(api'.rv) \/ UNCHANGED processed
        /\ Fault \/ UNCHANGED faults
        /\ \E next \in {"success", "tick"} : OpGoto(next, NoVBC, NoStatus)
        /\ due' = due \/ due' = api'.rv
    BY <1>6, Zenon DEF OpUpdate
  <2> HIDE DEF b
  <2>3. api' \in VBC /\ watch' \in Seq(VBC) /\ processed' \in Nat /\ api'.rv \in Nat
    BY <2>1, <2>2, <1>2
  <2> QED BY <2>2, <2>3, <1>1, <1>t, <1>n, <1>o
<1>7. ASSUME NEW at \in OPcs, NEW next \in OPcs, OpOutcome(at, next)
      PROVE  TypeOK'
  <2>1. \/ OpGoto("exit", NoVBC, NoStatus)
        \/ OpGoto(next, cache, cache.st)
    BY <1>7, Zenon DEF OpOutcome
  <2>2. UNCHANGED <<apiVars, processed, due, faults>> BY <1>7 DEF OpOutcome
  <2> QED BY <2>1, <2>2, <1>1, <1>s, <1>t, <1>n, <1>o
<1>8. ASSUME NEW at \in OPcs, NEW ph \in Phases, OpRecord(at, ph)
      PROVE  TypeOK'
  <2> DEFINE b == Patched(o.st, [o.st EXCEPT !.phase = ph])
  <2>1. b \in VBC BY PhasePatchType
  <2>2. /\ Commit(b) \/ UNCHANGED apiVars
        /\ StoreRevisionUpdate(api'.rv) \/ UNCHANGED processed
        /\ Fault \/ UNCHANGED faults
        /\ OpGoto("exit", NoVBC, NoStatus)
        /\ due' = due
    BY <1>8, Zenon DEF OpRecord
  <2> HIDE DEF b
  <2>3. api' \in VBC /\ watch' \in Seq(VBC) /\ processed' \in Nat BY <2>1, <2>2, <1>2
  <2> QED BY <2>2, <2>3, <1>1, <1>t, <1>n, <1>o
<1>9. CASE OpExit
  <2>1. OpGoto("none", NoVBC, NoStatus) BY <1>9 DEF OpExit
  <2>2. UNCHANGED <<apiVars, processed, faults>> /\ due' = 0 BY <1>9 DEF OpExit
  <2> QED BY <2>1, <2>2, <1>1, <1>s, <1>t, <1>n, <1>o
<1>10. /\ "success" \in OPcs /\ "complete" \in OPcs /\ "failure" \in OPcs /\ "fail" \in OPcs
  BY <1>o
<1> QED BY <1>3, <1>4, <1>5, <1>6, <1>7, <1>8, <1>9, <1>10, <1>n DEF Operation

\* Every other step keeps the types.
LEMMA EnvironmentType ==
    ASSUME TypeOK,
           \/ Informer \/ ReSync \/ Assign \/ DeleteVBC \/ DriverProgress \/ TimePasses \/ Crash
           \/ UNCHANGED vars
    PROVE  TypeOK'
<1>t. api \in VBC /\ watch \in Seq(VBC) /\ queued \in BOOLEAN BY DEF TypeOK
<1>1. CASE Informer
  <2>1. cache' \in VBC /\ watch' \in Seq(VBC) BY <1>1, <1>t DEF Informer
  <2>2. queued' \in BOOLEAN BY <1>1, Zenon DEF Informer
  <2> QED BY <1>1, <2>1, <2>2 DEF Informer, TypeOK, workerVars, opVars, driverVars
<1>2. CASE ReSync
  BY <1>2 DEF ReSync, TypeOK, apiVars, workerVars, opVars, driverVars
<1>3. CASE Assign
  <2> DEFINE b == [api EXCEPT !.prov = TRUE]
  <2>1. b \in VBC /\ Commit(b) BY <1>3, <1>t DEF Assign, VBC
  <2> HIDE DEF b
  <2>2. api' \in VBC /\ watch' \in Seq(VBC) BY <2>1, <1>t, CommitStores DEF Stored
  <2> QED BY <1>3, <2>2 DEF Assign, EnvUnchanged, TypeOK, queueVars, workerVars, opVars, driverVars
<1>4. CASE DeleteVBC
  <2> DEFINE b == [api EXCEPT !.del = TRUE]
  <2>1. b \in VBC /\ (Commit(b) \/ Remove) BY <1>4, <1>t DEF DeleteVBC, VBC
  <2> HIDE DEF b
  <2>2. api' \in VBC /\ watch' \in Seq(VBC)
    BY <2>1, <1>t, CommitStores, RemoveType DEF Stored
  <2> QED
    BY <1>4, <2>2 DEF DeleteVBC, EnvUnchanged, TypeOK, queueVars, workerVars, opVars, driverVars
<1>5. CASE DriverProgress
  <2>1. PICK r \in live, v \in Volumes :
            progress[r][v] < Full /\ progress' = [progress EXCEPT ![r][v] = @ + 1]
    BY <1>5 DEF DriverProgress
  <2>2. r \in Runs /\ progress \in [Runs -> [Volumes -> 0..Full]]
    BY ServiceAssumption DEF TypeOK, Runs
  <2>3. progress[r] \in [Volumes -> 0..Full] /\ progress[r][v] + 1 \in 0..Full
    BY <2>1, <2>2, ServiceAssumption
  <2>4. [progress[r] EXCEPT ![v] = @ + 1] \in [Volumes -> 0..Full] BY <2>3
  <2>5. progress' \in [Runs -> [Volumes -> 0..Full]] BY <2>1, <2>2, <2>4
  <2> QED
    BY <1>5, <2>5 DEF DriverProgress, EnvUnchanged, TypeOK, apiVars, queueVars, workerVars, opVars
<1>6. CASE TimePasses
  <2>1. clock' \in 0..MaxPeriods BY <1>6, ServiceAssumption DEF TimePasses, TypeOK
  <2> QED
    BY <1>6, <2>1 DEF TimePasses, EnvUnchanged, TypeOK, apiVars, queueVars, workerVars, opVars,
       driverVars
<1>7. CASE Crash
  <2>1. /\ cache' \in VBC /\ watch' \in Seq(VBC) /\ processed' \in Nat /\ due' \in Nat
        /\ crashes' \in Nat /\ faults' + crashes' <= MaxDisturbed /\ faults' \in Nat
        /\ requeues' \in 0..MaxRetry
    BY <1>7, <1>t, ServiceAssumption DEF Crash, TypeOK
  <2>2. queued' \in BOOLEAN BY <1>7, Zenon DEF Crash
  <2>3. /\ w' \in VBC /\ wnew' \in Status /\ o' \in VBC /\ onew' \in Status
        /\ pc' \in Pcs /\ opc' \in OPcs
    BY <1>7, NoVBCType DEF Crash, Idle, Pcs, OPcs
  <2> QED BY <1>7, <2>1, <2>2, <2>3 DEF Crash, TypeOK, driverVars
<1>8. CASE UNCHANGED vars BY <1>8 DEF vars, TypeOK
<1> QED BY <1>1, <1>2, <1>3, <1>4, <1>5, <1>6, <1>7, <1>8

\* Every step keeps the types.
LEMMA NextType ==
    ASSUME TypeOK, [Next]_vars
    PROVE  TypeOK'
BY WorkerType, OperationType, EnvironmentType DEF Next

\* The initial states have the right types.
LEMMA InitType ==
    ASSUME Init
    PROVE  TypeOK
<1>1. api \in VBC BY NoVBCType DEF Init, VBC
<1>2. watch \in Seq(VBC) BY <1>1 DEF Init
<1>3. /\ cache \in VBC /\ w \in VBC /\ o \in VBC /\ wnew \in Status /\ onew \in Status
      /\ pc \in Pcs /\ opc \in OPcs
  BY NoVBCType DEF Init, Pcs, OPcs
<1>4. queued \in BOOLEAN BY Zenon DEF Init
<1>5. /\ requeues \in 0..MaxRetry /\ processed \in Nat /\ due \in Nat /\ starts \in 0..MaxStarts
      /\ live \in SUBSET (1..starts) /\ clock \in 0..MaxPeriods /\ faults \in Nat
      /\ crashes \in Nat /\ faults + crashes <= MaxDisturbed
  BY ServiceAssumption DEF Init
<1>6. progress \in [Runs -> [Volumes -> 0..Full]] BY NoVBCType DEF Init
<1> QED BY <1>1, <1>2, <1>3, <1>4, <1>5, <1>6 DEF TypeOK

\* Type correctness: the object, its copies, the driver's runs and the progress have the
\* values the code gives them.
THEOREM TypeCorrect == Spec => []TypeOK
<1>1. Init => TypeOK BY InitType
<1>2. TypeOK /\ [Next]_vars => TypeOK' BY NextType
<1> QED BY <1>1, <1>2, PTL DEF Spec
-----------------------------------------------------------------------------
(* The server, its events and the lister                                       *)

\* What a step may do to the object and its copies: nothing; a new revision that keeps
\* finalizer and deletion; a removal; the delivery of an event; a restart of the
\* informer.
Server ==
    \/ UNCHANGED <<api, watch, cache>>
    \/ /\ api.rv # 0 /\ api'.rv = api.rv + 1
       /\ watch' = Append(watch, api') /\ cache' = cache
       /\ (api.fin => api'.fin) /\ (api.del => api'.del)
    \/ api' = NoVBC /\ watch' = Append(watch, NoVBC) /\ cache' = cache
    \/ watch # <<>> /\ api' = api /\ cache' = Head(watch) /\ watch' = Tail(watch)
    \/ api' = api /\ cache' = api /\ watch' = <<>>

\* The copies the lister may come to see are objects.
LEMMA ArrivingType == TypeOK => Arriving \subseteq VBC
BY DEF TypeOK, Arriving

\* What the lister may come to see after a step it may have seen before, or is the
\* stored object.
LEMMA ArrivingNext ==
    ASSUME TypeOK, TypeOK', Server
    PROVE  Arriving' \subseteq Arriving \cup {api'}
<1>t. watch \in Seq(VBC) /\ watch' \in Seq(VBC) BY DEF TypeOK
<1>1. CASE cache' = cache /\ watch' = watch BY <1>1 DEF Arriving
<1>2. CASE cache' = cache /\ watch' = Append(watch, api') BY <1>t, <1>2 DEF Arriving
<1>3. CASE watch # <<>> /\ cache' = Head(watch) /\ watch' = Tail(watch)
  <2>1. cache' = watch[1] /\ 1 \in DOMAIN watch BY <1>t, <1>3
  <2>2. \A i \in DOMAIN watch' : i + 1 \in DOMAIN watch /\ watch'[i] = watch[i + 1]
    BY <1>t, <1>3
  <2> QED BY <2>1, <2>2 DEF Arriving
<1>4. CASE api' = api /\ cache' = api /\ watch' = <<>> BY <1>4 DEF Arriving
<1> QED BY <1>1, <1>2, <1>3, <1>4, NoVBCType DEF Server

\* Copies stay behind the stored object, and a deletion stays the last word.
LEMMA ServerKeeps ==
    ASSUME TypeOK, TypeOK', CopiesBehind, DeletionLast, Server,
           api'.rv # 0 => processed' <= api'.rv
    PROVE  CopiesBehind' /\ DeletionLast'
<1>t. /\ watch \in Seq(VBC) /\ watch' \in Seq(VBC) /\ api \in VBC /\ api' \in VBC
      /\ api.rv \in Nat /\ api'.rv \in Nat
  BY VBCFields DEF TypeOK
<1>n. NoVBC.rv = 0 /\ ~NoVBC.del BY NoVBCType
<1>a. Arriving' \subseteq Arriving \cup {api'} /\ Arriving \subseteq VBC
  BY ArrivingNext, ArrivingType
<1>b. \A c \in Arriving : c.rv \in Nat BY <1>a, VBCFields
<1>1. CopiesBehind'
  <2> SUFFICES ASSUME api'.rv # 0, NEW c \in Arriving'
               PROVE  c.rv <= api'.rv /\ (c.fin => api'.fin) /\ (c.del => api'.del)
    BY DEF CopiesBehind
  <2>1. c = api' \/ c \in Arriving BY <1>a
  <2>2. CASE c = api' BY <2>2, <1>t
  <2>3. CASE c \in Arriving
    <3>1. /\ api.rv # 0 /\ api.rv <= api'.rv
          /\ (api.fin => api'.fin) /\ (api.del => api'.del)
      BY <1>t, <1>n DEF Server
    <3> QED BY <2>3, <3>1, <1>t, <1>b DEF CopiesBehind
  <2> QED BY <2>1, <2>2, <2>3
<1>2. DeletionLast'
  <2>1. CASE UNCHANGED <<api, watch, cache>> BY <2>1 DEF DeletionLast
  <2>2. CASE /\ watch' = Append(watch, api') /\ cache' = cache
             /\ \A c \in Arriving : c.del => api'.rv = 0 \/ api'.del
    <3>1. \A i \in DOMAIN watch' : \/ i \in DOMAIN watch /\ watch'[i] = watch[i]
                                   \/ i = Len(watch) + 1 /\ watch'[i] = api'
      BY <1>t, <2>2
    <3>2. DOMAIN watch = 1..Len(watch) BY <1>t
    <3>3. cache \in Arriving /\ \A i \in DOMAIN watch : watch[i] \in Arriving BY DEF Arriving
    <3> QED BY <2>2, <3>1, <3>2, <3>3 DEF DeletionLast
  <2>3. CASE watch # <<>> /\ cache' = Head(watch) /\ watch' = Tail(watch)
    <3>1. cache' = watch[1] /\ 1 \in DOMAIN watch BY <1>t, <2>3
    <3>2. \A i \in DOMAIN watch' : /\ i \in Nat /\ i + 1 \in DOMAIN watch /\ 1 < i + 1
                                   /\ watch'[i] = watch[i + 1]
      BY <1>t, <2>3
    <3> QED BY <3>1, <3>2 DEF DeletionLast
  <2>4. CASE watch' = <<>> BY <2>4 DEF DeletionLast
  <2>5. CASE api' = NoVBC /\ watch' = Append(watch, NoVBC) /\ cache' = cache
    BY <2>5, <2>2, <1>n
  <2>6. CASE /\ api.rv # 0 /\ watch' = Append(watch, api') /\ cache' = cache
             /\ (api.del => api'.del)
    BY <2>6, <2>2 DEF CopiesBehind
  <2> QED BY <2>1, <2>3, <2>4, <2>5, <2>6 DEF Server
<1> QED BY <1>1, <1>2

\* A write of the server is one of its steps.
LEMMA StoredServer ==
    ASSUME TypeOK, api.rv # 0, NEW b \in VBC, Stored(b), cache' = cache,
           api.fin => b.fin, api.del => b.del
    PROVE  /\ Server /\ api'.rv # 0 /\ api'.rv >= api.rv /\ api'.rv \in Nat /\ api.rv \in Nat
           /\ api'.st = b.st /\ api'.fin = b.fin /\ api'.del = b.del
           /\ api' = api \/ api'.rv > api.rv
BY DEF Stored, Server, TypeOK, VBC
-----------------------------------------------------------------------------
(* Steps                                                                       *)

\* A step that starts nothing, neither creates nor removes the object, and leaves it with
\* a status that tells as much as before.
Steady ==
    /\ Server
    /\ starts' = starts /\ live' \subseteq live
    /\ Disturbances' >= Disturbances
    /\ api'.rv = 0 <=> api.rv = 0
    /\ api'.rv # 0 => processed' <= api'.rv
    /\ (api.fin => api'.fin) /\ (api.del => api'.del)
    /\ HandlesKnown(api.st)'

\* Disturbances are counted, and only ever more.
LEMMA DisturbancesType == TypeOK => Disturbances \in Nat /\ starts \in Nat
BY ServiceAssumption DEF TypeOK, Disturbances

\* A sum of natural numbers
LEMMA SumType == \A a, b \in Nat : a + b \in Nat /\ (a + 1) + b = (a + b) + 1 /\ a + (b + 1) = (a + b) + 1
OBVIOUS

\* A failed call and a crash each count for one disturbance.
LEMMA DisturbancesNext ==
    ASSUME TypeOK, TypeOK'
    PROVE  /\ Disturbances \in Nat /\ Disturbances' \in Nat
           /\ UNCHANGED <<faults, crashes>> => Disturbances' = Disturbances
           /\ Fault /\ UNCHANGED crashes => Disturbances' = Disturbances + 1
           /\ UNCHANGED faults /\ crashes' = crashes + 1 => Disturbances' = Disturbances + 1
<1>1. faults \in Nat /\ crashes \in Nat /\ faults' \in Nat /\ crashes' \in Nat BY DEF TypeOK
<1>2. Disturbances \in Nat BY <1>1 DEF Disturbances
<1>3. Disturbances' \in Nat BY <1>1, SumType, Zenon DEF Disturbances
<1>4. ASSUME UNCHANGED <<faults, crashes>> PROVE Disturbances' = Disturbances
  BY <1>4 DEF Disturbances
<1>5. ASSUME faults' = faults + 1, crashes' = crashes PROVE Disturbances' = Disturbances + 1
  BY <1>1, <1>5, SumType, Zenon DEF Disturbances
<1>6. ASSUME faults' = faults, crashes' = crashes + 1 PROVE Disturbances' = Disturbances + 1
  BY <1>1, <1>6, SumType, Zenon DEF Disturbances
<1> QED BY <1>2, <1>3, <1>4, <1>5, <1>6 DEF Fault

\* Fewer runs fit into a smaller number.
LEMMA LiveBound ==
    ASSUME TypeOK
    PROVE  /\ IsFiniteSet(live) /\ Cardinality(live) \in Nat /\ Cardinality(live) <= starts
           /\ \A l \in SUBSET live : IsFiniteSet(l) /\ Cardinality(l) <= Cardinality(live)
           /\ \A r \in 1..starts : r \notin live => Cardinality(live) <= starts - 1
<1>1. starts \in Nat /\ live \subseteq 1..starts BY ServiceAssumption DEF TypeOK
<1>2. IsFiniteSet(1..starts) /\ Cardinality(1..starts) = starts BY <1>1, FS_Interval
<1>3. IsFiniteSet(live) /\ Cardinality(live) <= starts BY <1>1, <1>2, FS_Subset
<1>4. \A l \in SUBSET live : IsFiniteSet(l) /\ Cardinality(l) <= Cardinality(live)
  BY <1>3, FS_Subset
<1>5. ASSUME NEW r \in 1..starts, r \notin live
      PROVE  Cardinality(live) <= starts - 1
  <2>1. /\ IsFiniteSet((1..starts) \ {r})
        /\ Cardinality((1..starts) \ {r}) = Cardinality(1..starts) - 1
    BY <1>2, FS_RemoveElement
  <2>2. live \subseteq (1..starts) \ {r} BY <1>1, <1>5
  <2>3. Cardinality(live) <= Cardinality((1..starts) \ {r}) BY <2>1, <2>2, FS_Subset
  <2> QED BY <1>2, <2>1, <2>3
<1> QED BY <1>3, <1>4, <1>5, FS_CardinalityType

\* A steady step keeps the invariant if it is right about the worker and the operation,
\* and if every copy that is not older than the stored revision is settled.
LEMMA SteadyKeeps ==
    ASSUME IInv, TypeOK', Steady, WorkerHolds', OperationHolds',
           pc' = "started" => pc = "started",
           api'.rv # 0 /\ pc' # "started" =>
               \A c \in Arriving \cup {api'} : c.rv # 0 /\ c.rv >= processed' => Settled(c.st)'
    PROVE  IInv'
<1>t. /\ starts \in Nat /\ Disturbances \in Nat /\ Disturbances' \in Nat
      /\ processed \in Nat /\ processed' \in Nat
  BY DisturbancesType, DisturbancesNext DEF IInv, TypeOK
<1>a. Arriving' \subseteq Arriving \cup {api'} /\ Arriving \subseteq VBC
  BY ArrivingNext, ArrivingType DEF IInv, Steady
<1>b. Copies' \subseteq Arriving \cup {api'} BY <1>a DEF Copies
<1>1. CopiesBehind' /\ DeletionLast' BY ServerKeeps DEF IInv, Steady
<1>2. FinalizerFirst'
  <2>1. starts' > 0 => api'.rv = 0 \/ api'.fin BY DEF IInv, FinalizerFirst, Steady
  <2>2. api'.rv = 0 => \A c \in Arriving' : c.rv = 0 \/ c.del \/ ~c.fin
    BY <1>a DEF IInv, FinalizerFirst, Steady
  <2> QED BY <2>1, <2>2 DEF FinalizerFirst
<1>3. CopiesSettled'
  <2>1. ASSUME NEW c \in Arriving PROVE HandlesKnown(c.st)'
    <3>1. c.st.bs.run \in Nat BY <1>a, VBCFields
    <3>2. HandlesKnown(c.st) BY DEF IInv, CopiesSettled, Copies
    <3> QED BY <3>1, <3>2, <1>t DEF HandlesKnown, Recorded, Steady
  <2>2. \A c \in Copies' : HandlesKnown(c.st)'
    <3> SUFFICES ASSUME NEW c \in Copies' PROVE HandlesKnown(c.st)' OBVIOUS
    <3>1. CASE c \in Arriving BY <3>1, <2>1
    <3>2. CASE c = api' BY <3>2 DEF Steady, HandlesKnown, Recorded
    <3> QED BY <3>1, <3>2, <1>b
  <2>3. api'.rv # 0 /\ pc' # "started" =>
            \A c \in Copies' : c.rv # 0 /\ c.rv >= processed' => Settled(c.st)'
    BY <1>b
  <2> QED BY <2>2, <2>3 DEF CopiesSettled
<1>s. starts' = starts /\ Disturbances' >= Disturbances BY DEF Steady
<1>4. StartsPaidFor'
  <2>1. StartsPaidFor BY DEF IInv
  <2>2. PICK d \in Nat : d = Disturbances' BY <1>t
  <2>3. d >= Disturbances BY <2>2, <1>s
  <2>4. starts <= 1 + d BY <2>1, <2>3, <1>t DEF StartsPaidFor
  <2> QED BY <2>2, <2>4, <1>s, Zenon DEF StartsPaidFor
<1>5. OrphansPaidFor'
  <2>1. IsFiniteSet(live) /\ Cardinality(live) \in Nat /\ Cardinality(live') <= Cardinality(live)
    BY LiveBound DEF IInv, Steady
  <2>2. Cardinality(live') \in Nat
    BY <2>1, FS_Subset, FS_CardinalityType DEF Steady
  <2>3. OrphansPaidFor /\ (api'.rv = 0 => api.rv = 0) BY DEF IInv, Steady
  <2> QED BY <2>1, <2>2, <2>3, <1>s, <1>t DEF OrphansPaidFor
<1> QED BY <1>1, <1>2, <1>3, <1>4, <1>5 DEF IInv

\* A step that was paid for: everything is settled after it.
LEMMA PaidSettles ==
    ASSUME IInv, TypeOK', starts' = starts, Disturbances' > Disturbances
    PROVE  \A st : Settled(st)'
<1>t. starts \in Nat /\ Disturbances \in Nat /\ Disturbances' \in Nat
  BY DisturbancesType, DisturbancesNext DEF IInv
<1>1. StartsPaidFor BY DEF IInv
<1>2. starts' <= Disturbances' BY <1>1, <1>t DEF StartsPaidFor
<1> QED BY <1>2 DEF Settled

\* Outside of "started" a step that costs nothing and does not unsettle the stored object
\* leaves the copies settled.
LEMMA CopiesStaySettled ==
    ASSUME IInv, TypeOK', Steady, pc # "started", processed' >= processed \/ processed' = processed,
           Settled(api.st) => Settled(api.st)'
    PROVE  api'.rv # 0 =>
               \A c \in Arriving \cup {api'} : c.rv # 0 /\ c.rv >= processed' => Settled(c.st)'
<1>t. /\ starts \in Nat /\ Disturbances \in Nat /\ Disturbances' \in Nat
      /\ processed \in Nat /\ processed' \in Nat /\ api.rv \in Nat
  BY DisturbancesType, DisturbancesNext, VBCFields DEF IInv, TypeOK
<1>a. \A c \in Arriving : c.rv \in Nat BY ArrivingType, VBCFields DEF IInv
<1> SUFFICES ASSUME api'.rv # 0, NEW c \in Arriving \cup {api'}, c.rv # 0, c.rv >= processed'
             PROVE  Settled(c.st)'
  OBVIOUS
<1>0. api.rv # 0 /\ processed <= api.rv BY DEF Steady, IInv, CopiesBehind
<1>1. CASE c \in Arriving
  <2>1. c.rv >= processed BY <1>1, <1>a, <1>t
  <2>2. Settled(c.st) BY <1>0, <1>1, <2>1 DEF IInv, CopiesSettled, Copies
  <2>3. starts' = starts /\ Disturbances' >= Disturbances BY DEF Steady
  <2> QED BY <2>2, <2>3, <1>t DEF Settled
<1>2. CASE c = api'
  <2>1. Settled(api.st) BY <1>0, <1>t DEF IInv, CopiesSettled, Copies
  <2> QED BY <1>2, <2>1 DEF Settled
<1> QED BY <1>1, <1>2

\* A handler that ends leaves nothing to be right about.
LEMMA IdleHolds ==
    ASSUME TypeOK', pc' = "idle", w' = NoVBC
    PROVE  WorkerHolds'
<1>1. w'.st.bs.run = 0 /\ w'.st.phase = "unset" BY NoVBCType
<1>2. starts' \in Nat BY ServiceAssumption DEF TypeOK
<1> QED BY <1>1, <1>2 DEF WorkerHolds, HandlesKnown, Recorded

\* The operation is not concerned when it does nothing and nothing is started.
LEMMA OperationRests ==
    ASSUME IInv, UNCHANGED <<opc, o, onew>>, Recorded' >= Recorded, Recorded' \in Nat
    PROVE  OperationHolds'
<1>1. /\ o.st.bs.run \in Nat /\ onew.bs.run \in Nat /\ Recorded \in Int
  BY VBCFields, ServiceAssumption DEF IInv, TypeOK, Status, BackupState, Recorded
<1> QED BY <1>1 DEF IInv, OperationHolds, HandlesKnown
\* What a worker or the operation may write: finalizer, deletion and handles are kept.
Writable(b) ==
    /\ api.fin => b.fin
    /\ api.del => b.del
    /\ b.st.bs.run <= starts
    /\ b.st.phase = "InProgress" => b.st.bs.run # 0

\* A patch of the worker that fails, carried out or not
LEMMA PatchFails ==
    ASSUME IInv, TypeOK', NEW b \in VBC, Writable(b), pc = "started" => api.rv # 0,
           \/ api.rv = 0 /\ UNCHANGED <<api, watch, faults>>
           \/ api.rv # 0 /\ Fault /\ (UNCHANGED <<api, watch>> \/ Stored(b)),
           pc' = "idle", w' = NoVBC,
           UNCHANGED <<processed, cache, crashes, opc, o, onew, starts, live>>
    PROVE  IInv'
<1>y. TypeOK BY DEF IInv
<1>u. /\ starts \in Nat /\ api \in VBC /\ api.rv \in Nat /\ api.st.bs.run \in Nat
      /\ processed \in Nat
  BY <1>y, DisturbancesType, VBCFields DEF TypeOK
<1>t. TypeOK /\ api \in VBC /\ starts \in Nat /\ api.rv \in Nat /\ api.st.bs.run \in Nat
      /\ processed \in Nat
  BY <1>y, <1>u
<1>d. /\ Disturbances \in Nat /\ Disturbances' \in Nat
      /\ UNCHANGED <<faults, crashes>> => Disturbances' = Disturbances
      /\ Fault /\ UNCHANGED crashes => Disturbances' = Disturbances + 1
  BY <1>t, DisturbancesNext
<1>r. Recorded' = starts /\ Recorded <= starts /\ Recorded \in Int BY <1>t DEF Recorded
<1>k. HandlesKnown(api.st) /\ (api.rv # 0 => processed <= api.rv)
  BY DEF IInv, CopiesSettled, Copies, CopiesBehind
<1>1. OperationHolds' BY <1>r, <1>t, OperationRests
<1>2. WorkerHolds' BY IdleHolds
<1>3. CASE UNCHANGED <<api, watch>>
  <2>1. HandlesKnown(api.st)' BY <1>3, <1>k, <1>r, <1>t DEF HandlesKnown
  <2>2. Disturbances' >= Disturbances BY <1>d
  <2>3. Steady BY <1>3, <1>k, <2>1, <2>2 DEF Steady, Server
  <2>4. CASE Fault
    <3>1. Disturbances' > Disturbances BY <2>4, <1>d
    <3>2. \A st : Settled(st)' BY <3>1, PaidSettles
    <3> QED BY <3>2, <2>3, <1>1, <1>2, SteadyKeeps
  <2>5. CASE api.rv = 0 BY <2>5, <1>3, <2>3, <1>1, <1>2, SteadyKeeps
  <2> QED BY <2>4, <2>5
<1>4. CASE api.rv # 0 /\ Fault /\ Stored(b)
  <2>1. /\ Server /\ api'.rv # 0 /\ api'.rv >= api.rv /\ api'.rv \in Nat
        /\ api'.st = b.st /\ api'.fin = b.fin /\ api'.del = b.del
    BY <1>4, <1>t, StoredServer DEF Writable
  <2>2. HandlesKnown(api.st)' BY <2>1, <1>r DEF HandlesKnown, Writable
  <2>3. Disturbances' > Disturbances BY <1>4, <1>d
  <2>4. Disturbances' >= Disturbances BY <1>4, <1>d
  <2>5. processed' <= api'.rv BY <2>1, <1>4, <1>k, <1>t
  <2>6. Steady BY <1>4, <2>1, <2>2, <2>4, <2>5 DEF Steady, Writable
  <2>7. \A st : Settled(st)' BY <2>3, PaidSettles
  <2> QED BY <2>6, <2>7, <1>1, <1>2, SteadyKeeps
<1> QED BY <1>3, <1>4

\* A patch of the worker that succeeds: its copy is the stored object.
LEMMA PatchSucceeds ==
    ASSUME IInv, TypeOK', NEW b \in VBC, Writable(b), api.rv # 0, Stored(b),
           StoreRevisionUpdate(api'.rv),
           pc' \in {"finalizer", "driver", "run", "delDriver", "idle"},
           IF pc' = "idle" THEN w' = NoVBC ELSE w' = api',
           pc' \in {"driver", "run"} => b.fin,
           pc' = "delDriver" => b.del /\ \A c \in Copies : c.rv = 0 \/ c.del,
           IF pc = "started" THEN b.st.phase \notin {"unset", "New"} /\ b.st.bs.run # 0
                                  /\ b.st.bs.run # api.st.bs.run
           ELSE Settled(api.st) => Settled(b.st),
           UNCHANGED <<faults, cache, crashes, opc, o, onew, starts, live>>
    PROVE  IInv'
<1>y. TypeOK BY DEF IInv
<1>u. /\ starts \in Nat /\ api \in VBC /\ api.rv \in Nat /\ api.st.bs.run \in Nat
      /\ processed \in Nat
  BY <1>y, DisturbancesType, VBCFields DEF TypeOK
<1>t. TypeOK /\ api \in VBC /\ starts \in Nat /\ api.rv \in Nat /\ api.st.bs.run \in Nat
      /\ processed \in Nat
  BY <1>y, <1>u
<1>d. Disturbances' = Disturbances /\ Disturbances \in Nat BY <1>t, DisturbancesNext
<1>e. Disturbances' >= Disturbances BY <1>d
<1>r. Recorded' = starts /\ Recorded <= starts /\ Recorded \in Int BY <1>t DEF Recorded
<1>k. processed <= api.rv BY DEF IInv, CopiesBehind
<1>0. /\ Server /\ api'.rv # 0 /\ api'.rv >= api.rv /\ api'.rv \in Nat
      /\ api'.st = b.st /\ api'.fin = b.fin /\ api'.del = b.del
      /\ api' = api \/ api'.rv > api.rv
  BY <1>t, StoredServer DEF Writable
<1>1. processed' = api'.rv
  BY <1>0, <1>k, <1>t DEF StoreRevisionUpdate
<1>2. HandlesKnown(api.st)' BY <1>0, <1>r DEF HandlesKnown, Writable
<1>3. processed' <= api'.rv /\ processed' >= processed BY <1>0, <1>1, <1>k, <1>t
<1>4. Steady BY <1>0, <1>2, <1>3, <1>e DEF Steady, Writable
<1>5. OperationHolds' BY <1>r, <1>t, OperationRests
<1>6. \A c \in Arriving \cup {api'} : c.rv # 0 /\ c.rv >= processed' => Settled(c.st)'
  <2>1. CASE pc = "started"
    <3>1. \A c \in Arriving : c.rv \in Nat /\ c.rv <= api.rv
      BY <1>t, ArrivingType, VBCFields DEF IInv, CopiesBehind
    <3>2. api'.rv > api.rv BY <1>0, <2>1
    <3>3. \A c \in Arriving : ~(c.rv >= processed') BY <3>1, <3>2, <1>0, <1>1, <1>t
    <3>4. Settled(api.st)' BY <2>1, <1>0 DEF Settled
    <3> QED BY <3>3, <3>4
  <2>2. CASE pc # "started"
    <3>1. Settled(b.st) => Settled(b.st)' BY <1>d DEF Settled
    <3>2. Settled(api.st) => Settled(api.st)' BY <2>2, <3>1, <1>0
    <3> QED BY <2>2, <3>2, <1>0, <1>3, <1>4, CopiesStaySettled
  <2> QED BY <2>1, <2>2
<1>7. WorkerHolds'
  <2>1. CASE pc' = "idle" BY <2>1, IdleHolds
  <2>2. CASE pc' # "idle"
    <3>1. w' = api' /\ HandlesKnown(w.st)' BY <2>2, <1>2
    <3>2. Settled(w.st)' BY <2>2, <1>0, <1>1, <1>6
    <3>3. pc' = "delDriver" => \A c \in Copies' : c.rv = 0 \/ c.del
      <4>1. Copies' \subseteq Copies \cup {api'}
        BY <1>t, <1>0, ArrivingNext DEF Copies
      <4> QED BY <4>1, <1>0
    <3> QED BY <3>1, <3>2, <3>3, <1>0, <2>2 DEF WorkerHolds
  <2> QED BY <2>1, <2>2
<1> QED BY <1>4, <1>5, <1>6, <1>7, SteadyKeeps
\* A patch that sets another phase than InProgress and leaves the progress alone
LEMMA PhaseWritable ==
    ASSUME IInv, NEW st \in Status, NEW ph \in Phases, ph # "InProgress"
    PROVE  LET b == Patched(st, [st EXCEPT !.phase = ph]) IN
           /\ b \in VBC /\ Writable(b) /\ b.fin = api.fin /\ b.del = api.del
           /\ b.st.bs = api.st.bs
           /\ b.st.phase = IF ph # st.phase THEN ph ELSE api.st.phase
<1> DEFINE new == [st EXCEPT !.phase = ph]
           b   == Patched(st, new)
<1>y. TypeOK BY DEF IInv
<1>1. api \in VBC /\ starts \in Nat BY <1>y, DisturbancesType DEF TypeOK
<1>2. new \in Status /\ new.phase = ph /\ new.bs = st.bs BY PhaseType
<1> HIDE DEF new
<1>3. /\ b \in VBC /\ b.rv = api.rv /\ b.fin = api.fin /\ b.del = api.del
      /\ b.st.bs = api.st.bs
      /\ b.st.phase = IF ph # st.phase THEN ph ELSE api.st.phase
  BY <1>1, <1>2, PatchedType
<1> HIDE DEF b
<1>4. HandlesKnown(api.st) BY DEF IInv, CopiesSettled, Copies
<1>5. Recorded <= starts /\ Recorded \in Int BY <1>1 DEF Recorded
<1>6. api.st.bs.run \in Nat BY <1>1, VBCFields
<1>7. Writable(b)
  <2>1. b.st.bs.run <= starts BY <1>3, <1>4, <1>5, <1>6, <1>1 DEF HandlesKnown
  <2>2. b.st.phase = "InProgress" => b.st.bs.run # 0 BY <1>3, <1>4 DEF HandlesKnown
  <2> QED BY <1>3, <2>1, <2>2 DEF Writable
<1> QED BY <1>3, <1>7 DEF b, new

\* A step that leaves object, events and lister alone and starts nothing
LEMMA StillKeeps ==
    ASSUME IInv, TypeOK', UNCHANGED <<api, watch, cache, starts>>, live' \subseteq live,
           Disturbances' >= Disturbances, processed' >= processed,
           api.rv # 0 => processed' <= api.rv,
           pc' = "started" <=> pc = "started", WorkerHolds', OperationHolds'
    PROVE  IInv'
<1>y. TypeOK BY DEF IInv
<1>1. HandlesKnown(api.st) BY DEF IInv, CopiesSettled, Copies
<1>2. Recorded' = Recorded BY DEF Recorded
<1>3. HandlesKnown(api.st)' BY <1>1, <1>2 DEF HandlesKnown
<1>4. Steady BY <1>3 DEF Steady, Server
<1>5. CASE pc = "started" BY <1>4, <1>5, SteadyKeeps
<1>6. CASE pc # "started"
  <2>1. PICK d \in Nat : d = Disturbances' BY <1>y, DisturbancesNext
  <2>2. d >= Disturbances /\ Disturbances \in Nat /\ starts \in Nat
    BY <2>1, <1>y, DisturbancesType
  <2>3. Settled(api.st) => starts <= d \/ (api.st.phase \notin {"unset", "New"} /\ api.st.bs.run # 0)
    BY <2>2 DEF Settled
  <2>4. Settled(api.st) => Settled(api.st)' BY <2>1, <2>3 DEF Settled
  <2> QED BY <1>4, <1>6, <2>4, CopiesStaySettled, SteadyKeeps
<1> QED BY <1>5, <1>6

\* A step without a call ends the handler or passes the copy on.
LEMMA LocalSteps ==
    ASSUME NEW next, Local(next)
    PROVE  /\ UNCHANGED <<api, watch, cache, processed, opc, o, onew, starts, live, faults, crashes>>
           /\ IF next = "return" THEN pc' = "idle" /\ w' = NoVBC ELSE pc' = next /\ w' = w
BY DEF Local, Return, Idle, Goto, apiVars, opVars, driverVars

\* A step of the worker that leaves everything else alone keeps the invariant if it is
\* right about the worker.
LEMMA WorkerMoves ==
    ASSUME IInv, TypeOK', UNCHANGED <<api, watch, cache, processed, opc, o, onew, starts>>,
           live' \subseteq live, Fault \/ UNCHANGED faults, UNCHANGED crashes,
           pc # "started", pc' # "started", WorkerHolds'
    PROVE  IInv'
<1>y. TypeOK BY DEF IInv
<1>1. Disturbances' >= Disturbances BY <1>y, DisturbancesNext
<1>2. processed' >= processed /\ (api.rv # 0 => processed' <= api.rv)
  BY <1>y DEF IInv, CopiesBehind, TypeOK
<1>3. Recorded = starts /\ Recorded' = starts BY DEF Recorded
<1>4. starts \in Nat BY <1>y, DisturbancesType
<1>5. OperationHolds' BY <1>3, <1>4, OperationRests
<1> QED BY <1>1, <1>2, <1>5, StillKeeps

\* What the worker knows stays true while the object does not change.
LEMMA WorkerKnows ==
    ASSUME IInv, TypeOK', UNCHANGED <<api, watch, cache, starts>>, Disturbances' >= Disturbances,
           pc # "started", pc' # "started", w' = w
    PROVE  /\ HandlesKnown(w.st)'
           /\ api.rv # 0 /\ pc \notin {"idle", "run"} => Settled(w.st)'
           /\ Copies' = Copies
<1>y. TypeOK BY DEF IInv
<1>1. HandlesKnown(w.st) BY DEF IInv, WorkerHolds
<1>2. Recorded' = Recorded BY DEF Recorded
<1>3. HandlesKnown(w.st)' BY <1>1, <1>2 DEF HandlesKnown
<1>4. Copies' = Copies BY DEF Copies, Arriving
<1>5. ASSUME api.rv # 0, pc \notin {"idle", "run"} PROVE Settled(w.st)'
  <2>0. Settled(w.st) BY <1>5 DEF IInv, WorkerHolds
  <2>1. PICK d \in Nat : d = Disturbances' BY <1>y, DisturbancesNext
  <2>2. d >= Disturbances /\ Disturbances \in Nat /\ starts \in Nat
    BY <2>1, <1>y, DisturbancesType
  <2>3. starts <= d \/ (w.st.phase \notin {"unset", "New"} /\ w.st.bs.run # 0)
    BY <2>0, <2>2 DEF Settled
  <2> QED BY <2>1, <2>3 DEF Settled
<1> QED BY <1>3, <1>4, <1>5

\* Taking the key
LEMMA ProcessQueueKeeps ==
    ASSUME IInv, TypeOK', ProcessQueue
    PROVE  IInv'
<1>y. TypeOK BY DEF IInv
<1>0. /\ UNCHANGED <<api, watch, cache, opc, o, onew, starts, live, faults, crashes>>
      /\ pc = "idle"
  BY DEF ProcessQueue, apiVars, opVars, driverVars
<1>1. CASE UNCHANGED <<workerVars, processed>>
  <2>1. pc' = "idle" /\ w' = w BY <1>0, <1>1 DEF workerVars
  <2>2. Disturbances' >= Disturbances BY <1>0, <1>y, DisturbancesNext
  <2>3. HandlesKnown(w.st)' BY <2>1, <2>2, <1>0, WorkerKnows
  <2>4. WorkerHolds' BY <2>1, <2>3 DEF WorkerHolds
  <2> QED BY <1>0, <1>1, <2>1, <2>4, WorkerMoves
<1>2. CASE /\ cache.rv # 0 /\ ~(processed > cache.rv) /\ processed' = cache.rv
           /\ pc' = (IF cache.del THEN "deleting" ELSE "init") /\ w' = cache
  <2>t. cache.rv \in Nat /\ processed \in Nat /\ starts \in Nat
    BY <1>y, DisturbancesType, VBCFields DEF TypeOK
  <2>1. Disturbances' = Disturbances /\ Disturbances' >= Disturbances
    BY <1>0, <1>y, DisturbancesNext
  <2>2. Recorded' = Recorded /\ Recorded' >= Recorded /\ Recorded' \in Nat
    BY <1>0, <1>2, <2>t DEF Recorded
  <2>3. OperationHolds' BY <1>0, <2>2, OperationRests
  <2>4. cache \in Arriving /\ cache \in Copies BY DEF Arriving, Copies
  <2>5. HandlesKnown(cache.st) /\ (api.rv # 0 => Settled(cache.st) /\ cache.rv <= api.rv)
    BY <1>0, <1>2, <2>4, <2>t DEF IInv, CopiesSettled, CopiesBehind
  <2>6. HandlesKnown(cache.st)' /\ (api.rv # 0 => Settled(cache.st)')
    BY <2>5, <2>1, <2>2, <1>0 DEF HandlesKnown, Settled
  <2>7. ~cache.del /\ cache.fin => api.rv # 0 /\ api.fin
    BY <1>2, <2>4 DEF IInv, FinalizerFirst, CopiesBehind
  <2>8. cache.del => \A c \in Copies' : c.rv = 0 \/ c.del
    <3>1. Copies' = {cache, api} \cup {watch[i] : i \in DOMAIN watch}
      BY <1>0 DEF Copies, Arriving
    <3>2. cache.del => api.rv = 0 \/ api.del BY <2>4 DEF IInv, CopiesBehind
    <3> QED BY <3>1, <3>2 DEF IInv, DeletionLast
  <2>9. WorkerHolds' BY <1>0, <1>2, <2>6, <2>7, <2>8 DEF WorkerHolds
  <2>10. processed' >= processed /\ (api.rv # 0 => processed' <= api.rv)
    BY <1>2, <2>5, <2>t
  <2> QED BY <1>0, <1>2, <2>1, <2>3, <2>9, <2>10, StillKeeps
<1> QED BY <1>1, <1>2 DEF ProcessQueue
\* Setting the phase New, the finalizer, the handles or the phase Deleting
LEMMA WorkerPatchKeeps ==
    ASSUME IInv, TypeOK',
           EnsureVolBackupInit \/ EnsureFinalizer \/ Started \/ UpdateDeleting \/ StartFailed
    PROVE  IInv'
<1>y. TypeOK BY DEF IInv
<1>v. api \in VBC /\ w \in VBC /\ wnew \in Status BY <1>y DEF TypeOK
<1>t. /\ api \in VBC /\ starts \in Nat /\ w \in VBC /\ w.st \in Status /\ wnew \in Status
      /\ api.st.bs.run \in Nat /\ w.st.bs.run \in Nat
  BY <1>y, <1>v, DisturbancesType, VBCFields
<1>k. HandlesKnown(api.st) /\ HandlesKnown(w.st)
  BY DEF IInv, CopiesSettled, Copies, WorkerHolds
<1>r. Recorded \in Int /\ Recorded <= starts /\ (pc = "started" => Recorded = starts - 1)
  BY <1>t DEF Recorded
\* a patch, whatever comes of it
<1>1. ASSUME NEW b \in VBC, Writable(b), NEW next \in {"finalizer", "driver", "run", "delDriver"},
             WorkerPatch(b, next),
             pc = "started" => api.rv # 0,
             next \in {"driver", "run"} => b.fin,
             next = "delDriver" => b.del /\ \A c \in Copies : c.rv = 0 \/ c.del,
             IF pc = "started" THEN b.st.phase \notin {"unset", "New"} /\ b.st.bs.run # 0
                                    /\ b.st.bs.run # api.st.bs.run
             ELSE Settled(api.st) => Settled(b.st)
      PROVE  IInv'
  <2>0. UNCHANGED <<cache, crashes, opc, o, onew, starts, live>>
    BY <1>1, Zenon DEF WorkerPatch, opVars, driverVars
  <2>1. next \in Pcs BY DEF Pcs
  <2>2. CASE /\ api.rv # 0 /\ Stored(b) /\ StoreRevisionUpdate(api'.rv)
             /\ pc' = next /\ w' = api' /\ UNCHANGED faults
    BY <1>1, <2>0, <2>2, PatchSucceeds
  <2>3. CASE /\ \/ api.rv = 0 /\ UNCHANGED <<apiVars, faults>>
                \/ api.rv # 0 /\ Fault /\ (UNCHANGED apiVars \/ Stored(b))
             /\ ReturnErr /\ UNCHANGED processed
    <3>1. pc' = "idle" /\ w' = NoVBC BY <2>3 DEF ReturnErr, Idle
    <3> QED BY <1>1, <2>0, <2>3, <3>1, PatchFails DEF apiVars
  <2> QED BY <1>1, <1>y, <2>1, <2>2, <2>3, WorkerPatchOutcomes
<1>2. CASE EnsureVolBackupInit
  <2>1. CASE w.st.phase = "unset"
    <3> DEFINE b == Patched(w.st, [w.st EXCEPT !.phase = "New"])
    <3>1. /\ b \in VBC /\ Writable(b)
      BY <1>t, PhaseWritable DEF Phases
    <3>2. WorkerPatch(b, "finalizer") /\ pc = "init" BY <1>2, <2>1 DEF EnsureVolBackupInit
    <3>3. api.rv # 0 => starts <= Disturbances
      BY <2>1, <3>2 DEF IInv, WorkerHolds, Settled
    <3> HIDE DEF b
    <3>4. CASE api.rv # 0
      <4>1. Settled(b.st) BY <3>3, <3>4 DEF Settled
      <4> QED BY <1>1, <3>1, <3>2, <4>1
    <3>5. CASE api.rv = 0
      <4>1. /\ UNCHANGED <<api, watch, faults>> /\ pc' = "idle" /\ w' = NoVBC
            /\ UNCHANGED <<processed, cache, crashes, opc, o, onew, starts, live>>
        BY <3>2, <3>5 DEF WorkerPatch, ReturnErr, Idle, apiVars, opVars, driverVars
      <4> QED BY <3>1, <3>2, <3>5, <4>1, PatchFails
    <3> QED BY <3>4, <3>5
  <2>2. CASE w.st.phase # "unset"
    <3>1. Local("finalizer") /\ pc = "init" BY <1>2, <2>2 DEF EnsureVolBackupInit
    <3>2. /\ UNCHANGED <<api, watch, cache, processed, opc, o, onew, starts, live, faults, crashes>>
          /\ pc' = "finalizer" /\ w' = w
      BY <3>1, LocalSteps
    <3>3. Disturbances' >= Disturbances BY <3>2, <1>y, DisturbancesNext
    <3>4. HandlesKnown(w.st)' /\ (api.rv # 0 => Settled(w.st)')
      BY <3>1, <3>2, <3>3, WorkerKnows
    <3>5. w.fin => api.rv # 0 /\ api.fin BY <3>1 DEF IInv, WorkerHolds
    <3>6. WorkerHolds' BY <3>2, <3>4, <3>5 DEF WorkerHolds
    <3> QED BY <3>1, <3>2, <3>6, WorkerMoves
  <2> QED BY <2>1, <2>2
<1>3. CASE EnsureFinalizer
  <2>1. CASE ~w.fin
    <3> DEFINE b == [api EXCEPT !.fin = TRUE]
    <3>1. b \in VBC /\ b.st = api.st /\ b.fin /\ b.del = api.del BY <1>t DEF VBC
    <3>2. WorkerPatch(b, "driver") /\ pc = "finalizer" BY <1>3, <2>1 DEF EnsureFinalizer
    <3> HIDE DEF b
    <3>3. Writable(b) BY <3>1, <1>k, <1>r, <1>t DEF Writable, HandlesKnown
    <3> QED BY <1>1, <3>1, <3>2, <3>3
  <2>2. CASE w.fin
    <3>1. Local("driver") /\ pc = "finalizer" BY <1>3, <2>2 DEF EnsureFinalizer
    <3>2. /\ UNCHANGED <<api, watch, cache, processed, opc, o, onew, starts, live, faults, crashes>>
          /\ pc' = "driver" /\ w' = w
      BY <3>1, LocalSteps
    <3>3. Disturbances' >= Disturbances BY <3>2, <1>y, DisturbancesNext
    <3>4. HandlesKnown(w.st)' /\ (api.rv # 0 => Settled(w.st)')
      BY <3>1, <3>2, <3>3, WorkerKnows
    <3>5. api.rv # 0 /\ api.fin BY <2>2, <3>1 DEF IInv, WorkerHolds
    <3>6. WorkerHolds' BY <3>2, <3>4, <3>5 DEF WorkerHolds
    <3> QED BY <3>1, <3>2, <3>6, WorkerMoves
  <2> QED BY <2>1, <2>2
<1>4. CASE Started
  <2> DEFINE b == Patched(w.st, wnew)
  <2>0. /\ WorkerPatch(b, "run") /\ pc = "started" /\ api.rv # 0 /\ api.fin
        /\ w.st.phase \in {"unset", "New"} /\ wnew.phase = "InProgress" /\ wnew.bs.run = starts
    BY <1>4 DEF Started, IInv, WorkerHolds
  <2>1. /\ b \in VBC /\ b.fin = api.fin /\ b.del = api.del
        /\ b.st.phase = IF wnew.phase # w.st.phase THEN wnew.phase ELSE api.st.phase
        /\ b.st.bs = IF wnew.bs # w.st.bs THEN wnew.bs ELSE api.st.bs
    BY <1>t, PatchedType
  <2> HIDE DEF b
  <2>2. w.st.bs.run <= starts - 1 /\ api.st.bs.run <= starts - 1
    BY <2>0, <1>k, <1>r DEF HandlesKnown
  <2>3. b.st.phase = "InProgress" /\ b.st.bs.run = starts
    BY <2>0, <2>1, <2>2, <1>t
  <2>4. Writable(b) /\ b.st.bs.run # 0 /\ b.st.bs.run # api.st.bs.run
    BY <2>1, <2>2, <2>3, <1>t DEF Writable
  <2> QED BY <1>1, <2>0, <2>1, <2>3, <2>4
<1>5. CASE UpdateDeleting
  <2>0. pc = "deleting" BY <1>5 DEF UpdateDeleting
  <2>1. CASE Local("return")
    <3>1. /\ UNCHANGED <<api, watch, cache, processed, opc, o, onew, starts, live, faults, crashes>>
          /\ pc' = "idle" /\ w' = NoVBC
      BY <2>1, LocalSteps
    <3> QED BY <2>0, <3>1, IdleHolds, WorkerMoves
  <2> DEFINE b == Patched(w.st, [w.st EXCEPT !.phase = "Deleting"])
  <2>2. CASE api.rv # 0 /\ WorkerPatch(b, "delDriver")
    <3>1. /\ b \in VBC /\ Writable(b) /\ b.del = api.del
          /\ b.st.bs = api.st.bs
          /\ b.st.phase = IF "Deleting" # w.st.phase THEN "Deleting" ELSE api.st.phase
      BY <1>t, PhaseWritable DEF Phases
    <3> HIDE DEF b
    <3>2. \A c \in Copies : c.rv = 0 \/ c.del BY <2>0 DEF IInv, WorkerHolds
    <3>3. b.del BY <3>1, <3>2, <2>2 DEF Copies
    <3>4. Settled(api.st) => Settled(b.st) BY <3>1 DEF Settled
    <3> QED BY <1>1, <2>0, <2>2, <3>1, <3>2, <3>3, <3>4
  <2> QED BY <1>5, <2>1, <2>2, Zenon DEF UpdateDeleting
<1>6. CASE StartFailed
  <2> DEFINE b == Patched(w.st, [w.st EXCEPT !.phase = "Failed"])
  <2>1. /\ b \in VBC /\ Writable(b) BY <1>t, PhaseWritable DEF Phases
  <2>2. /\ pc = "startFailed" /\ UNCHANGED <<cache, opc, o, onew, starts, live, crashes>>
        /\ \/ api.rv # 0 /\ Commit(b) /\ StoreRevisionUpdate(api'.rv) /\ Return /\ UNCHANGED faults
           \/ /\ \/ api.rv = 0 /\ UNCHANGED <<apiVars, faults>>
                 \/ api.rv # 0 /\ Fault /\ (UNCHANGED apiVars \/ Commit(b))
              /\ ReturnErr /\ UNCHANGED processed
    BY <1>6, Zenon DEF StartFailed, opVars, driverVars
  <2> HIDE DEF b
  <2>3. Commit(b) => Stored(b) BY <1>y, <2>1, CommitStores DEF TypeOK
  <2>4. pc' = "idle" /\ w' = NoVBC BY <2>2 DEF Return, ReturnErr, Idle
  <2>5. CASE api.rv # 0 /\ Commit(b) /\ StoreRevisionUpdate(api'.rv) /\ UNCHANGED faults
    <3>1. w.st.phase \in {"unset", "New"} /\ Settled(w.st)
      BY <2>2, <2>5 DEF IInv, WorkerHolds
    <3>2. Settled(b.st) BY <3>1 DEF Settled
    <3> QED BY <2>1, <2>2, <2>3, <2>4, <2>5, <3>2, PatchSucceeds
  <2>6. CASE /\ \/ api.rv = 0 /\ UNCHANGED <<apiVars, faults>>
                \/ api.rv # 0 /\ Fault /\ (UNCHANGED apiVars \/ Commit(b))
             /\ ReturnErr /\ UNCHANGED processed
    BY <2>1, <2>2, <2>3, <2>4, <2>6, PatchFails DEF apiVars
  <2> QED BY <2>2, <2>5, <2>6
<1> QED BY <1>2, <1>3, <1>4, <1>5, <1>6
\* Asking the driver: a run more, and a worker that has its handles or was disturbed
LEMMA StartBackupKeeps ==
    ASSUME IInv, TypeOK', StartBackup
    PROVE  IInv'
<1>y. TypeOK BY DEF IInv
<1>t. starts \in Nat /\ Disturbances \in Nat /\ Disturbances' \in Nat
  BY <1>y, DisturbancesType, DisturbancesNext
<1>0. /\ UNCHANGED <<api, watch, cache, processed, opc, o, onew, crashes>>
      /\ pc = "start" /\ starts' = starts + 1
  BY DEF StartBackup, apiVars, opVars
<1>1. api.rv # 0 /\ api.fin /\ w.st.phase \in {"unset", "New"} /\ Settled(w.st)
  BY <1>0 DEF IInv, WorkerHolds
<1>2. starts <= Disturbances BY <1>1 DEF Settled
<1>3. \/ /\ pc' = "started" /\ w' = w /\ wnew'.phase = "InProgress" /\ wnew'.bs.run = starts'
         /\ UNCHANGED faults
      \/ /\ Fault
         /\ \/ pc' = "startFailed" /\ w' = w
            \/ pc' = "idle" /\ w' = NoVBC
  BY DEF StartBackup, Goto, Return, Idle
<1>4. Fault => starts' <= Disturbances'
  <2>1. Fault => Disturbances' = Disturbances + 1 BY <1>0, <1>y, DisturbancesNext
  <2>2. starts + 1 <= Disturbances + 1 BY <1>2, <1>t
  <2> QED BY <1>0, <2>1, <2>2
<1>r. /\ Recorded = starts /\ Recorded' \in Nat /\ Recorded' >= Recorded
      /\ (pc' = "started" => Recorded' = starts)
  BY <1>0, <1>t DEF Recorded
<1>5. OperationHolds' BY <1>0, <1>r, OperationRests
<1>6. CopiesBehind' /\ DeletionLast' /\ FinalizerFirst' /\ Copies' = Copies
  BY <1>0, <1>1 DEF IInv, CopiesBehind, DeletionLast, FinalizerFirst, Copies, Arriving
<1>7. CopiesSettled'
  <2>1. \A c \in Copies : c.st.bs.run \in Nat
    <3>1. Copies \subseteq VBC
      <4>1. api \in VBC BY <1>y DEF TypeOK
      <4> QED BY <4>1, <1>y, ArrivingType DEF Copies
    <3> QED BY <3>1, VBCFields
  <2>2. \A c \in Copies' : HandlesKnown(c.st)'
    BY <1>6, <1>r, <1>t, <2>1 DEF IInv, CopiesSettled, HandlesKnown
  <2>3. pc' # "started" => \A st : Settled(st)' BY <1>3, <1>4 DEF Settled
  <2> QED BY <2>2, <2>3 DEF CopiesSettled
<1>8. WorkerHolds'
  <2>1. CASE pc' = "idle" BY <2>1, <1>3, IdleHolds
  <2>2. CASE pc' \in {"started", "startFailed"} /\ w' = w
    <3>0. w \in VBC BY <1>y DEF TypeOK
    <3>1. w.st.bs.run \in Nat BY <3>0, VBCFields
    <3>2. HandlesKnown(w.st)' BY <3>1, <2>2, <1>r, <1>t DEF IInv, WorkerHolds, HandlesKnown
    <3>3. pc' # "started" => Settled(w.st)' BY <1>3, <1>4 DEF Settled
    <3> QED BY <1>0, <1>1, <1>3, <2>2, <3>2, <3>3 DEF WorkerHolds
  <2> QED BY <1>3, <2>1, <2>2
<1>9. StartsPaidFor'
  <2>1. PICK d \in Nat : d = Disturbances' BY <1>t
  <2>2. Disturbances' = Disturbances \/ Disturbances' = Disturbances + 1
    BY <1>0, <1>3, <1>y, DisturbancesNext
  <2>3. d >= Disturbances BY <2>1, <2>2, <1>t
  <2>4. starts + 1 <= 1 + d BY <2>3, <1>2, <1>t
  <2> QED BY <2>1, <2>4, <1>0, Zenon DEF StartsPaidFor
<1>10. OrphansPaidFor' BY <1>0, <1>1 DEF OrphansPaidFor
<1> QED BY <1>5, <1>6, <1>7, <1>8, <1>9, <1>10 DEF IInv

\* Deleting at the driver, and the finalizer going
LEMMA DeletionKeeps ==
    ASSUME IInv, TypeOK', DeleteBackup \/ EnsureFinalizerRemove
    PROVE  IInv'
<1>y. TypeOK BY DEF IInv
<1>1. CASE DeleteBackup
  <2>0. /\ UNCHANGED <<api, watch, cache, processed, opc, o, onew, starts, crashes>>
        /\ pc = "delDriver" /\ live' \subseteq live
    BY <1>1 DEF DeleteBackup, apiVars, opVars
  <2>1. CASE /\ live' = live \ {w.st.bs.run} /\ pc' = "delFinalizer" /\ w' = w
             /\ UNCHANGED faults
    <3>1. Disturbances' >= Disturbances BY <2>0, <2>1, <1>y, DisturbancesNext
    <3>2. /\ HandlesKnown(w.st)' /\ (api.rv # 0 => Settled(w.st)')
          /\ Copies' = Copies
      BY <2>0, <2>1, <3>1, WorkerKnows
    <3>3. \A c \in Copies : c.rv = 0 \/ c.del BY <2>0 DEF IInv, WorkerHolds
    <3>4. WorkerHolds' BY <2>0, <2>1, <3>2, <3>3 DEF WorkerHolds
    <3> QED BY <2>0, <2>1, <3>4, WorkerMoves
  <2>2. CASE Fault /\ (Return \/ ReturnErr)
    <3>1. pc' = "idle" /\ w' = NoVBC BY <2>2 DEF Return, ReturnErr, Idle
    <3> QED BY <2>0, <2>2, <3>1, IdleHolds, WorkerMoves
  <2> QED BY <1>1, <2>1, <2>2, Zenon DEF DeleteBackup, Goto
<1>2. CASE EnsureFinalizerRemove
  <2>0. /\ UNCHANGED <<cache, opc, o, onew, starts, live, crashes>> /\ pc = "delFinalizer"
        /\ pc' = "idle" /\ w' = NoVBC
        /\ Fault \/ UNCHANGED faults
        /\ processed' = 0 \/ UNCHANGED processed
        /\ (api.rv # 0 /\ Remove) \/ (UNCHANGED <<api, watch>> /\ UNCHANGED processed)
    BY <1>2 DEF EnsureFinalizerRemove, opVars, driverVars, Return, ReturnErr, Idle, apiVars
  <2>1. CASE UNCHANGED <<api, watch>> /\ UNCHANGED processed
    BY <2>0, <2>1, IdleHolds, WorkerMoves
  <2>2. CASE api.rv # 0 /\ Remove
    <3>n. NoVBC.rv = 0 /\ NoVBC.st.bs.run = 0 /\ NoVBC.st.phase = "unset" BY NoVBCType
    <3>t. starts \in Nat /\ Disturbances \in Nat BY <1>y, DisturbancesType
    <3>0. Server /\ api' = NoVBC BY <2>0, <2>2 DEF Server, Remove
    <3>1. CopiesBehind' /\ DeletionLast' BY <3>0, <3>n, <1>y, ServerKeeps DEF IInv
    <3>2. Arriving' \subseteq Arriving \cup {NoVBC} BY <3>0, <1>y, ArrivingNext
    <3>3. FinalizerFirst'
      <4>1. \A c \in Arriving : c.rv = 0 \/ c.del
        BY <2>0 DEF IInv, WorkerHolds, Copies
      <4> QED BY <4>1, <3>0, <3>2, <3>n DEF FinalizerFirst
    <3>r. Recorded' = starts /\ Recorded = starts BY <2>0 DEF Recorded
    <3>4. CopiesSettled'
      <4>1. HandlesKnown(NoVBC.st)' BY <3>n, <3>r, <3>t DEF HandlesKnown
      <4>2. \A c \in Arriving : HandlesKnown(c.st)'
        BY <3>r DEF IInv, CopiesSettled, Copies, HandlesKnown
      <4> QED BY <4>1, <4>2, <3>0, <3>2, <3>n DEF CopiesSettled, Copies
    <3>5. WorkerHolds' BY <2>0, IdleHolds
    <3>6. OperationHolds' BY <2>0, <3>r, <3>t, OperationRests
    <3>7. Disturbances' >= Disturbances /\ Disturbances' \in Nat
      BY <2>0, <1>y, DisturbancesNext
    <3>8. StartsPaidFor'
      <4>1. PICK d \in Nat : d = Disturbances' BY <3>7
      <4>2. StartsPaidFor /\ d >= Disturbances BY <3>7, <4>1 DEF IInv
      <4>3. starts <= 1 + d BY <4>2, <3>t DEF StartsPaidFor
      <4> QED BY <4>1, <4>3, <2>0, Zenon DEF StartsPaidFor
    <3>9. OrphansPaidFor'
      <4>1. /\ w.st.bs.run \in Nat /\ w.st.bs.run \notin live /\ w.st.bs.run <= starts
            /\ Settled(w.st) /\ StartsPaidFor
        <5>0. w \in VBC BY <1>y DEF TypeOK
        <5>1. w.st.bs.run \in Nat BY <5>0, VBCFields
        <5>2. /\ HandlesKnown(w.st) /\ Settled(w.st) /\ w.st.bs.run \notin live
              /\ StartsPaidFor
          BY <2>0, <2>2 DEF IInv, WorkerHolds
        <5> QED BY <5>1, <5>2, <3>r DEF HandlesKnown
      <4>2. Cardinality(live) <= Disturbances
        <5>1. CASE starts <= Disturbances BY <5>1, <1>y, <3>t, LiveBound
        <5>2. CASE w.st.bs.run # 0
          <6>1. w.st.bs.run \in 1..starts BY <4>1, <5>2, <3>t
          <6>2. Cardinality(live) <= starts - 1 /\ Cardinality(live) \in Nat
            BY <6>1, <4>1, <1>y, LiveBound
          <6> QED BY <6>2, <4>1, <3>t DEF StartsPaidFor
        <5> QED BY <4>1, <5>1, <5>2 DEF Settled
      <4>3. Cardinality(live) \in Nat BY <1>y, LiveBound
      <4>4. PICK d \in Nat : d = Disturbances' BY <3>7
      <4>5. Cardinality(live) <= d BY <4>2, <4>3, <4>4, <3>7, <3>t
      <4> QED BY <4>4, <4>5, <2>0 DEF OrphansPaidFor
    <3> QED BY <3>1, <3>3, <3>4, <3>5, <3>6, <3>8, <3>9 DEF IInv
  <2> QED BY <2>0, <2>1, <2>2
<1> QED BY <1>1, <1>2
\* Judging by the copy, failing to ask, and handing over to the operation
LEMMA HandlerKeeps ==
    ASSUME IInv, TypeOK', CheckVolumeBackupDriver \/ StartBackupFails \/ RunOperation
    PROVE  IInv'
<1>y. TypeOK BY DEF IInv
<1>1. CASE CheckVolumeBackupDriver
  <2>0. pc = "driver" BY <1>1 DEF CheckVolumeBackupDriver
  <2>1. PICK next \in {"return", "start", "run"} :
            Local(next) /\ (next = "start" => w.st.phase \in {"unset", "New"})
    BY <1>1 DEF CheckVolumeBackupDriver
  <2>2. /\ UNCHANGED <<api, watch, cache, processed, opc, o, onew, starts, live, faults, crashes>>
        /\ IF next = "return" THEN pc' = "idle" /\ w' = NoVBC ELSE pc' = next /\ w' = w
    BY <2>1, LocalSteps
  <2>3. CASE next = "return" BY <2>0, <2>2, <2>3, IdleHolds, WorkerMoves
  <2>4. CASE next # "return"
    <3>1. Disturbances' >= Disturbances BY <2>2, <1>y, DisturbancesNext
    <3>2. HandlesKnown(w.st)' /\ (api.rv # 0 => Settled(w.st)')
      BY <2>0, <2>1, <2>2, <2>4, <3>1, WorkerKnows
    <3>3. api.rv # 0 /\ api.fin BY <2>0 DEF IInv, WorkerHolds
    <3>4. WorkerHolds' BY <2>1, <2>2, <2>4, <3>2, <3>3 DEF WorkerHolds
    <3> QED BY <2>0, <2>1, <2>2, <2>4, <3>4, WorkerMoves
  <2> QED BY <2>3, <2>4
<1>2. CASE StartBackupFails
  <2>0. /\ UNCHANGED <<api, watch, cache, processed, opc, o, onew, starts, live, crashes>>
        /\ pc = "start" /\ Fault
        /\ \/ pc' = "idle" /\ w' = NoVBC
           \/ pc' = "startFailed" /\ w' = w
    BY <1>2 DEF StartBackupFails, Return, Idle, Goto, apiVars, opVars, driverVars
  <2>1. CASE pc' = "idle" /\ w' = NoVBC BY <2>0, <2>1, IdleHolds, WorkerMoves
  <2>2. CASE pc' = "startFailed" /\ w' = w
    <3>1. Disturbances' >= Disturbances BY <2>0, <1>y, DisturbancesNext
    <3>2. HandlesKnown(w.st)' /\ (api.rv # 0 => Settled(w.st)')
      BY <2>0, <2>2, <3>1, WorkerKnows
    <3>3. api.rv # 0 /\ api.fin /\ w.st.phase \in {"unset", "New"}
      BY <2>0 DEF IInv, WorkerHolds
    <3>4. WorkerHolds' BY <2>0, <2>2, <3>2, <3>3 DEF WorkerHolds
    <3> QED BY <2>0, <2>2, <3>4, WorkerMoves
  <2> QED BY <2>0, <2>1, <2>2
<1>3. CASE RunOperation
  <2>0. /\ UNCHANGED <<api, watch, cache, processed, o, onew, starts, live, faults, crashes>>
        /\ pc = "run" /\ pc' = "idle" /\ w' = NoVBC
        /\ opc' = "tick" \/ opc' = opc
    BY <1>3 DEF RunOperation, Return, Idle, apiVars, opVars, driverVars
  <2>1. Recorded' = Recorded BY <2>0 DEF Recorded
  <2>2. OperationHolds' BY <2>0, <2>1 DEF IInv, OperationHolds, HandlesKnown
  <2>3. Disturbances' >= Disturbances BY <2>0, <1>y, DisturbancesNext
  <2>4. processed' >= processed /\ (api.rv # 0 => processed' <= api.rv)
    BY <2>0, <1>y DEF IInv, CopiesBehind, TypeOK
  <2> QED BY <2>0, <2>2, <2>3, <2>4, IdleHolds, StillKeeps
<1> QED BY <1>1, <1>2, <1>3

\* Every step of the worker keeps the invariant.
LEMMA WorkerKeeps ==
    ASSUME IInv, TypeOK', Worker
    PROVE  IInv'
BY ProcessQueueKeeps, WorkerPatchKeeps, StartBackupKeeps, DeletionKeeps, HandlerKeeps DEF Worker

\* A step of somebody else keeps the invariant if what it stores is right and it is
\* right about the operation.
LEMMA QuietKeeps ==
    ASSUME IInv, TypeOK', Server, UNCHANGED <<pc, w, wnew, starts, live>>,
           Disturbances' >= Disturbances, api'.rv = 0 <=> api.rv = 0,
           api.fin => api'.fin, api.del => api'.del,
           processed' >= processed, api'.rv # 0 => processed' <= api'.rv,
           HandlesKnown(api.st)', Settled(api.st) => Settled(api.st)', OperationHolds'
    PROVE  IInv'
<1>y. TypeOK BY DEF IInv
<1>1. Steady BY DEF Steady
<1>2. Recorded' = Recorded BY DEF Recorded
<1>3. WorkerHolds'
  <2>1. HandlesKnown(w.st)' BY <1>2 DEF IInv, WorkerHolds, HandlesKnown
  <2>2. ASSUME api.rv # 0, pc \notin {"idle", "run", "started"} PROVE Settled(w.st)'
    <3>0. Settled(w.st) BY <2>2 DEF IInv, WorkerHolds
    <3>1. PICK d \in Nat : d = Disturbances' BY <1>y, DisturbancesNext
    <3>2. d >= Disturbances /\ Disturbances \in Nat /\ starts \in Nat
      BY <3>1, <1>y, DisturbancesType
    <3>3. starts <= d \/ (w.st.phase \notin {"unset", "New"} /\ w.st.bs.run # 0)
      BY <3>0, <3>2 DEF Settled
    <3> QED BY <3>1, <3>3 DEF Settled
  <2>3. ASSUME pc \in {"deleting", "delDriver", "delFinalizer"}
        PROVE  \A c \in Copies' : c.rv = 0 \/ c.del
    <3>1. Copies' \subseteq Copies \cup {api'} BY <1>y, ArrivingNext DEF Copies
    <3>2. \A c \in Copies : c.rv = 0 \/ c.del BY <2>3 DEF IInv, WorkerHolds
    <3>3. api'.rv = 0 \/ api'.del BY <3>2 DEF Copies
    <3> QED BY <3>1, <3>2, <3>3
  <2>4. /\ pc \in {"init", "finalizer"} /\ w.fin => api.rv # 0 /\ api.fin
        /\ pc \in {"driver", "start", "startFailed", "started", "run"} => api.rv # 0 /\ api.fin
        /\ pc \in {"start", "startFailed", "started"} => w.st.phase \in {"unset", "New"}
        /\ pc = "started" => wnew.phase = "InProgress" /\ wnew.bs.run = starts
        /\ pc = "delFinalizer" => w.st.bs.run \notin live
    BY DEF IInv, WorkerHolds
  <2> QED BY <2>1, <2>2, <2>3, <2>4 DEF WorkerHolds
<1>4. CASE pc = "started" BY <1>1, <1>3, <1>4, SteadyKeeps
<1>5. CASE pc # "started" BY <1>1, <1>3, <1>5, CopiesStaySettled, SteadyKeeps
<1> QED BY <1>4, <1>5
\* A patch of the operation, carried out or not
LEMMA OperationPatches ==
    ASSUME IInv, TypeOK', NEW b \in VBC, b.fin = api.fin, b.del = api.del,
           HandlesKnown(b.st), Settled(api.st) => Settled(b.st), OperationHolds',
           UNCHANGED <<cache, pc, w, wnew, starts, live, crashes>>,
           \/ api.rv # 0 /\ Stored(b) /\ StoreRevisionUpdate(api'.rv) /\ UNCHANGED faults
           \/ UNCHANGED <<api, watch, processed, faults>>
           \/ /\ api.rv # 0 /\ Fault /\ UNCHANGED processed
              /\ UNCHANGED <<api, watch>> \/ Stored(b)
    PROVE  IInv'
<1>y. TypeOK BY DEF IInv
<1>t. api \in VBC /\ api.rv \in Nat /\ processed \in Nat BY <1>y, VBCFields DEF TypeOK
<1>d. Disturbances' >= Disturbances BY <1>y, DisturbancesNext
<1>r. Recorded' = Recorded BY DEF Recorded
<1>k. HandlesKnown(api.st) /\ (api.rv # 0 => processed <= api.rv)
  BY DEF IInv, CopiesSettled, Copies, CopiesBehind
<1>s. ASSUME NEW st, Settled(st) PROVE Settled(st)'
  <2>1. PICK d \in Nat : d = Disturbances' BY <1>y, DisturbancesNext
  <2>2. d >= Disturbances /\ Disturbances \in Nat /\ starts \in Nat
    BY <2>1, <1>d, <1>y, DisturbancesType
  <2>3. starts <= d \/ (st.phase \notin {"unset", "New"} /\ st.bs.run # 0)
    BY <1>s, <2>2 DEF Settled
  <2> QED BY <2>1, <2>3 DEF Settled
<1>1. CASE UNCHANGED <<api, watch, processed>>
  <2>1. Server BY <1>1 DEF Server
  <2>2. HandlesKnown(api.st)' BY <1>1, <1>k, <1>r DEF HandlesKnown
  <2>3. Settled(api.st) => Settled(api.st)'
    <3>1. PICK st : st = api.st OBVIOUS
    <3>2. Settled(st) => Settled(st)' BY <1>s
    <3> QED BY <1>1, <3>1, <3>2 DEF Settled
  <2>4. processed' >= processed /\ (api'.rv # 0 => processed' <= api'.rv)
    BY <1>1, <1>k, <1>t
  <2> QED BY <1>1, <1>d, <2>1, <2>2, <2>3, <2>4, QuietKeeps
<1>2. CASE api.rv # 0 /\ Stored(b) /\ (StoreRevisionUpdate(api'.rv) \/ UNCHANGED processed)
  <2>1. /\ Server /\ api'.rv # 0 /\ api'.rv >= api.rv /\ api'.rv \in Nat
        /\ api'.st = b.st /\ api'.fin = b.fin /\ api'.del = b.del
    BY <1>2, <1>y, StoredServer
  <2>2. HandlesKnown(api.st)' BY <2>1, <1>r DEF HandlesKnown
  <2>3. Settled(api.st) => Settled(api.st)'
    <3>1. PICK st : st = b.st OBVIOUS
    <3>2. Settled(st) => Settled(st)' BY <1>s
    <3> QED BY <2>1, <3>1, <3>2 DEF Settled
  <2>4. processed' >= processed /\ (api'.rv # 0 => processed' <= api'.rv)
    BY <1>2, <2>1, <1>k, <1>t DEF StoreRevisionUpdate
  <2> QED BY <1>2, <1>d, <2>1, <2>2, <2>3, <2>4, QuietKeeps
<1> QED BY <1>1, <1>2

\* Every step of the operation keeps the invariant.
LEMMA OperationKeeps ==
    ASSUME IInv, TypeOK', Operation
    PROVE  IInv'
<1>y. TypeOK BY DEF IInv
<1>v. api \in VBC /\ cache \in VBC /\ o \in VBC /\ onew \in Status BY <1>y DEF TypeOK
<1>t. /\ o.st \in Status /\ cache.st \in Status /\ starts \in Nat
      /\ NoVBC \in VBC /\ NoVBC.st = NoStatus /\ NoStatus.bs.run = 0 /\ NoStatus.phase = "unset"
  BY <1>y, <1>v, VBCFields, DisturbancesType, NoVBCType
<1>h. OperationHolds BY DEF IInv
<1>k. HandlesKnown(cache.st) /\ HandlesKnown(api.st)
  BY DEF IInv, CopiesSettled, Copies, Arriving
<1>z. Recorded \in Int /\ 0 <= Recorded
  <2>1. HandlesKnown(api.st) /\ api.st.bs.run \in Nat BY <1>k, <1>v, VBCFields
  <2> QED BY <2>1, <1>t DEF Recorded, HandlesKnown
\* what a step knows at its next call
<1>1. ASSUME NEW next \in OPcs, NEW b \in VBC, NEW st \in Status, OpGoto(next, b, st),
             HandlesKnown(b.st), HandlesKnown(st),
             next \in {"stat", "update", "complete", "fail"} => b.st.phase = "InProgress",
             next = "update" => /\ st.bs.run = b.st.bs.run
                                /\ st.phase \in {"InProgress", "Completed", "Failed"}
      PROVE  /\ OperationHolds'
             /\ UNCHANGED <<cache, pc, w, wnew, starts, live, crashes>>
  <2>1. /\ opc' = next /\ o' = b /\ onew' = st
        /\ UNCHANGED <<cache, pc, w, wnew, starts, live, crashes>>
    BY <1>1, OpGotoLeaves
  <2>2. Recorded' = Recorded BY <2>1 DEF Recorded
  <2> QED BY <1>1, <2>1, <2>2 DEF OperationHolds, HandlesKnown
<1>n. HandlesKnown(NoVBC.st) /\ HandlesKnown(NoStatus) /\ NoStatus \in Status
  BY <1>t, <1>z, NoVBCType DEF HandlesKnown
<1>o. {"success", "stat", "tick", "update", "failure", "complete", "fail", "exit", "none"}
        \subseteq OPcs
  BY DEF OPcs
\* a step to a place where nothing is known
<1>2. ASSUME NEW next \in {"success", "tick", "failure", "exit", "none"},
             OpGoto(next, NoVBC, NoStatus)
      PROVE  OperationHolds' /\ UNCHANGED <<cache, pc, w, wnew, starts, live, crashes>>
  BY <1>2, <1>1, <1>n, <1>o, <1>t
\* a step that writes nothing
<1>3. ASSUME OperationHolds', UNCHANGED <<cache, pc, w, wnew, starts, live, crashes>>,
             UNCHANGED <<apiVars, processed>>, Fault \/ UNCHANGED faults
      PROVE  IInv'
  <2>1. CASE UNCHANGED faults
    BY <1>3, <2>1, <1>v, <1>k, OperationPatches DEF apiVars
  <2>2. CASE Fault
    <3>1. CASE api.rv # 0 BY <1>3, <2>2, <3>1, <1>v, <1>k, OperationPatches DEF apiVars
    <3>2. CASE api.rv = 0
      <4>1. Server BY <1>3 DEF Server, apiVars
      <4>2. HandlesKnown(api.st)' BY <1>3, <1>k DEF HandlesKnown, Recorded, apiVars
      <4>3. Disturbances' >= Disturbances /\ processed' >= processed
        BY <1>3, <2>2, <1>y, DisturbancesNext DEF TypeOK
      <4>4. Settled(api.st) => Settled(api.st)'
        <5>1. PICK d \in Nat : d = Disturbances' BY <1>y, DisturbancesNext
        <5>2. d >= Disturbances /\ Disturbances \in Nat BY <5>1, <4>3, <1>y, DisturbancesType
        <5>3. Settled(api.st) => starts <= d \/ (api.st.phase \notin {"unset", "New"} /\ api.st.bs.run # 0)
          BY <5>2, <1>t DEF Settled
        <5> QED BY <1>3, <5>1, <5>3 DEF Settled, apiVars
      <4> QED BY <1>3, <3>2, <4>1, <4>2, <4>3, <4>4, QuietKeeps DEF apiVars
    <3> QED BY <3>1, <3>2
  <2> QED BY <1>3, <2>1, <2>2
<1>4. CASE OpTick
  <2>1. UNCHANGED <<apiVars, processed, faults>> BY <1>4 DEF OpTick
  <2>2. \/ OpGoto("success", NoVBC, NoStatus)
        \/ OpGoto("stat", cache, cache.st) /\ cache.st.phase = "InProgress"
    BY <1>4 DEF OpTick, skipBackupProgressProcessing
  <2>3. CASE OpGoto("success", NoVBC, NoStatus) BY <2>1, <2>3, <1>2, <1>3
  <2>4. CASE OpGoto("stat", cache, cache.st) /\ cache.st.phase = "InProgress"
    <3>1. OperationHolds' /\ UNCHANGED <<cache, pc, w, wnew, starts, live, crashes>>
      BY <2>4, <1>1, <1>k, <1>o, <1>t, <1>v
    <3> QED BY <2>1, <3>1, <1>3
  <2> QED BY <2>2, <2>3, <2>4
<1>5. CASE OpStat
  <2>1. UNCHANGED <<apiVars, processed, faults>> /\ OpGoto("update", o, SyncBackupStat(o.st))
        /\ opc = "stat"
    BY <1>5 DEF OpStat
  <2> DEFINE st == SyncBackupStat(o.st)
  <2>2. /\ st \in Status /\ st.bs.run = o.st.bs.run /\ st.phase \in {"Completed", "Failed", o.st.phase}
    BY <1>y, <1>t, SyncType
  <2>3. OpGoto("update", o, st) BY <2>1
  <2> HIDE DEF st
  <2>4. o.st.phase = "InProgress" /\ HandlesKnown(o.st) BY <2>1, <1>h DEF OperationHolds
  <2>5. HandlesKnown(st) BY <2>2, <2>4 DEF HandlesKnown
  <2>6. OperationHolds' /\ UNCHANGED <<cache, pc, w, wnew, starts, live, crashes>>
    BY <2>2, <2>3, <2>4, <2>5, <1>1, <1>o, <1>v
  <2> QED BY <2>1, <2>6, <1>3
<1>6. CASE OpStatFails
  <2>1. UNCHANGED <<apiVars, processed>> /\ Fault BY <1>6 DEF OpStatFails
  <2>2. OpGoto("tick", NoVBC, NoStatus) \/ OpGoto("failure", NoVBC, NoStatus)
    BY <1>6, Zenon DEF OpStatFails, OpWait
  <2> QED BY <2>1, <2>2, <1>2, <1>3
<1>7. CASE OpUpdate
  <2> DEFINE b == Patched(o.st, onew)
  <2>1. /\ b \in VBC /\ b.fin = api.fin /\ b.del = api.del
        /\ b.st.phase = IF onew.phase # o.st.phase THEN onew.phase ELSE api.st.phase
        /\ b.st.bs = IF onew.bs # o.st.bs THEN onew.bs ELSE api.st.bs
    BY <1>t, <1>v, PatchedType
  <2>2. /\ opc = "update" /\ UNCHANGED crashes
        /\ \/ api.rv # 0 /\ Commit(b) /\ StoreRevisionUpdate(api'.rv) /\ UNCHANGED faults
           \/ UNCHANGED <<apiVars, processed, faults>>
           \/ /\ api.rv # 0 /\ Fault /\ UNCHANGED processed
              /\ UNCHANGED apiVars \/ Commit(b)
        /\ \E next \in {"success", "tick"} : OpGoto(next, NoVBC, NoStatus)
    BY <1>7, Zenon DEF OpUpdate, OpGoto
  <2> HIDE DEF b
  <2>3. Commit(b) => Stored(b) BY <1>y, <2>1, CommitStores DEF TypeOK
  <2>4. /\ o.st.phase = "InProgress" /\ HandlesKnown(o.st) /\ HandlesKnown(onew)
        /\ onew.bs.run = o.st.bs.run /\ onew.phase \in {"InProgress", "Completed", "Failed"}
    BY <2>2, <1>h DEF OperationHolds
  <2>5. o.st.bs.run # 0 BY <2>4 DEF HandlesKnown
  <2>6. HandlesKnown(b.st) BY <2>1, <2>4, <2>5, <1>k DEF HandlesKnown
  <2>7. Settled(api.st) => Settled(b.st) BY <2>1, <2>4, <2>5 DEF Settled
  <2>8. OperationHolds' /\ UNCHANGED <<cache, pc, w, wnew, starts, live, crashes>>
    BY <2>2, <1>2
  <2> QED BY <2>1, <2>2, <2>3, <2>6, <2>7, <2>8, OperationPatches DEF apiVars
<1>8. ASSUME NEW at \in OPcs, NEW next \in {"complete", "fail"}, OpOutcome(at, next)
      PROVE  IInv'
  <2>1. UNCHANGED <<apiVars, processed, faults>> BY <1>8 DEF OpOutcome
  <2>2. \/ OpGoto("exit", NoVBC, NoStatus)
        \/ OpGoto(next, cache, cache.st) /\ cache.st.phase = "InProgress"
    BY <1>8 DEF OpOutcome, skipBackupProgressProcessing
  <2>3. CASE OpGoto("exit", NoVBC, NoStatus) BY <2>1, <2>3, <1>2, <1>3
  <2>4. CASE OpGoto(next, cache, cache.st) /\ cache.st.phase = "InProgress"
    <3>1. OperationHolds' /\ UNCHANGED <<cache, pc, w, wnew, starts, live, crashes>>
      BY <2>4, <1>1, <1>k, <1>o, <1>t, <1>v
    <3> QED BY <2>1, <3>1, <1>3
  <2> QED BY <2>2, <2>3, <2>4
<1>9. ASSUME NEW at \in OPcs, NEW ph \in {"Completed", "Failed"}, OpRecord(at, ph)
      PROVE  IInv'
  <2> DEFINE b == Patched(o.st, [o.st EXCEPT !.phase = ph])
  <2>1. /\ b \in VBC /\ b.fin = api.fin /\ b.del = api.del
        /\ b.st.phase = IF ph # o.st.phase THEN ph ELSE api.st.phase
        /\ b.st.bs = api.st.bs
    <3>1. ph \in Phases /\ ph # "InProgress" BY DEF Phases
    <3> QED BY <3>1, <1>t, PhaseWritable
  <2>2. /\ \/ api.rv # 0 /\ Commit(b) /\ StoreRevisionUpdate(api'.rv) /\ UNCHANGED faults
           \/ UNCHANGED <<apiVars, processed, faults>>
           \/ /\ api.rv # 0 /\ Fault /\ UNCHANGED processed
              /\ UNCHANGED apiVars \/ Commit(b)
        /\ OpGoto("exit", NoVBC, NoStatus)
    BY <1>9, Zenon DEF OpRecord
  <2> HIDE DEF b
  <2>3. Commit(b) => Stored(b) BY <1>y, <2>1, CommitStores DEF TypeOK
  <2>4. HandlesKnown(b.st) BY <2>1, <1>k DEF HandlesKnown
  <2>5. Settled(api.st) => Settled(b.st) BY <2>1 DEF Settled
  <2>6. OperationHolds' /\ UNCHANGED <<cache, pc, w, wnew, starts, live, crashes>>
    BY <2>2, <1>2
  <2> QED BY <2>1, <2>2, <2>3, <2>4, <2>5, <2>6, OperationPatches DEF apiVars
<1>10. CASE OpExit
  <2>1. UNCHANGED <<apiVars, processed, faults>> /\ OpGoto("none", NoVBC, NoStatus)
    BY <1>10 DEF OpExit
  <2> QED BY <2>1, <1>2, <1>3
<1>11. "success" \in OPcs /\ "failure" \in OPcs /\ "complete" \in OPcs /\ "fail" \in OPcs
  BY <1>o
<1> QED BY <1>4, <1>5, <1>6, <1>7, <1>8, <1>9, <1>10, <1>11 DEF Operation
\* What is stored is known and settled as before when only the copies move.
LEMMA StoredAsBefore ==
    ASSUME IInv, TypeOK', api'.st = api.st, UNCHANGED <<pc, starts, faults, crashes>>
    PROVE  /\ HandlesKnown(api.st)' /\ (Settled(api.st) => Settled(api.st)')
           /\ Disturbances' >= Disturbances
<1>y. TypeOK BY DEF IInv
<1>1. HandlesKnown(api.st) BY DEF IInv, CopiesSettled, Copies
<1>2. Disturbances' = Disturbances BY <1>y, DisturbancesNext
<1>3. Recorded' = Recorded BY DEF Recorded
<1>4. Disturbances \in Nat BY <1>y, DisturbancesNext
<1> QED BY <1>1, <1>2, <1>3, <1>4 DEF HandlesKnown, Settled

\* Every step of the informer, the resync loop, the other controllers, the driver and the
\* clock keeps the invariant.
LEMMA EnvironmentKeeps ==
    ASSUME IInv, TypeOK',
           Informer \/ ReSync \/ Assign \/ DeleteVBC \/ DriverProgress \/ TimePasses
    PROVE  IInv'
<1>y. TypeOK BY DEF IInv
<1>v. api \in VBC /\ api.rv \in Nat /\ processed \in Nat BY <1>y, VBCFields DEF TypeOK
<1>k. api.rv # 0 => processed <= api.rv BY DEF IInv, CopiesBehind
<1>0. /\ UNCHANGED <<pc, w, wnew, starts, live, processed, faults, crashes, opc, o, onew>>
  BY DEF Informer, ReSync, Assign, DeleteVBC, DriverProgress, TimePasses, EnvUnchanged,
         workerVars, opVars, driverVars
<1>h. OperationHolds'
  <2>1. Recorded' = Recorded BY <1>0 DEF Recorded
  <2> QED BY <1>0, <2>1 DEF IInv, OperationHolds, HandlesKnown
<1>1. CASE api' = api /\ Server
  <2>1. /\ HandlesKnown(api.st)' /\ (Settled(api.st) => Settled(api.st)')
        /\ Disturbances' >= Disturbances
    BY <1>0, <1>1, StoredAsBefore
  <2>2. processed' >= processed /\ (api'.rv # 0 => processed' <= api'.rv)
    BY <1>0, <1>1, <1>k, <1>v
  <2> QED BY <1>0, <1>1, <1>h, <2>1, <2>2, QuietKeeps
<1>2. ASSUME NEW b \in VBC, Commit(b), api.rv # 0, b.st = api.st, cache' = cache,
             b.fin = api.fin, api.del => b.del
      PROVE  IInv'
  <2>1. Stored(b) BY <1>2, <1>y, CommitStores DEF TypeOK
  <2>2. /\ Server /\ api'.rv # 0 /\ api'.rv >= api.rv /\ api'.rv \in Nat
        /\ api'.st = b.st /\ api'.fin = b.fin /\ api'.del = b.del
    BY <1>2, <2>1, <1>y, StoredServer
  <2>3. /\ HandlesKnown(api.st)' /\ (Settled(api.st) => Settled(api.st)')
        /\ Disturbances' >= Disturbances
    BY <1>0, <1>2, <2>2, StoredAsBefore
  <2>4. processed' >= processed /\ (api'.rv # 0 => processed' <= api'.rv)
    BY <1>0, <1>2, <2>2, <1>k, <1>v
  <2> QED BY <1>0, <1>2, <1>h, <2>2, <2>3, <2>4, QuietKeeps
<1>3. CASE Informer
  <2>1. api' = api /\ Server BY <1>3 DEF Informer, Server
  <2> QED BY <1>1, <2>1
<1>4. CASE ReSync \/ DriverProgress \/ TimePasses
  <2>1. UNCHANGED <<api, watch, cache>>
    BY <1>4 DEF ReSync, DriverProgress, TimePasses, EnvUnchanged, apiVars
  <2> QED BY <1>1, <2>1 DEF Server
<1>5. CASE Assign
  <2> DEFINE b == [api EXCEPT !.prov = TRUE]
  <2>1. /\ Commit(b) /\ api.rv # 0 /\ cache' = cache
        /\ b \in VBC /\ b.st = api.st /\ b.fin = api.fin /\ b.del = api.del
    BY <1>5, <1>v DEF Assign, EnvUnchanged, VBC
  <2> HIDE DEF b
  <2> QED BY <1>2, <2>1
<1>6. CASE DeleteVBC
  <2>0. api.rv # 0 /\ cache' = cache BY <1>6 DEF DeleteVBC, EnvUnchanged
  <2>1. CASE Commit([api EXCEPT !.del = TRUE])
    <3> DEFINE b == [api EXCEPT !.del = TRUE]
    <3>1. Commit(b) /\ b \in VBC /\ b.st = api.st /\ b.fin = api.fin /\ b.del
      BY <2>1, <1>v DEF VBC
    <3> HIDE DEF b
    <3> QED BY <1>2, <2>0, <3>1
  <2>2. CASE ~api.fin /\ Remove
    <3>n. NoVBC.rv = 0 /\ NoVBC.st.bs.run = 0 /\ NoVBC.st.phase = "unset" BY NoVBCType
    <3>t. starts \in Nat /\ Disturbances \in Nat BY <1>y, DisturbancesType
    <3>0. Server /\ api' = NoVBC BY <2>0, <2>2 DEF Server, Remove
    <3>1. CopiesBehind' /\ DeletionLast' BY <3>0, <3>n, <1>y, ServerKeeps DEF IInv
    <3>2. Arriving' \subseteq Arriving \cup {NoVBC} BY <3>0, <1>y, ArrivingNext
    <3>3. starts = 0 BY <2>0, <2>2, <3>t DEF IInv, FinalizerFirst
    <3>4. FinalizerFirst'
      <4>1. \A c \in Arriving : ~c.fin BY <2>0, <2>2 DEF IInv, CopiesBehind
      <4> QED BY <4>1, <3>0, <3>2, <3>3, <3>n, <1>0 DEF FinalizerFirst
    <3>r. Recorded' = Recorded BY <1>0 DEF Recorded
    <3>p. pc \notin {"driver", "start", "startFailed", "started", "run"}
          /\ (pc \in {"init", "finalizer"} => ~w.fin)
      BY <2>2 DEF IInv, WorkerHolds
    <3>5. CopiesSettled'
      <4>1. Recorded = 0 BY <3>3, <3>p DEF Recorded
      <4>2. HandlesKnown(NoVBC.st)' BY <3>n, <3>r, <4>1 DEF HandlesKnown
      <4>3. \A c \in Arriving : HandlesKnown(c.st)'
        BY <3>r DEF IInv, CopiesSettled, Copies, HandlesKnown
      <4> QED BY <4>2, <4>3, <3>0, <3>2, <3>n DEF CopiesSettled, Copies
    <3>6. WorkerHolds'
      <4>1. HandlesKnown(w.st)' BY <1>0, <3>r DEF IInv, WorkerHolds, HandlesKnown
      <4>2. pc \in {"deleting", "delDriver", "delFinalizer"} => \A c \in Copies' : c.rv = 0 \/ c.del
        BY <3>0, <3>2, <3>n DEF IInv, WorkerHolds, Copies
      <4>3. pc = "delFinalizer" => w.st.bs.run \notin live BY DEF IInv, WorkerHolds
      <4> QED BY <4>1, <4>2, <4>3, <3>0, <3>n, <3>p, <1>0 DEF WorkerHolds
    <3>7. Disturbances' = Disturbances BY <1>0, <1>y, DisturbancesNext
    <3>8. StartsPaidFor' BY <1>0, <3>3, <3>7, <3>t DEF StartsPaidFor
    <3>9. OrphansPaidFor'
      <4>1. Cardinality(live) <= starts /\ Cardinality(live) \in Nat BY <1>y, LiveBound
      <4>2. Cardinality(live) <= Disturbances BY <4>1, <3>3, <3>t
      <4> QED BY <4>2, <1>0, <3>7 DEF OrphansPaidFor
    <3> QED BY <1>h, <3>1, <3>4, <3>5, <3>6, <3>8, <3>9 DEF IInv
  <2> QED BY <1>6, <2>1, <2>2 DEF DeleteVBC
<1> QED BY <1>3, <1>4, <1>5, <1>6

\* A crash is paid for.
LEMMA CrashKeeps ==
    ASSUME IInv, TypeOK', Crash
    PROVE  IInv'
<1>y. TypeOK BY DEF IInv
<1>b. api \in VBC BY <1>y DEF TypeOK
<1>v. api.rv \in Nat /\ api.st.bs.run \in Nat BY <1>b, VBCFields
<1>n. NoVBC.st = NoStatus /\ NoStatus.bs.run = 0 /\ NoStatus.phase = "unset" BY NoVBCType
<1>t. starts \in Nat /\ Disturbances \in Nat BY <1>y, DisturbancesType
<1>0. /\ UNCHANGED <<api, starts, live, faults>> /\ crashes' = crashes + 1
      /\ cache' = api /\ watch' = <<>> /\ processed' = 0
      /\ pc' = "idle" /\ w' = NoVBC /\ opc' = "none" /\ o' = NoVBC /\ onew' = NoStatus
  BY DEF Crash, Idle, driverVars
<1>1. Disturbances' = Disturbances + 1 BY <1>0, <1>y, DisturbancesNext
<1>2. Disturbances' > Disturbances /\ Disturbances' >= Disturbances BY <1>1, <1>t
<1>3. Recorded' = starts /\ Recorded <= starts /\ Recorded \in Int BY <1>0, <1>t DEF Recorded
<1>4. HandlesKnown(api.st) BY DEF IInv, CopiesSettled, Copies
<1>5. HandlesKnown(api.st)' BY <1>0, <1>3, <1>4, <1>v, <1>t DEF HandlesKnown
<1>6. Steady BY <1>0, <1>2, <1>5, <1>v DEF Steady, Server
<1>7. OperationHolds' BY <1>0, <1>3, <1>n, <1>t DEF OperationHolds, HandlesKnown
<1>8. WorkerHolds' BY <1>0, IdleHolds
<1>9. \A st : Settled(st)' BY <1>0, <1>2, PaidSettles
<1> QED BY <1>0, <1>6, <1>7, <1>8, <1>9, SteadyKeeps

\* Every step keeps the invariant.
LEMMA NextKeeps ==
    ASSUME IInv, [Next]_vars
    PROVE  IInv'
<1>1. TypeOK' BY NextType DEF IInv
<1>2. CASE UNCHANGED vars
  BY <1>2 DEF vars, IInv, TypeOK, CopiesBehind, DeletionLast, FinalizerFirst, CopiesSettled,
     WorkerHolds, OperationHolds, StartsPaidFor, OrphansPaidFor, Copies, Arriving, HandlesKnown,
     Settled, Recorded, Disturbances
<1> QED BY <1>1, <1>2, WorkerKeeps, OperationKeeps, EnvironmentKeeps, CrashKeeps DEF Next

\* The invariant holds initially.
LEMMA InitKeeps ==
    ASSUME Init
    PROVE  IInv
<1>y. TypeOK BY InitType
<1>n. /\ NoVBC.rv = 0 /\ NoVBC.st = NoStatus /\ ~NoVBC.del /\ ~NoVBC.fin
      /\ NoStatus.bs.run = 0 /\ NoStatus.phase = "unset" /\ NoVBC \in VBC
  BY NoVBCType
<1>0. /\ watch = <<api>> /\ cache = NoVBC /\ processed = 0 /\ pc = "idle" /\ w = NoVBC
      /\ opc = "none" /\ o = NoVBC /\ onew = NoStatus /\ starts = 0 /\ live = {}
  BY DEF Init
<1>1. api.rv = 1 /\ api.st = NoStatus /\ ~api.del /\ ~api.fin
  <2>1. api = [NoVBC EXCEPT !.rv = 1] BY DEF Init
  <2> QED BY <2>1, <1>n DEF VBC
<1>2. Arriving = {NoVBC, api} /\ Copies = {NoVBC, api}
  <2>1. {watch[i] : i \in DOMAIN watch} = {api} BY <1>0
  <2> QED BY <2>1, <1>0 DEF Copies, Arriving
<1>3. Disturbances \in Nat /\ Recorded = 0
  BY <1>y, <1>0, DisturbancesType DEF Recorded
<1>4. \A st : Settled(st) BY <1>0, <1>3 DEF Settled
<1>5. HandlesKnown(NoStatus) BY <1>n, <1>3 DEF HandlesKnown
<1>6. CopiesBehind /\ FinalizerFirst BY <1>0, <1>1, <1>2, <1>n DEF CopiesBehind, FinalizerFirst
<1>7. DeletionLast
  <2>1. DOMAIN watch = {1} BY <1>0
  <2> QED BY <2>1, <1>0, <1>n DEF DeletionLast
<1>8. CopiesSettled BY <1>1, <1>2, <1>4, <1>5, <1>n DEF CopiesSettled
<1>9. WorkerHolds /\ OperationHolds BY <1>0, <1>5, <1>n DEF WorkerHolds, OperationHolds
<1>10. StartsPaidFor /\ OrphansPaidFor
  BY <1>0, <1>1, <1>3 DEF StartsPaidFor, OrphansPaidFor
<1> QED BY <1>y, <1>6, <1>7, <1>8, <1>9, <1>10 DEF IInv

\* The inductive invariant holds in every reachable state.
THEOREM Inductive == Spec => []IInv
<1>1. Init => IInv BY InitKeeps
<1>2. IInv /\ [Next]_vars => IInv' BY NextKeeps
<1> QED BY <1>1, <1>2, PTL DEF Spec

\* The driver is asked to start a backup once, and once more for every failed call or
\* crash: for any number of volumes, retries and disturbances, and however late events
\* are.
THEOREM StartedOnce == Spec => []StartsPaidFor
<1>1. IInv => StartsPaidFor BY DEF IInv
<1> QED BY <1>1, Inductive, PTL

\* When the object is gone the driver keeps no backup, except one for every failed call
\* or crash.
THEOREM NoOrphans == Spec => []OrphansPaidFor
<1>1. IInv => OrphansPaidFor BY DEF IInv
<1> QED BY <1>1, Inductive, PTL

-----------------------------------------------------------------------------
(* What the copies say of the object, when events arrive within the poll interval *)

\* The copies are objects.
LEMMA CopiesType ==
    ASSUME TypeOK
    PROVE  /\ Copies \subseteq VBC /\ \A c \in Copies : c.rv \in Nat
           /\ api \in Copies /\ cache \in Copies /\ Arriving \subseteq Copies
<1>1. api \in VBC BY DEF TypeOK
<1>2. Copies \subseteq VBC BY <1>1, ArrivingType DEF Copies
<1> QED BY <1>2, VBCFields DEF Copies, Arriving

\* What may be seen after a step was seen before, or is the stored object.
LEMMA CopiesNext ==
    ASSUME TypeOK, TypeOK', Server
    PROVE  Copies' \subseteq Copies \cup {api'}
BY ArrivingNext DEF Copies

\* The stored object is changed by a new revision only.
LEMMA ServerOnward ==
    ASSUME TypeOK, TypeOK', Server, api'.rv # 0
    PROVE  /\ api.rv \in Nat /\ api'.rv \in Nat /\ api.rv # 0 /\ api.rv <= api'.rv
           /\ (api' = api \/ api'.rv = api.rv + 1) /\ (api.del => api'.del)
<1>1. api.rv \in Nat /\ api'.rv \in Nat BY VBCFields DEF TypeOK
<1> QED BY <1>1, NoVBCType DEF Server

\* One status after another
LEMMA NotBehindOrder ==
    /\ \A a : NotBehind(a, a)
    /\ \A a, b, c : NotBehind(a, b) /\ NotBehind(b, c) => NotBehind(a, c)
BY DEF NotBehind

\* Versions keep their order when nothing behind the stored object is written.
LEMMA VersionsKept ==
    ASSUME TypeOK, TypeOK', CopiesBehind, VersionsInOrder, Server, api'.rv # 0,
           NotBehind(api.st, api'.st), cache.rv = 0 => pc' = "idle" /\ opc' = "none"
    PROVE  VersionsInOrder'
<1>o. /\ api.rv \in Nat /\ api'.rv \in Nat /\ api.rv # 0 /\ api.rv <= api'.rv
      /\ (api' = api \/ api'.rv = api.rv + 1)
  BY ServerOnward
<1>c. /\ Copies' \subseteq Copies \cup {api'} /\ Arriving' \subseteq Arriving \cup {api'}
      /\ \A c \in Copies : c.rv \in Nat /\ c.rv <= api.rv
  BY <1>o, CopiesNext, CopiesType, ArrivingNext DEF CopiesBehind, Copies
<1>t. /\ watch \in Seq(VBC) /\ \A i \in DOMAIN watch : watch[i].rv \in Nat /\ watch[i].rv <= api.rv
      /\ watch' \in Seq(VBC) /\ cache.rv \in Nat /\ cache.rv <= api.rv
  BY <1>c DEF TypeOK, Copies, Arriving
<1>a. \A c \in Copies : c.rv = api.rv => c = api BY DEF VersionsInOrder, Copies
<1>1. cache'.rv = 0 => pc' = "idle" /\ opc' = "none"
  <2>1. cache' = cache \/ cache' = api \/ (watch # <<>> /\ cache' = watch[1]) BY <1>t DEF Server
  <2>2. watch # <<>> => 1 \in DOMAIN watch BY <1>t
  <2>3. watch # <<>> => watch[1].rv # 0 BY <2>2, <1>t DEF VersionsInOrder
  <2> QED BY <2>1, <2>3, <1>o
<1>2. \A c \in Arriving' : c.rv = api'.rv => c = api'
  <2> SUFFICES ASSUME NEW c \in Arriving', c.rv = api'.rv PROVE c = api' OBVIOUS
  <2>1. CASE c \in Arriving
    <3>1. c.rv <= api.rv /\ c.rv \in Nat BY <2>1, <1>c DEF Copies
    <3>2. api' = api BY <3>1, <1>o
    <3> QED BY <2>1, <3>2, <1>a DEF Copies
  <2> QED BY <2>1, <1>c
<1>3. /\ \A i \in DOMAIN watch' : cache'.rv < watch'[i].rv
      /\ \A i, j \in DOMAIN watch' : i < j => watch'[i].rv < watch'[j].rv
  <2>1. CASE UNCHANGED <<api, watch, cache>> BY <2>1 DEF VersionsInOrder
  <2>2. CASE api'.rv = api.rv + 1 /\ watch' = Append(watch, api') /\ cache' = cache
    <3>1. \A i \in DOMAIN watch' : \/ i \in DOMAIN watch /\ watch'[i] = watch[i]
                                   \/ i = Len(watch) + 1 /\ watch'[i] = api'
      BY <1>t, <2>2
    <3>2. DOMAIN watch = 1..Len(watch) BY <1>t
    <3>3. \A i \in DOMAIN watch : watch[i].rv < api'.rv BY <1>t, <1>o, <2>2
    <3>4. cache.rv < api'.rv BY <1>t, <1>o, <2>2
    <3> QED BY <2>2, <3>1, <3>2, <3>3, <3>4, <1>t DEF VersionsInOrder
  <2>3. CASE watch # <<>> /\ cache' = Head(watch) /\ watch' = Tail(watch)
    <3>1. cache' = watch[1] /\ 1 \in DOMAIN watch BY <1>t, <2>3
    <3>2. \A i \in DOMAIN watch' : /\ i \in Nat /\ i + 1 \in DOMAIN watch /\ 1 < i + 1
                                   /\ watch'[i] = watch[i + 1]
      BY <1>t, <2>3
    <3> QED BY <3>1, <3>2 DEF VersionsInOrder
  <2>4. CASE watch' = <<>> BY <2>4
  <2> QED BY <2>1, <2>2, <2>3, <2>4, NoVBCType DEF Server
<1>4. \A c, d \in Copies' : c.rv # 0 /\ c.rv <= d.rv => NotBehind(c.st, d.st)
  <2> SUFFICES ASSUME NEW c \in Copies', NEW d \in Copies', c.rv # 0, c.rv <= d.rv
               PROVE  NotBehind(c.st, d.st)
    OBVIOUS
  <2>0. api \in Copies BY DEF Copies
  <2>1. CASE c \in Copies /\ d \in Copies BY <2>1 DEF VersionsInOrder
  <2>2. CASE c \in Copies /\ d = api'
    <3>1. NotBehind(c.st, api.st) BY <2>0, <2>2, <1>c DEF VersionsInOrder
    <3> QED BY <2>2, <3>1, NotBehindOrder
  <2>3. CASE c = api' /\ d \in Copies
    <3>1. api' = api BY <2>3, <1>c, <1>o
    <3> QED BY <2>0, <2>3, <3>1 DEF VersionsInOrder
  <2>4. CASE c = api' /\ d = api' BY <2>4, NotBehindOrder
  <2> QED BY <2>1, <2>2, <2>3, <2>4, <1>c
<1> QED BY <1>1, <1>2, <1>3, <1>4 DEF VersionsInOrder

\* The operation is right as before when, while it exists, at most the phase Deleting is
\* written.
LEMMA OperationWaits ==
    ASSUME TypeOK, TypeOK', CopiesBehind, OperationAhead, Server, api'.rv # 0,
           UNCHANGED <<opc, o, onew, due>>,
           opc # "none" =>
              /\ api'.st.bs = api.st.bs
              /\ api'.st.phase = api.st.phase \/ api'.st.phase = "Deleting"
    PROVE  OperationAhead'
<1>o. /\ api.rv \in Nat /\ api'.rv \in Nat /\ api.rv # 0 /\ api.rv <= api'.rv
      /\ (api' = api \/ api'.rv = api.rv + 1) /\ (api.del => api'.del)
  BY ServerOnward
<1>c. /\ Copies' \subseteq Copies \cup {api'} /\ api \in Copies
      /\ \A c \in Copies : c.rv \in Nat /\ c.rv <= api.rv
  BY <1>o, CopiesNext, CopiesType DEF CopiesBehind, Copies
<1>d. due \in Nat BY DEF TypeOK
<1>1. CASE opc = "none" BY <1>1 DEF OperationAhead
<1>2. CASE opc # "none"
  <2>1. \A c, d \in Copies' :
           due <= c.rv /\ c.rv <= d.rv /\ c.st.phase # "InProgress" => d.st.phase # "InProgress"
    <3> SUFFICES ASSUME NEW c \in Copies', NEW d \in Copies', due <= c.rv, c.rv <= d.rv,
                        c.st.phase # "InProgress", d.st.phase = "InProgress"
                 PROVE  FALSE
      OBVIOUS
    <3>1. CASE c \in Copies /\ d \in Copies BY <3>1, <1>2 DEF OperationAhead
    <3>2. CASE c \in Copies /\ d = api'
      <4>1. api.st.phase # "InProgress" BY <3>2, <1>2, <1>c DEF OperationAhead
      <4> QED BY <4>1, <3>2, <1>2
    <3>3. CASE c = api' /\ d \in Copies
      <4>1. api' = api BY <3>3, <1>c, <1>o
      <4> QED BY <4>1, <3>3, <1>2, <1>c DEF OperationAhead
    <3> QED BY <3>1, <3>2, <3>3, <1>c
  <2>2. opc = "tick" => \A c \in Copies' : c.rv >= due =>
             /\ c.st.bs = api'.st.bs
             /\ ~skipBackupProgressProcessing(c) => api'.st.phase \in {"InProgress", "Deleting"}
    <3> SUFFICES ASSUME opc = "tick", NEW c \in Copies', c.rv >= due
                 PROVE  /\ c.st.bs = api'.st.bs
                        /\ ~skipBackupProgressProcessing(c) =>
                              api'.st.phase \in {"InProgress", "Deleting"}
      OBVIOUS
    <3>1. CASE c \in Copies
      <4>1. /\ c.st.bs = api.st.bs
            /\ ~skipBackupProgressProcessing(c) => api.st.phase \in {"InProgress", "Deleting"}
        BY <3>1 DEF OperationAhead
      <4> QED BY <4>1, <1>2
    <3>2. CASE c = api' BY <3>2 DEF skipBackupProgressProcessing
    <3> QED BY <3>1, <3>2, <1>c
  <2>3. opc = "success" => \/ api'.st.phase \in {"Completed", "Deleting"}
                           \/ \A c \in Copies' : skipBackupProgressProcessing(c)
    <3> SUFFICES ASSUME opc = "success", api'.st.phase \notin {"Completed", "Deleting"}
                 PROVE  \A c \in Copies' : skipBackupProgressProcessing(c)
      OBVIOUS
    <3>1. \A c \in Copies : skipBackupProgressProcessing(c) BY <1>2 DEF OperationAhead
    <3>2. skipBackupProgressProcessing(api')
      BY <3>1, <1>2, <1>c, <1>o DEF skipBackupProgressProcessing
    <3> QED BY <3>1, <3>2, <1>c
  <2>4. /\ opc \in {"stat", "update"} => o.st.bs = api'.st.bs
        /\ opc \in {"stat", "update", "failure", "fail"} =>
              api'.st.phase \in {"InProgress", "Deleting"}
        /\ opc = "complete" => api'.st.phase \in {"Completed", "Deleting"}
    BY <1>2 DEF OperationAhead
  <2>5. opc = "update" /\ onew.phase = "Completed" => ProgressCompleted(onew.bs.prog)
    BY DEF OperationAhead
  <2> QED BY <2>1, <2>2, <2>3, <2>4, <2>5 DEF OperationAhead, ProgressCompleted
<1> QED BY <1>1, <1>2

\* The worker is right as before when it does nothing, and the phase is written only by an
\* operation.
LEMMA WorkerWaits ==
    ASSUME TypeOK, TypeOK', CopiesBehind, WorkerBehind, OneAtATime, Server, api'.rv # 0,
           NotBehind(api.st, api'.st), UNCHANGED <<pc, w>>, processed' >= processed,
           Disturbances' >= Disturbances,
           opc = "none" => api'.st.phase = api.st.phase
    PROVE  WorkerBehind'
<1>o. /\ api.rv \in Nat /\ api'.rv \in Nat /\ api.rv # 0 /\ api.rv <= api'.rv
      /\ (api' = api \/ api'.rv = api.rv + 1) /\ (api.del => api'.del)
  BY ServerOnward
<1>c. /\ Copies' \subseteq Copies \cup {api'} /\ api \in Copies
      /\ \A c \in Copies : c.rv \in Nat
  BY CopiesNext, CopiesType
<1>d. /\ processed \in Nat /\ processed' \in Nat /\ Disturbances \in Nat /\ Disturbances' \in Nat
  BY DisturbancesNext DEF TypeOK
<1>a. \A c \in Copies : Accessible(c)' => Accessible(c) BY <1>c, <1>d DEF Accessible
<1>b. Accessible(api) BY <1>o DEF Accessible, CopiesBehind
<1>m. ASSUME NEW st, MayStart(st), opc # "none" => Begun(st) PROVE MayStart(st)'
  <2>1. CASE opc = "none"
    <3>1. PICK n \in Nat : n = Disturbances' BY <1>d
    <3>2. Disturbances >= 2 => n >= 2 BY <3>1, <1>d
    <3> QED BY <1>m, <2>1, <3>1, <3>2 DEF MayStart, Begun
  <2>2. CASE opc # "none" BY <1>m, <2>2 DEF MayStart, Begun
  <2> QED BY <2>1, <2>2
<1>1. pc # "idle" => \A c \in Copies' : Accessible(c)' => NotBehind(w.st, c.st)
  <2>1. pc # "idle" => NotBehind(w.st, api'.st)
    BY <1>b, <1>c, NotBehindOrder DEF WorkerBehind
  <2> QED BY <2>1, <1>a, <1>c DEF WorkerBehind
<1>2. pc \in {"init", "finalizer", "driver", "start", "startFailed", "started"} => MayStart(w.st)'
  <2> SUFFICES ASSUME pc \in {"init", "finalizer", "driver", "start", "startFailed", "started"}
               PROVE  MayStart(w.st)'
    OBVIOUS
  <2>1. MayStart(w.st) /\ (opc # "none" => Begun(w.st)) BY DEF WorkerBehind, OneAtATime
  <2>2. PICK st : st = w.st OBVIOUS
  <2>3. MayStart(st)' BY <2>1, <2>2, <1>m
  <2> QED BY <2>2, <2>3 DEF MayStart
<1>3. \A c \in Copies' : Accessible(c)' /\ ~c.del => MayStart(c.st)'
  <2> SUFFICES ASSUME NEW c \in Copies', Accessible(c)', ~c.del PROVE MayStart(c.st)' OBVIOUS
  <2>1. CASE c \in Copies
    <3>1. MayStart(c.st) /\ (opc # "none" => Begun(c.st))
      BY <2>1, <1>a DEF WorkerBehind, OneAtATime
    <3>2. PICK st : st = c.st OBVIOUS
    <3>3. MayStart(st)' BY <3>1, <3>2, <1>m
    <3> QED BY <3>2, <3>3 DEF MayStart
  <2>2. CASE c = api' BY <2>2 DEF MayStart, Begun
  <2> QED BY <2>1, <2>2, <1>c
<1>4. pc = "startFailed" => Disturbances' >= 1
  <2>1. PICK n \in Nat : n = Disturbances' BY <1>d
  <2>2. Disturbances >= 1 => n >= 1 BY <2>1, <1>d
  <2> QED BY <2>1, <2>2 DEF WorkerBehind
<1> QED BY <1>1, <1>2, <1>3, <1>4 DEF WorkerBehind

\* Nothing is started as before when the operation was there before, and the worker holds
\* what it held, what is stored or what the lister had.
LEMMA OneWaits ==
    ASSUME TypeOK, TypeOK', CopiesBehind, OneAtATime, Server, api'.rv # 0,
           NotBehind(api.st, api'.st), processed' >= processed, opc' # "none" => opc # "none",
           \/ pc' = "idle"
           \/ pc # "idle" /\ w' = w
           \/ w' = api'
           \/ \E c \in Copies : Accessible(c) /\ w' = c
    PROVE  OneAtATime'
<1>o. api.rv \in Nat /\ api.rv # 0 BY ServerOnward
<1>c. /\ Copies' \subseteq Copies \cup {api'} /\ api \in Copies
      /\ \A c \in Copies : c.rv \in Nat
  BY CopiesNext, CopiesType
<1>d. processed \in Nat /\ processed' \in Nat BY DEF TypeOK
<1>a. \A c \in Copies : Accessible(c)' => Accessible(c) BY <1>c, <1>d DEF Accessible
<1>b. Accessible(api) BY <1>o DEF Accessible, CopiesBehind
<1> SUFFICES ASSUME opc # "none"
             PROVE  /\ \A c \in Copies' : Accessible(c)' => Begun(c.st)
                    /\ pc' # "idle" => Begun(w'.st)
  BY DEF OneAtATime
<1>1. Begun(api'.st) BY <1>b, <1>c DEF OneAtATime, NotBehind
<1>2. \A c \in Copies' : Accessible(c)' => Begun(c.st) BY <1>a, <1>c, <1>1 DEF OneAtATime
<1>3. pc' # "idle" => Begun(w'.st) BY <1>1 DEF OneAtATime
<1> QED BY <1>2, <1>3

\* After a patch of the worker that succeeded its copy is the stored object, and all the
\* lister may still give it.
LEMMA PatchDone ==
    ASSUME TypeOK, TypeOK', CopiesBehind', VersionsInOrder', Server, api'.rv # 0,
           processed' >= api'.rv,
           \/ pc' = "idle"
           \/ w' = api' /\ pc' # "startFailed",
           pc' \in {"finalizer", "driver", "start", "started"} => api'.st.phase # "unset",
           pc' = "run" => Begun(api'.st)
    PROVE  WorkerBehind'
<1>o. api.rv \in Nat /\ api'.rv \in Nat BY ServerOnward
<1>1. \A c \in Copies' : Accessible(c)' => c = api'
  <2> SUFFICES ASSUME NEW c \in Copies', Accessible(c)' PROVE c = api' OBVIOUS
  <2>1. CASE c \in Arriving'
    <3>0. c \in VBC BY <2>1, ArrivingNext, ArrivingType DEF TypeOK
    <3>1. c.rv \in Nat /\ c.rv <= api'.rv BY <2>1, <3>0, VBCFields DEF CopiesBehind
    <3>2. c.rv >= processed' /\ processed' \in Nat BY DEF Accessible, TypeOK
    <3>3. c.rv = api'.rv BY <3>1, <3>2, <1>o
    <3> QED BY <3>3, <2>1 DEF VersionsInOrder
  <2> QED BY <2>1 DEF Copies
<1>2. MayStart(api.st)' BY DEF MayStart, Begun
<1>3. \A c \in Copies' : Accessible(c)' => MayStart(c.st)' BY <1>1, <1>2 DEF MayStart
<1>4. pc' # "idle" => \A c \in Copies' : Accessible(c)' => NotBehind(w'.st, c.st)
  BY <1>1, NotBehindOrder
<1>5. pc' # "idle" => MayStart(w.st)' BY <1>2 DEF MayStart
<1> QED BY <1>3, <1>4, <1>5 DEF WorkerBehind

\* After a patch of which the answer is lost the lister may give the worker old copies.
LEMMA PatchLost ==
    ASSUME TypeOK, TypeOK', Server, api'.rv # 0, pc' = "idle", processed' = processed,
           \A c \in Copies : Accessible(c) /\ ~c.del => MayStart(c.st)'
    PROVE  WorkerBehind'
<1>c. Copies' \subseteq Copies \cup {api'} BY CopiesNext
<1>1. \A c \in Copies' : Accessible(c)' /\ ~c.del => MayStart(c.st)'
  <2> SUFFICES ASSUME NEW c \in Copies', Accessible(c)', ~c.del PROVE MayStart(c.st)' OBVIOUS
  <2>1. CASE c \in Copies BY <2>1 DEF Accessible
  <2>2. CASE c = api' BY <2>2 DEF MayStart, Begun
  <2> QED BY <2>1, <2>2, <1>c
<1> QED BY <1>1 DEF WorkerBehind

\* A step that leaves the object in place, and is right about the worker and the operation
\* and about handles and progress, keeps the invariant.
LEMMA StepKeeps ==
    ASSUME IInv, IInv', PromptInv, Server, api'.rv # 0,
           NotBehind(api.st, api'.st), cache.rv = 0 => pc' = "idle" /\ opc' = "none",
           WorkerBehind', OneAtATime', OperationAhead', progress' = progress,
           \A bs \in {w'.st.bs, wnew'.bs, o'.st.bs, onew'.bs, api'.st.bs} :
              bs \in BackupStates \cup {NoState} \/ ProgressKnown(bs)',
           pc' = "started" => starts' \in live',
           ~api'.del => live \subseteq live' /\ api'.st.bs.run \in live' \cup {api.st.bs.run},
           api'.st.phase = "Deleting" => api'.del \/ api.st.phase = "Deleting",
           api'.st.phase = "Completed" /\ ~api'.del =>
              \/ api.st.phase = "Completed" /\ api'.st.bs = api.st.bs
              \/ /\ api'.st.bs.run \in live'
                 /\ \A v \in Volumes : progress[api'.st.bs.run][v] = Full
    PROVE  PromptInv'
<1>y. TypeOK /\ TypeOK' /\ CopiesBehind BY DEF IInv
<1>o. api.rv # 0 /\ (api.del => api'.del) BY <1>y, ServerOnward
<1>1. VersionsInOrder' BY <1>y, <1>o, VersionsKept DEF PromptInv
<1>2. ASSUME NEW bs \in BackupStates' PROVE ProgressKnown(bs)'
  <2>1. ProgressKnown(bs) => ProgressKnown(bs)' BY DEF ProgressKnown
  <2>2. bs \in BackupStates => ProgressKnown(bs)' BY <2>1 DEF PromptInv, DriverKnows
  <2>3. ProgressKnown(NoState)'
    <3>1. NoState.run = 0 /\ \A v \in Volumes : NoState.prog[v] = 0
      BY DEF NoState, Untouched
    <3> QED BY <3>1 DEF ProgressKnown
  <2>4. CASE bs \in {w'.st.bs, wnew'.bs, o'.st.bs, onew'.bs, api'.st.bs} BY <2>2, <2>3, <2>4
  <2>5. CASE \E c \in Copies' : bs = c.st.bs
    <3>1. PICK c \in Copies' : bs = c.st.bs BY <2>5
    <3>2. c \in Copies \/ c = api' BY <1>y, CopiesNext
    <3>3. c \in Copies => bs \in BackupStates BY <3>1 DEF BackupStates
    <3> QED BY <2>2, <2>4, <3>1, <3>2, <3>3
  <2> QED BY <2>4, <2>5 DEF BackupStates
<1>3. DriverKnows'
  <2>1. api'.st.bs.run # 0 /\ ~api'.del => api'.st.bs.run \in live'
    BY <1>o DEF PromptInv, DriverKnows
  <2>2. api'.st.phase = "Deleting" => api'.del BY <1>o DEF PromptInv, DriverKnows
  <2> QED BY <1>2, <2>1, <2>2 DEF DriverKnows
<1>4. CompletedMeansDone'
  <2> SUFFICES ASSUME api'.st.phase = "Completed", ~api'.del
               PROVE  /\ api'.st.bs.run \in live'
                      /\ \A v \in Volumes : progress'[api'.st.bs.run][v] = Full
    BY DEF CompletedMeansDone
  <2>1. CASE api.st.phase = "Completed" /\ api'.st.bs = api.st.bs
    BY <1>o, <2>1 DEF PromptInv, CompletedMeansDone
  <2> QED BY <2>1
<1> QED BY <1>1, <1>3, <1>4 DEF PromptInv

\* When the object is gone little remains to be right about.
LEMMA GoneKeeps ==
    ASSUME TypeOK, TypeOK', PromptInv, Server, api' = NoVBC, progress' = progress,
           \A bs \in {w'.st.bs, wnew'.bs, o'.st.bs, onew'.bs} :
              bs \in BackupStates \cup {NoState} \/ ProgressKnown(bs)',
           pc' # "started"
    PROVE  PromptInv'
<1>n. NoVBC.rv = 0 /\ NoVBC.st.phase = "unset" /\ NoVBC.st.bs = NoState /\ NoState.run = 0
  BY NoVBCType
<1>1. ASSUME NEW bs \in BackupStates' PROVE ProgressKnown(bs)'
  <2>1. ProgressKnown(bs) => ProgressKnown(bs)' BY DEF ProgressKnown
  <2>2. bs \in BackupStates => ProgressKnown(bs)' BY <2>1 DEF PromptInv, DriverKnows
  <2>3. ProgressKnown(NoState)'
    <3>1. NoState.run = 0 /\ \A v \in Volumes : NoState.prog[v] = 0
      BY DEF NoState, Untouched
    <3> QED BY <3>1 DEF ProgressKnown
  <2>4. CASE bs \in {w'.st.bs, wnew'.bs, o'.st.bs, onew'.bs} BY <2>2, <2>3, <2>4
  <2>5. CASE \E c \in Copies' : bs = c.st.bs
    <3>1. PICK c \in Copies' : bs = c.st.bs BY <2>5
    <3>2. c \in Copies \/ c = NoVBC BY CopiesNext
    <3>3. c \in Copies => bs \in BackupStates BY <3>1 DEF BackupStates
    <3> QED BY <2>2, <2>3, <3>1, <3>2, <3>3, <1>n
  <2> QED BY <2>4, <2>5 DEF BackupStates
<1> QED BY <1>n, <1>1 DEF PromptInv, DriverKnows, CompletedMeansDone
-----------------------------------------------------------------------------
(* The worker's steps, when events arrive within the poll interval *)

\* A handler's step that writes nothing keeps the invariant.
LEMMA HandlerMoves ==
    ASSUME IInv, IInv', PromptInv,
           UNCHANGED <<api, watch, cache, opc, o, onew, due, progress, processed>>,
           Disturbances' >= Disturbances, pc # "idle",
           IF pc' = "idle" THEN w' = NoVBC ELSE w' = w,
           wnew'.bs \in BackupStates \cup {NoState} \/ (api.rv # 0 /\ ProgressKnown(wnew.bs)'),
           pc' # "init",
           api.rv # 0 /\ pc' \in {"finalizer", "driver", "start", "startFailed", "started"} =>
              w.st.phase # "unset" /\ MayStart(w.st),
           pc' = "run" => Begun(w.st),
           pc' = "startFailed" => Disturbances' >= 1,
           pc' = "started" => starts' \in live',
           api.rv # 0 /\ ~api.del => live \subseteq live'
    PROVE  PromptInv'
<1>y. TypeOK /\ TypeOK' /\ CopiesBehind BY DEF IInv
<1>s. Server BY DEF Server
<1>n. NoVBC.st.bs = NoState BY NoVBCType
<1>b. /\ w'.st.bs \in BackupStates \cup {NoState} /\ o'.st.bs \in BackupStates
      /\ onew'.bs \in BackupStates /\ api'.st.bs \in BackupStates
  BY <1>n DEF BackupStates, Copies
<1>1. CASE api.rv = 0
  <2>1. api' = NoVBC BY <1>1 DEF PromptInv, DriverKnows
  <2>2. pc' # "started" BY <1>1 DEF IInv, WorkerHolds
  <2> QED BY <1>1, <1>b, <1>s, <1>y, <2>1, <2>2, GoneKeeps
<1>2. CASE api.rv # 0
  <2>i. VersionsInOrder /\ WorkerBehind /\ OneAtATime /\ OperationAhead
    BY <1>2 DEF PromptInv
  <2>c. Copies' = Copies BY DEF Copies, Arriving
  <2>m. ASSUME NEW st, MayStart(st) PROVE MayStart(st)'
    <3>1. PICK n \in Nat : n = Disturbances' BY <1>y, DisturbancesNext
    <3>2. Disturbances \in Nat BY <1>y, DisturbancesNext
    <3>3. Disturbances >= 2 => n >= 2 BY <3>1, <3>2
    <3> QED BY <2>m, <3>1, <3>3 DEF MayStart, Begun
  <2>1. WorkerBehind'
    <3>1. \A c \in Copies' : Accessible(c)' /\ ~c.del => MayStart(c.st)'
      <4> SUFFICES ASSUME NEW c \in Copies, Accessible(c), ~c.del PROVE MayStart(c.st)'
        BY <2>c DEF Accessible
      <4>1. PICK st : st = c.st OBVIOUS
      <4>2. MayStart(st)' BY <2>m, <2>i, <4>1 DEF WorkerBehind
      <4> QED BY <4>1, <4>2 DEF MayStart
    <3>2. pc' \in {"init", "finalizer", "driver", "start", "startFailed", "started"} =>
             MayStart(w.st)'
      <4> SUFFICES ASSUME pc' \in {"finalizer", "driver", "start", "startFailed", "started"}
                   PROVE  MayStart(w.st)'
        OBVIOUS
      <4>1. PICK st : st = w.st OBVIOUS
      <4>2. MayStart(st)' BY <2>m, <1>2, <4>1
      <4> QED BY <4>1, <4>2 DEF MayStart
    <3>3. pc' # "idle" => \A c \in Copies' : Accessible(c)' => NotBehind(w'.st, c.st)
      BY <2>c, <2>i DEF WorkerBehind, Accessible
    <3> QED BY <3>1, <3>2, <3>3, <1>2 DEF WorkerBehind
  <2>2. NotBehind(api.st, api'.st) BY NotBehindOrder
  <2>3. OneAtATime' BY <1>y, <1>s, <1>2, <2>i, <2>2, OneWaits DEF TypeOK
  <2>4. OperationAhead' BY <1>y, <1>s, <1>2, <2>i, OperationWaits
  <2>5. cache.rv # 0 BY <2>i DEF VersionsInOrder
  <2> QED BY <1>2, <1>b, <1>s, <2>1, <2>2, <2>3, <2>4, <2>5, StepKeeps
<1> QED BY <1>1, <1>2

\* Taking the key
LEMMA ProcessQueuePrompt ==
    ASSUME IInv, IInv', PromptInv, ProcessQueue
    PROVE  PromptInv'
<1>y. TypeOK /\ TypeOK' /\ CopiesBehind BY DEF IInv
<1>0. /\ UNCHANGED <<api, watch, cache, opc, o, onew, due, starts, live, progress, faults, crashes>>
      /\ pc = "idle"
  BY DEF ProcessQueue, apiVars, opVars, driverVars
<1>s. Server BY <1>0 DEF Server
<1>d. Disturbances' >= Disturbances BY <1>0, <1>y, DisturbancesNext
<1>r. cache.rv \in Nat /\ processed \in Nat BY <1>y, VBCFields DEF TypeOK
<1>1. \/ UNCHANGED <<pc, w, wnew, processed>>
      \/ /\ cache.rv # 0 /\ ~(processed > cache.rv) /\ processed' = cache.rv
         /\ pc' = (IF cache.del THEN "deleting" ELSE "init") /\ w' = cache /\ wnew' = cache.st
  BY DEF ProcessQueue, workerVars
<1>b. /\ w'.st.bs \in BackupStates /\ wnew'.bs \in BackupStates /\ o'.st.bs \in BackupStates
      /\ onew'.bs \in BackupStates /\ api'.st.bs \in BackupStates
  BY <1>0, <1>1 DEF BackupStates, Copies, Arriving
<1>2. CASE api.rv = 0
  <2>1. api' = NoVBC BY <1>0, <1>2 DEF PromptInv, DriverKnows
  <2>2. pc' # "started" BY <1>0, <1>1
  <2> QED BY <1>0, <1>b, <1>s, <1>y, <2>1, <2>2, GoneKeeps
<1>3. CASE api.rv # 0
  <2>i. VersionsInOrder /\ WorkerBehind /\ OneAtATime /\ OperationAhead
    BY <1>3 DEF PromptInv
  <2>c. Copies' = Copies /\ cache \in Copies BY <1>0 DEF Copies, Arriving
  <2>2. NotBehind(api.st, api'.st) BY <1>0, NotBehindOrder
  <2>4. OperationAhead' BY <1>0, <1>y, <1>s, <1>3, <2>i, OperationWaits
  <2>p. processed' >= processed BY <1>1, <1>r
  <2>1. WorkerBehind'
    <3>1. CASE UNCHANGED <<pc, w, wnew, processed>>
      BY <1>0, <1>3, <1>y, <1>s, <1>d, <2>i, <2>2, <2>p, <3>1, WorkerWaits
    <3>2. CASE /\ cache.rv # 0 /\ ~(processed > cache.rv) /\ processed' = cache.rv
               /\ pc' = (IF cache.del THEN "deleting" ELSE "init") /\ w' = cache
      <4>1. \A c \in Copies : c.rv \in Nat BY <1>y, CopiesType
      <4>2. Accessible(cache) BY <3>2, <1>r DEF Accessible
      <4>3. \A c \in Copies : Accessible(c)' => Accessible(c)
        BY <3>2, <1>r, <4>1 DEF Accessible
      <4>4. \A c \in Copies : Accessible(c)' => NotBehind(cache.st, c.st)
        BY <3>2, <2>i, <2>c DEF VersionsInOrder, Accessible
      <4>5. \A st : MayStart(st) => MayStart(st)' BY <1>0 DEF MayStart, Begun, Disturbances
      <4>6. \A c \in Copies : Accessible(c)' /\ ~c.del => MayStart(c.st)'
        <5> SUFFICES ASSUME NEW c \in Copies, Accessible(c)', ~c.del PROVE MayStart(c.st)' OBVIOUS
        <5>1. MayStart(c.st) BY <4>3, <2>i DEF WorkerBehind
        <5> QED BY <5>1, <1>0 DEF MayStart, Begun, Disturbances
      <4>7. ~cache.del => MayStart(w.st)'
        <5>1. ~cache.del => MayStart(cache.st) BY <4>2, <2>c, <2>i DEF WorkerBehind
        <5> QED BY <5>1, <3>2, <1>0 DEF MayStart, Begun, Disturbances
      <4> QED BY <3>2, <2>c, <4>4, <4>6, <4>7 DEF WorkerBehind
    <3> QED BY <1>1, <3>1, <3>2
  <2>3. OneAtATime'
    <3>1. \/ pc' = "idle"
          \/ \E c \in Copies : Accessible(c) /\ w' = c
      BY <1>0, <1>1, <1>r, <2>c DEF Accessible
    <3> QED BY <1>0, <1>3, <1>y, <1>s, <2>i, <2>2, <2>p, <3>1, OneWaits
  <2>5. cache.rv = 0 => pc' = "idle" /\ opc' = "none" BY <1>0, <1>1, <2>i DEF VersionsInOrder
  <2>6. pc' # "started" BY <1>0, <1>1
  <2> QED BY <1>0, <1>3, <1>b, <1>s, <2>1, <2>2, <2>3, <2>4, <2>5, <2>6, StepKeeps
<1> QED BY <1>2, <1>3

\* Handing over to the operation
LEMMA RunOperationPrompt ==
    ASSUME IInv, IInv', PromptInv, RunOperation
    PROVE  PromptInv'
<1>y. TypeOK /\ TypeOK' /\ CopiesBehind BY DEF IInv
<1>0. /\ UNCHANGED <<api, watch, cache, processed, o, onew, starts, live, progress, faults, crashes>>
      /\ pc = "run" /\ pc' = "idle" /\ w' = NoVBC /\ wnew' = NoStatus
      /\ IF opc = "none" THEN opc' = "tick" /\ due' = api.rv ELSE UNCHANGED <<opc, due>>
  BY DEF RunOperation, Return, Idle, apiVars, opVars, driverVars
<1>s. Server BY <1>0 DEF Server
<1>d. Disturbances' >= Disturbances BY <1>0, <1>y, DisturbancesNext
<1>n. NoVBC.st.bs = NoState /\ NoStatus.bs = NoState BY NoVBCType
<1>b. /\ w'.st.bs = NoState /\ wnew'.bs = NoState /\ o'.st.bs \in BackupStates
      /\ onew'.bs \in BackupStates /\ api'.st.bs \in BackupStates
  BY <1>0, <1>n DEF BackupStates, Copies
<1>3. api.rv # 0 BY <1>0 DEF IInv, WorkerHolds
<1>1. CASE opc # "none" BY <1>0, <1>b, <1>d, <1>1, HandlerMoves
<1>2. CASE opc = "none"
  <2>i. VersionsInOrder /\ WorkerBehind /\ OneAtATime /\ OperationAhead
    BY <1>3 DEF PromptInv
  <2>c. Copies' = Copies /\ \A c \in Copies : c.rv \in Nat /\ c.rv <= api.rv
    <3>1. \A c \in Copies : c.rv \in Nat BY <1>y, CopiesType
    <3>2. \A c \in Arriving : c.rv <= api.rv BY <1>3 DEF IInv, CopiesBehind
    <3>3. api.rv <= api.rv BY <3>1 DEF Copies
    <3> QED BY <1>0, <3>1, <3>2, <3>3 DEF Copies, Arriving
  <2>a. \A c \in Copies : c.rv >= api.rv => c = api
    <3>1. api.rv \in Nat BY <1>y, CopiesType
    <3>2. \A c \in Copies : c.rv >= api.rv => c.rv = api.rv BY <2>c, <3>1
    <3> QED BY <3>2, <2>i DEF VersionsInOrder, Copies
  <2>1. WorkerBehind'
    <3>1. \A c \in Copies' : Accessible(c)' /\ ~c.del => MayStart(c.st)'
      <4> SUFFICES ASSUME NEW c \in Copies, Accessible(c), ~c.del PROVE MayStart(c.st)'
        BY <2>c, <1>0 DEF Accessible
      <4>1. MayStart(c.st) BY <2>i DEF WorkerBehind
      <4> QED BY <4>1, <1>0 DEF MayStart, Begun, Disturbances
    <3> QED BY <3>1, <1>0 DEF WorkerBehind
  <2>2. OneAtATime'
    <3>1. Begun(w.st) /\ \A c \in Copies : Accessible(c) => NotBehind(w.st, c.st)
      BY <1>0, <2>i DEF WorkerBehind
    <3>2. \A c \in Copies' : Accessible(c)' => Begun(c.st)
      BY <3>1, <2>c, <1>0 DEF NotBehind, Accessible
    <3> QED BY <3>2, <1>0 DEF OneAtATime
  <2>3. OperationAhead'
    <3>1. \A c, d \in Copies' :
             due' <= c.rv /\ c.rv <= d.rv /\ c.st.phase # "InProgress" => d.st.phase # "InProgress"
      <4> SUFFICES ASSUME NEW c \in Copies, NEW d \in Copies, api.rv <= c.rv, c.rv <= d.rv
                   PROVE  c = d
        BY <1>0, <1>2, <2>c
      <4>1. api.rv \in Nat BY <1>y, CopiesType
      <4>2. c.rv >= api.rv /\ d.rv >= api.rv BY <2>c, <4>1
      <4> QED BY <4>2, <2>a
    <3>2. \A c \in Copies' : c.rv >= due' => c = api' BY <1>0, <1>2, <2>a, <2>c
    <3>3. \A c \in Copies' : c.rv >= due' =>
             /\ c.st.bs = api'.st.bs
             /\ ~skipBackupProgressProcessing(c) => api'.st.phase \in {"InProgress", "Deleting"}
      BY <3>2 DEF skipBackupProgressProcessing
    <3> QED BY <3>1, <3>3, <1>0, <1>2 DEF OperationAhead
  <2>4. cache.rv # 0 BY <1>0, <2>i DEF VersionsInOrder
  <2>5. NotBehind(api.st, api'.st) BY <1>0, NotBehindOrder
  <2> QED BY <1>0, <1>3, <1>b, <1>s, <2>1, <2>2, <2>3, <2>4, <2>5, StepKeeps
<1> QED BY <1>1, <1>2

\* A patch of the worker, carried out or not, with the answer lost or not
LEMMA WorkerPatchPrompt ==
    ASSUME IInv, IInv', PromptInv, NEW b \in VBC, NEW next,
           WorkerPatch(b, next) \/ (pc = "startFailed" /\ StartFailed
                                    /\ b = Patched(w.st, [w.st EXCEPT !.phase = "Failed"])),
           next \in {"finalizer", "driver", "run", "delDriver"},
           pc # "idle", b.fin = api.fin \/ b.fin, b.del = api.del, b.st.bs \in BackupStates,
           api.rv # 0 =>
              /\ NotBehind(api.st, b.st)
              /\ opc # "none" =>
                    b.st.bs = api.st.bs /\ (b.st.phase = api.st.phase \/ b.st.phase = "Deleting")
              /\ ~api.del => b.st.bs.run \in live \cup {api.st.bs.run}
              /\ b.st.phase = "Deleting" => api.del \/ api.st.phase = "Deleting"
              /\ b.st.phase = "Completed" => api.st.phase = "Completed" /\ b.st.bs = api.st.bs
              /\ next \in {"finalizer", "driver"} => b.st.phase # "unset"
              /\ next = "run" => Begun(b.st)
              /\ \A c \in Copies : Accessible(c) /\ ~c.del =>
                    /\ c.st.phase = "unset" => ~Begun(b.st)
                    /\ ~Begun(c.st) => \/ b.st.phase \in {"unset", "New", "InProgress"}
                                       \/ b.st.phase = "Failed" /\ Disturbances >= 1
    PROVE  PromptInv'
<1>y. TypeOK /\ TypeOK' /\ CopiesBehind /\ CopiesBehind' BY DEF IInv
<1>t. api \in VBC /\ processed \in Nat /\ processed' \in Nat /\ watch \in Seq(VBC)
  BY <1>y DEF TypeOK
<1>n. NoVBC.st.bs = NoState /\ NoStatus.bs = NoState BY NoVBCType
<1>d. Disturbances \in Nat /\ Disturbances' \in Nat BY <1>y, DisturbancesNext
<1>0. UNCHANGED <<cache, opc, o, onew, due, starts, live, progress, crashes>>
  BY Zenon DEF WorkerPatch, StartFailed, opVars, driverVars
<1>e. Commit(b) => Stored(b) BY <1>t, CommitStores
<1>1. \/ /\ api.rv # 0 /\ Stored(b) /\ StoreRevisionUpdate(api'.rv) /\ UNCHANGED faults
         /\ \/ pc' = next /\ w' = api' /\ wnew' = api'.st
            \/ pc' = "idle" /\ w' = NoVBC /\ wnew' = NoStatus
      \/ /\ \/ UNCHANGED <<api, watch>> /\ (UNCHANGED faults \/ Fault)
            \/ api.rv # 0 /\ Fault /\ Stored(b)
         /\ pc' = "idle" /\ w' = NoVBC /\ wnew' = NoStatus /\ UNCHANGED processed
  BY <1>e, Zenon DEF WorkerPatch, StartFailed, Goto, Return, ReturnErr, Idle, apiVars
<1>g. Disturbances' >= Disturbances BY <1>0, <1>1, <1>d, <1>y, DisturbancesNext
<1>b. o'.st.bs \in BackupStates /\ onew'.bs \in BackupStates
  BY <1>0 DEF BackupStates
\* nothing is written
<1>2. CASE UNCHANGED <<api, watch, processed>> /\ pc' = "idle" /\ w' = NoVBC /\ wnew' = NoStatus
  BY <1>0, <1>2, <1>g, <1>n, HandlerMoves
\* the object changes
<1>3. CASE api.rv # 0 /\ Stored(b)
  <2>i. VersionsInOrder /\ WorkerBehind /\ OneAtATime /\ OperationAhead
    BY <1>3 DEF PromptInv
  <2>s. /\ Server /\ api'.rv # 0 /\ api'.rv >= api.rv /\ api'.rv \in Nat /\ api.rv \in Nat
        /\ api'.st = b.st /\ api'.del = b.del
    BY <1>0, <1>3, <1>y, StoredServer
  <2>2. NotBehind(api.st, api'.st) BY <1>3, <2>s
  <2>4. OperationAhead' BY <1>0, <1>3, <1>y, <2>i, <2>s, OperationWaits
  <2>5. cache.rv # 0 BY <2>i DEF VersionsInOrder
  <2>v. VersionsInOrder' BY <1>y, <2>i, <2>s, <2>2, <2>5, VersionsKept
  <2>p. processed' >= processed
    <3>1. StoreRevisionUpdate(api'.rv) => processed' >= processed
      BY <1>t, <2>s, StoreRevisionType
    <3>2. processed' = processed => processed' >= processed BY <1>t
    <3> QED BY <1>1, <3>1, <3>2
  <2>w. pc' = "idle" \/ w' = api' BY <1>1
  <2>3. OneAtATime' BY <1>0, <1>y, <2>i, <2>s, <2>2, <2>p, <2>w, OneWaits
  <2>1. WorkerBehind'
    <3>1. CASE /\ StoreRevisionUpdate(api'.rv)
               /\ \/ pc' = next /\ w' = api'
                  \/ pc' = "idle"
      <4>1. processed' >= api'.rv BY <1>t, <2>s, <3>1, StoreRevisionType
      <4>2. pc' = "idle" \/ (w' = api' /\ pc' # "startFailed") BY <3>1
      <4>3. /\ pc' \in {"finalizer", "driver", "start", "started"} => api'.st.phase # "unset"
            /\ pc' = "run" => Begun(api'.st)
        BY <3>1, <2>s, <1>3
      <4> QED BY <1>y, <2>s, <2>v, <4>1, <4>2, <4>3, PatchDone
    <3>2. CASE Fault /\ pc' = "idle" /\ UNCHANGED processed
      <4>1. Disturbances' = Disturbances + 1 BY <1>0, <1>y, <3>2, DisturbancesNext
      <4>2. PICK n \in Nat : n = Disturbances' BY <1>d
      <4>3. Disturbances >= 1 => n >= 2 BY <4>1, <4>2, <1>d
      <4>4. ASSUME NEW c \in Copies, Accessible(c), ~c.del PROVE MayStart(c.st)'
        <5>1. /\ c.st.phase = "unset" => ~Begun(b.st)
              /\ ~Begun(c.st) => \/ b.st.phase \in {"unset", "New", "InProgress"}
                                 \/ b.st.phase = "Failed" /\ Disturbances >= 1
          BY <1>3, <4>4
        <5> QED BY <5>1, <4>2, <4>3, <2>s DEF MayStart, Begun
      <4> QED BY <1>y, <2>s, <3>2, <4>4, PatchLost
    <3>3. CASE UNCHANGED <<api, watch, processed>> /\ pc' = "idle"
      <4>1. \A c \in Copies : Accessible(c) /\ ~c.del => MayStart(c.st)'
        <5> SUFFICES ASSUME NEW c \in Copies, Accessible(c), ~c.del PROVE MayStart(c.st)' OBVIOUS
        <5>1. MayStart(c.st) BY <2>i DEF WorkerBehind
        <5>2. PICK n \in Nat : n = Disturbances' BY <1>d
        <5>3. Disturbances >= 2 => n >= 2 BY <5>2, <1>d, <1>g
        <5> QED BY <5>1, <5>2, <5>3, <3>3 DEF MayStart, Begun
      <4> QED BY <1>y, <2>s, <3>3, <4>1, PatchLost
    <3> QED BY <1>1, <3>1, <3>2, <3>3, Zenon
  <2>b. /\ w'.st.bs \in BackupStates \cup {NoState} /\ wnew'.bs \in BackupStates \cup {NoState}
        /\ api'.st.bs \in BackupStates
    BY <1>1, <1>n, <2>s
  <2>6. pc' # "started" BY <1>1
  <2>7. ~api'.del => live \subseteq live' /\ api'.st.bs.run \in live' \cup {api.st.bs.run}
    BY <1>0, <1>3, <2>s
  <2>8. /\ api'.st.phase = "Deleting" => api'.del \/ api.st.phase = "Deleting"
        /\ api'.st.phase = "Completed" => api.st.phase = "Completed" /\ api'.st.bs = api.st.bs
    BY <1>3, <2>s
  <2> QED BY <1>0, <1>b, <2>s, <2>1, <2>2, <2>3, <2>4, <2>5, <2>6, <2>7, <2>8, <2>b, StepKeeps
<1> QED BY <1>1, <1>2, <1>3

\* A step of the worker without a call
LEMMA LocalPrompt ==
    ASSUME IInv, IInv', PromptInv, NEW next, Local(next), pc # "idle", next # "init",
           next \notin {"idle", "startFailed", "started"},
           api.rv # 0 /\ next \in {"finalizer", "driver", "start"} =>
              w.st.phase # "unset" /\ MayStart(w.st),
           next = "run" => Begun(w.st)
    PROVE  PromptInv'
<1>y. TypeOK /\ TypeOK' BY DEF IInv
<1>0. /\ UNCHANGED <<api, watch, cache, opc, o, onew, due, progress, processed, starts, live,
                     faults, crashes>>
      /\ IF next = "return" THEN pc' = "idle" /\ w' = NoVBC /\ wnew' = NoStatus
         ELSE pc' = next /\ w' = w /\ wnew' = w.st
  BY DEF Local, Return, Idle, Goto, apiVars, opVars, driverVars
<1>d. Disturbances' >= Disturbances BY <1>0, <1>y, DisturbancesNext
<1>b. wnew'.bs \in BackupStates \cup {NoState} BY <1>0, NoVBCType DEF BackupStates
<1> QED BY <1>0, <1>b, <1>d, HandlerMoves

\* Setting the phase New, the finalizer, the handles, the phases Failed and Deleting
LEMMA PatchesPrompt ==
    ASSUME IInv, IInv', PromptInv,
           EnsureVolBackupInit \/ EnsureFinalizer \/ Started \/ UpdateDeleting \/ StartFailed
    PROVE  PromptInv'
<1>y. TypeOK BY DEF IInv
<1>v. api \in VBC /\ w \in VBC /\ wnew \in Status /\ w.st \in Status
  BY <1>y, VBCFields DEF TypeOK
<1>b. api.st.bs \in BackupStates /\ wnew.bs \in BackupStates BY DEF BackupStates, Copies
<1>i. api.rv # 0 => WorkerBehind /\ OneAtATime BY DEF PromptInv
<1>a. api.rv # 0 => Accessible(api) /\ api \in Copies
  BY <1>y, VBCFields DEF Accessible, IInv, CopiesBehind, Copies, TypeOK
<1>h. WorkerHolds BY DEF IInv
<1>d. Disturbances \in Nat BY <1>y, DisturbancesType
<1>1. CASE EnsureVolBackupInit
  <2>1. CASE w.st.phase = "unset"
    <3> DEFINE b == Patched(w.st, [w.st EXCEPT !.phase = "New"])
    <3>1. /\ b \in VBC /\ b.fin = api.fin /\ b.del = api.del /\ b.st.bs = api.st.bs
          /\ b.st.phase = "New"
      BY <1>v, <2>1, PhaseWritable DEF Phases
    <3>2. WorkerPatch(b, "finalizer") /\ pc = "init" BY <1>1, <2>1 DEF EnsureVolBackupInit
    <3> HIDE DEF b
    <3>3. api.rv # 0 => ~Begun(api.st) /\ opc = "none"
      BY <1>i, <2>1, <3>2 DEF WorkerBehind, OneAtATime, MayStart, Begun
    <3>4. api.rv # 0 => NotBehind(api.st, b.st) BY <3>1, <3>3 DEF NotBehind
    <3>5. ~Begun(b.st) BY <3>1 DEF Begun
    <3> QED BY <1>b, <3>1, <3>2, <3>3, <3>4, <3>5, WorkerPatchPrompt
  <2>2. CASE w.st.phase # "unset"
    <3>1. Local("finalizer") /\ pc = "init" BY <1>1, <2>2 DEF EnsureVolBackupInit
    <3>2. api.rv # 0 => MayStart(w.st) BY <1>i, <3>1 DEF WorkerBehind
    <3> QED BY <2>2, <3>1, <3>2, LocalPrompt
  <2> QED BY <2>1, <2>2
<1>2. CASE EnsureFinalizer
  <2>p. pc = "finalizer" BY <1>2 DEF EnsureFinalizer
  <2>u. api.rv # 0 => w.st.phase # "unset" /\ MayStart(w.st) BY <1>i, <2>p DEF WorkerBehind
  <2>1. CASE ~w.fin
    <3> DEFINE b == [api EXCEPT !.fin = TRUE]
    <3>1. b \in VBC /\ b.st = api.st /\ b.fin /\ b.del = api.del BY <1>v DEF VBC
    <3>2. WorkerPatch(b, "driver") BY <1>2, <2>1 DEF EnsureFinalizer
    <3> HIDE DEF b
    <3>3. api.rv # 0 => b.st.phase # "unset"
      BY <1>a, <1>i, <2>p, <2>u, <3>1 DEF WorkerBehind, NotBehind
    <3>4. ASSUME api.rv # 0, NEW c \in Copies, Accessible(c), ~c.del
          PROVE  /\ c.st.phase = "unset" => ~Begun(b.st)
                 /\ ~Begun(c.st) => \/ b.st.phase \in {"unset", "New", "InProgress"}
                                    \/ b.st.phase = "Failed" /\ Disturbances >= 1
      <4>1. MayStart(c.st) BY <1>i, <3>4 DEF WorkerBehind
      <4>2. Disturbances >= 2 => Disturbances >= 1 BY <1>d
      <4> QED BY <4>1, <4>2, <3>1 DEF MayStart
    <3>5. NotBehind(api.st, b.st) BY <3>1, NotBehindOrder
    <3>6. /\ b.st.phase = "Deleting" => api.del \/ api.st.phase = "Deleting"
          /\ b.st.phase = "Completed" => api.st.phase = "Completed" /\ b.st.bs = api.st.bs
      BY <3>1
    <3> QED BY <1>b, <2>p, <3>1, <3>2, <3>3, <3>4, <3>5, <3>6, WorkerPatchPrompt
  <2>2. CASE w.fin
    <3>1. Local("driver") BY <1>2, <2>2 DEF EnsureFinalizer
    <3> QED BY <2>p, <2>u, <3>1, LocalPrompt
  <2> QED BY <2>1, <2>2
\* the copies of which nothing was started know that the object was initialised
<1>s. ASSUME pc \in {"startFailed", "started"}
      PROVE  /\ api.rv # 0 /\ w.st.phase = "New" /\ opc = "none"
             /\ \A c \in Copies : Accessible(c) => c.st.phase # "unset"
  <2>1. api.rv # 0 /\ w.st.phase \in {"unset", "New"} BY <1>s, <1>h DEF WorkerHolds
  <2>2. w.st.phase # "unset" BY <1>s, <1>i, <2>1 DEF WorkerBehind
  <2>3. ~Begun(w.st) BY <2>1 DEF Begun
  <2>4. opc = "none" BY <1>s, <1>i, <2>1, <2>3 DEF OneAtATime
  <2>5. \A c \in Copies : Accessible(c) => c.st.phase # "unset"
    BY <1>s, <1>i, <2>1, <2>2 DEF WorkerBehind, NotBehind
  <2> QED BY <2>1, <2>2, <2>4, <2>5
<1>3. CASE Started
  <2> DEFINE b == Patched(w.st, wnew)
  <2>0. WorkerPatch(b, "run") /\ pc = "started" BY <1>3 DEF Started
  <2>1. /\ wnew.phase = "InProgress" /\ wnew.bs.run = starts /\ starts \in live
    BY <1>h, <2>0 DEF WorkerHolds, PromptInv, DriverKnows
  <2>2. w.st.phase = "New" BY <1>s, <2>0
  <2>3. /\ b \in VBC /\ b.fin = api.fin /\ b.del = api.del /\ b.st.phase = "InProgress"
        /\ b.st.bs = wnew.bs \/ b.st.bs = api.st.bs
    BY <1>v, <2>1, <2>2, PatchedType
  <2> HIDE DEF b
  <2>4. Begun(b.st) /\ NotBehind(api.st, b.st) BY <2>3 DEF Begun, NotBehind
  <2>5. b.st.bs \in BackupStates /\ b.st.bs.run \in live \cup {api.st.bs.run}
    BY <1>b, <2>1, <2>3
  <2> QED BY <1>s, <2>0, <2>3, <2>4, <2>5, WorkerPatchPrompt
<1>4. CASE UpdateDeleting
  <2>0. pc = "deleting" BY <1>4 DEF UpdateDeleting
  <2>1. CASE Local("return") BY <2>0, <2>1, LocalPrompt
  <2> DEFINE b == Patched(w.st, [w.st EXCEPT !.phase = "Deleting"])
  <2>2. CASE api.rv # 0 /\ WorkerPatch(b, "delDriver")
    <3>0. /\ b \in VBC /\ b.fin = api.fin /\ b.del = api.del /\ b.st.bs = api.st.bs
          /\ b.st.phase = IF "Deleting" # w.st.phase THEN "Deleting" ELSE api.st.phase
      BY <1>v, PhaseWritable DEF Phases
    <3>1. /\ b \in VBC /\ b.fin = api.fin /\ b.del = api.del /\ b.st.bs = api.st.bs
          /\ b.st.phase = "Deleting" \/ b.st.phase = api.st.phase
      BY <3>0, Zenon
    <3> HIDE DEF b
    <3>2. \A c \in Copies : Accessible(c) => c.del
      BY <2>0, <1>h DEF WorkerHolds, Accessible
    <3>3. api.del BY <1>a, <2>2, <3>2
    <3>4. NotBehind(api.st, b.st) BY <3>1 DEF NotBehind, Begun
    <3>5. b.st.phase = "Completed" => api.st.phase = "Completed" /\ b.st.bs = api.st.bs
      BY <3>1
    <3> QED BY <1>b, <2>0, <2>2, <3>1, <3>2, <3>3, <3>4, <3>5, WorkerPatchPrompt
  <2> QED BY <1>4, <2>1, <2>2, Zenon DEF UpdateDeleting
<1>5. CASE StartFailed
  <2> DEFINE b == Patched(w.st, [w.st EXCEPT !.phase = "Failed"])
  <2>0. pc = "startFailed" BY <1>5 DEF StartFailed
  <2>1. w.st.phase = "New" BY <1>s, <2>0
  <2>2. /\ b \in VBC /\ b.fin = api.fin /\ b.del = api.del /\ b.st.bs = api.st.bs
        /\ b.st.phase = "Failed"
    BY <1>v, <2>1, PhaseWritable DEF Phases
  <2>3. b = Patched(w.st, [w.st EXCEPT !.phase = "Failed"]) OBVIOUS
  <2> HIDE DEF b
  <2>4. NotBehind(api.st, b.st) BY <2>2 DEF Begun, NotBehind
  <2>5. Disturbances >= 1 BY <1>i, <1>s, <2>0 DEF WorkerBehind
  <2>6. PICK next \in {"delDriver"} : TRUE OBVIOUS
  <2> QED BY <1>5, <1>b, <1>s, <2>0, <2>2, <2>3, <2>4, <2>5, <2>6, WorkerPatchPrompt
<1> QED BY <1>1, <1>2, <1>3, <1>4, <1>5

\* Judging by the copy, asking the driver, deleting there, and the finalizer going
LEMMA CallsPrompt ==
    ASSUME IInv, IInv', PromptInv,
           CheckVolumeBackupDriver \/ StartBackup \/ StartBackupFails \/ DeleteBackup
              \/ EnsureFinalizerRemove
    PROVE  PromptInv'
<1>y. TypeOK /\ TypeOK' BY DEF IInv
<1>i. api.rv # 0 => WorkerBehind BY DEF PromptInv
<1>n. NoStatus.bs = NoState /\ NoVBC.st.bs = NoState BY NoVBCType
<1>b. w.st.bs \in BackupStates BY DEF BackupStates
<1>d. Disturbances \in Nat /\ Disturbances' \in Nat BY <1>y, DisturbancesNext
<1>g. UNCHANGED <<faults, crashes>> \/ (Fault /\ UNCHANGED crashes) => Disturbances' >= Disturbances
  BY <1>d, <1>y, DisturbancesNext
<1>f. Fault /\ UNCHANGED crashes => Disturbances' >= 1 BY <1>d, <1>y, DisturbancesNext
<1>1. CASE CheckVolumeBackupDriver
  <2>0. pc = "driver" BY <1>1 DEF CheckVolumeBackupDriver
  <2>1. PICK next \in {"return", "start", "run"} :
            Local(next) /\ (next = "run" => w.st.phase = "InProgress")
    BY <1>1 DEF CheckVolumeBackupDriver
  <2>2. next = "run" => Begun(w.st) BY <2>1 DEF Begun
  <2>3. api.rv # 0 => w.st.phase # "unset" /\ MayStart(w.st) BY <1>i, <2>0 DEF WorkerBehind
  <2> QED BY <2>0, <2>1, <2>2, <2>3, LocalPrompt
<1>2. CASE StartBackup
  <2>0. /\ UNCHANGED <<api, watch, cache, opc, o, onew, due, progress, processed, crashes>>
        /\ pc = "start" /\ live' = live \cup {starts'} /\ starts' = starts + 1
    BY <1>2 DEF StartBackup, apiVars, opVars
  <2>1. \/ /\ pc' = "started" /\ w' = w /\ UNCHANGED faults
           /\ wnew'.bs = [run |-> starts', prog |-> Untouched, stamp |-> clock]
        \/ /\ Fault
           /\ \/ pc' = "startFailed" /\ w' = w /\ wnew' = w.st
              \/ pc' = "idle" /\ w' = NoVBC /\ wnew' = NoStatus
    BY <1>2 DEF StartBackup, Goto, Return, Idle
  <2>2. /\ api.rv # 0 /\ w.st.phase # "unset" /\ MayStart(w.st)
    BY <1>i, <2>0 DEF WorkerBehind, IInv, WorkerHolds
  <2>3. Disturbances' >= Disturbances BY <1>g, <2>0, <2>1
  <2>4. pc' = "startFailed" => Disturbances' >= 1 BY <1>f, <2>0, <2>1
  <2>5. wnew'.bs \in BackupStates \cup {NoState} \/ (api.rv # 0 /\ ProgressKnown(wnew.bs)')
    <3>1. CASE wnew'.bs = [run |-> starts', prog |-> Untouched, stamp |-> clock]
      <4>1. wnew'.bs.run = starts' /\ \A v \in Volumes : wnew'.bs.prog[v] = 0
        BY <3>1 DEF Untouched
      <4>2. starts' \in Runs
        <5>1. starts \in Nat /\ starts' \in 0..MaxStarts BY <1>y, DisturbancesType DEF TypeOK
        <5> QED BY <5>1, <2>0 DEF Runs
      <4>3. \A v \in Volumes : progress'[starts'][v] \in 0..Full
        BY <1>y, <4>2 DEF TypeOK
      <4>4. \A v \in Volumes : 0 <= progress'[starts'][v] BY <4>3, ServiceAssumption
      <4> QED BY <2>2, <4>1, <4>4 DEF ProgressKnown
    <3>2. CASE wnew' \in {w.st, NoStatus} BY <3>2, <1>n, <1>b
    <3> QED BY <2>1, <3>1, <3>2
  <2> QED BY <2>0, <2>1, <2>2, <2>3, <2>4, <2>5, HandlerMoves
<1>3. CASE StartBackupFails
  <2>0. /\ UNCHANGED <<api, watch, cache, opc, o, onew, due, progress, processed, crashes, live>>
        /\ pc = "start" /\ Fault
        /\ \/ pc' = "startFailed" /\ w' = w /\ wnew' = w.st
           \/ pc' = "idle" /\ w' = NoVBC /\ wnew' = NoStatus
    BY <1>3 DEF StartBackupFails, Return, Idle, Goto, apiVars, opVars, driverVars
  <2>1. api.rv # 0 => w.st.phase # "unset" /\ MayStart(w.st) BY <1>i, <2>0 DEF WorkerBehind
  <2>2. Disturbances' >= Disturbances /\ Disturbances' >= 1 BY <1>g, <1>f, <2>0
  <2>3. wnew'.bs \in BackupStates \cup {NoState} BY <2>0, <1>b, <1>n
  <2> QED BY <2>0, <2>1, <2>2, <2>3, HandlerMoves
<1>4. CASE DeleteBackup
  <2>0. /\ UNCHANGED <<api, watch, cache, opc, o, onew, due, progress, processed, crashes>>
        /\ pc = "delDriver" /\ (Fault \/ UNCHANGED faults)
        /\ \/ pc' = "delFinalizer" /\ w' = w /\ wnew' = w.st
           \/ pc' = "idle" /\ w' = NoVBC /\ wnew' = NoStatus
    BY <1>4 DEF DeleteBackup, Return, ReturnErr, Idle, Goto, apiVars, opVars
  <2>1. Disturbances' >= Disturbances BY <1>g, <2>0
  <2>2. wnew'.bs \in BackupStates \cup {NoState} BY <2>0, <1>b, <1>n
  <2>3. api.rv # 0 => api.del BY <2>0 DEF IInv, WorkerHolds, Copies
  <2> QED BY <2>0, <2>1, <2>2, <2>3, HandlerMoves
<1>5. CASE EnsureFinalizerRemove
  <2>0. /\ UNCHANGED <<cache, opc, o, onew, due, progress, crashes, live>>
        /\ pc = "delFinalizer" /\ (Fault \/ UNCHANGED faults)
        /\ pc' = "idle" /\ w' = NoVBC /\ wnew' = NoStatus
        /\ (api.rv # 0 /\ Remove) \/ UNCHANGED <<api, watch, processed>>
    BY <1>5 DEF EnsureFinalizerRemove, Return, ReturnErr, Idle, apiVars, opVars, driverVars
  <2>1. Disturbances' >= Disturbances BY <1>g, <2>0
  <2>2. CASE UNCHANGED <<api, watch, processed>> BY <2>0, <2>1, <2>2, <1>n, HandlerMoves
  <2>3. CASE api.rv # 0 /\ Remove
    <3>1. Server /\ api' = NoVBC BY <2>0, <2>3 DEF Server, Remove
    <3>2. \A bs \in {w'.st.bs, wnew'.bs, o'.st.bs, onew'.bs} : bs \in BackupStates \cup {NoState}
      BY <2>0, <1>n DEF BackupStates
    <3> QED BY <1>y, <2>0, <3>1, <3>2, GoneKeeps
  <2> QED BY <2>0, <2>2, <2>3
<1> QED BY <1>1, <1>2, <1>3, <1>4, <1>5

\* Every step of the worker keeps the invariant.
LEMMA WorkerPrompt ==
    ASSUME IInv, IInv', PromptInv, Worker
    PROVE  PromptInv'
BY ProcessQueuePrompt, PatchesPrompt, CallsPrompt, RunOperationPrompt DEF Worker
-----------------------------------------------------------------------------
(* The operation's steps, when events arrive within the poll interval *)

\* What syncBackupStat makes of a status is no further than the driver, and complete only
\* if every volume is.
LEMMA SyncKnown ==
    ASSUME TypeOK, NEW st \in Status, ProgressKnown(st.bs)
    PROVE  /\ ProgressKnown(SyncBackupStat(st).bs)
           /\ SyncBackupStat(st).phase = "Completed" /\ st.phase # "Completed" =>
                 ProgressCompleted(SyncBackupStat(st).bs.prog)
<1> DEFINE now == IF st.bs.run = 0 THEN Untouched ELSE progress[st.bs.run]
           prog == [v \in Volumes |-> IF now[v] > st.bs.prog[v] THEN now[v] ELSE st.bs.prog[v]]
           stamp == IF prog # st.bs.prog THEN clock ELSE st.bs.stamp
           bs == [run |-> st.bs.run, prog |-> prog, stamp |-> stamp]
           ph == IF ProgressCompleted(prog) THEN "Completed"
                 ELSE IF ProgressTimeout(bs.stamp) THEN "Failed" ELSE st.phase
<1>1. /\ st.bs.run \in 0..MaxStarts /\ st.bs.prog \in [Volumes -> 0..Full]
      /\ \A v \in Volumes : st.bs.prog[v] \in Int
  BY ServiceAssumption DEF Status, BackupState
<1>0. now \in [Volumes -> 0..Full]
  <2>1. CASE st.bs.run = 0 BY <2>1, NoVBCType
  <2>2. CASE st.bs.run # 0
    <3>1. st.bs.run \in Runs BY <1>1, <2>2, ServiceAssumption DEF Runs
    <3>2. progress[st.bs.run] \in [Volumes -> 0..Full] BY <3>1 DEF TypeOK
    <3> QED BY <2>2, <3>2
  <2> QED BY <2>1, <2>2
<1>2. now \in [Volumes -> 0..Full] /\ \A v \in Volumes : now[v] \in Int
  <2> HIDE DEF now
  <2>1. \A v \in Volumes : now[v] \in 0..Full BY <1>0
  <2> QED BY <1>0, <2>1, ServiceAssumption
<1>3. \A v \in Volumes : now[v] = IF st.bs.run = 0 THEN 0 ELSE progress[st.bs.run][v]
  BY DEF Untouched
<1> HIDE DEF now
<1>4. \A v \in Volumes : st.bs.prog[v] <= now[v] BY <1>3 DEF ProgressKnown
<1>5. \A v \in Volumes : prog[v] <= now[v] BY <1>1, <1>2, <1>4
<1>6. SyncBackupStat(st) = [phase |-> ph, bs |-> bs]
  BY Zenon DEF SyncBackupStat, ph, bs, stamp, prog, now
<1> HIDE DEF prog, stamp
<1>7. bs.run = st.bs.run /\ bs.prog = prog OBVIOUS
<1> HIDE DEF bs
<1>8. ProgressKnown(bs) BY <1>3, <1>5, <1>7 DEF ProgressKnown
<1>9. ph = "Completed" /\ st.phase # "Completed" => ProgressCompleted(prog) OBVIOUS
<1> HIDE DEF ph
<1> QED BY <1>6, <1>7, <1>8, <1>9

\* A ticker that is armed knows nothing but the stored object.
LEMMA TickerArmed ==
    ASSUME TypeOK, TypeOK', Server, CopiesBehind', VersionsInOrder', api'.rv # 0,
           opc' = "tick", due' = api'.rv
    PROVE  OperationAhead'
<1>1. Copies' \subseteq Copies \cup {api'} /\ \A c \in Copies' : c.rv \in Nat
  <2>1. Copies' \subseteq Copies \cup {api'} BY CopiesNext
  <2>2. api'.rv \in Nat BY ServerOnward
  <2> QED BY <2>1, <2>2, CopiesType
<1>2. \A c \in Copies' : c.rv >= api'.rv => c = api'
  <2> SUFFICES ASSUME NEW c \in Arriving', c.rv >= api'.rv PROVE c = api' BY DEF Copies
  <2>1. c.rv <= api'.rv /\ c.rv \in Nat /\ api'.rv \in Nat
    BY <1>1 DEF CopiesBehind, Copies
  <2>2. c.rv = api'.rv BY <2>1
  <2> QED BY <2>2 DEF VersionsInOrder
<1>3. \A c, d \in Copies' :
         due' <= c.rv /\ c.rv <= d.rv /\ c.st.phase # "InProgress" => d.st.phase # "InProgress"
  <2> SUFFICES ASSUME NEW c \in Copies', NEW d \in Copies', api'.rv <= c.rv, c.rv <= d.rv
               PROVE  c = d
    OBVIOUS
  <2>1. api'.rv \in Nat /\ c.rv \in Nat /\ d.rv \in Nat BY <1>1, ServerOnward
  <2>2. c.rv >= api'.rv /\ d.rv >= api'.rv BY <2>1
  <2> QED BY <2>2, <1>2
<1>4. \A c \in Copies' : c.rv >= due' =>
         /\ c.st.bs = api'.st.bs
         /\ ~skipBackupProgressProcessing(c) => api'.st.phase \in {"InProgress", "Deleting"}
  BY <1>2 DEF skipBackupProgressProcessing
<1> QED BY <1>3, <1>4 DEF OperationAhead

\* What has ended since the ticker was armed stays so when nothing begins.
LEMMA EndedStays ==
    ASSUME TypeOK, TypeOK', CopiesBehind, OperationAhead, Server, api'.rv # 0, opc # "none",
           due' = due, api'.st.phase = "InProgress" => api.st.phase = "InProgress"
    PROVE  \A c, d \in Copies' :
              due' <= c.rv /\ c.rv <= d.rv /\ c.st.phase # "InProgress" => d.st.phase # "InProgress"
<1>o. /\ api.rv \in Nat /\ api'.rv \in Nat /\ api.rv # 0 /\ api.rv <= api'.rv
      /\ (api' = api \/ api'.rv = api.rv + 1)
  BY ServerOnward
<1>c. /\ Copies' \subseteq Copies \cup {api'} /\ api \in Copies
      /\ \A c \in Copies : c.rv \in Nat /\ c.rv <= api.rv
  BY <1>o, CopiesNext, CopiesType DEF CopiesBehind, Copies
<1> SUFFICES ASSUME NEW c \in Copies', NEW d \in Copies', due <= c.rv, c.rv <= d.rv,
                    c.st.phase # "InProgress", d.st.phase = "InProgress"
             PROVE  FALSE
  OBVIOUS
<1>1. CASE c \in Copies /\ d \in Copies BY <1>1 DEF OperationAhead
<1>2. CASE c \in Copies /\ d = api'
  <2>1. api.st.phase # "InProgress" BY <1>2, <1>c DEF OperationAhead
  <2> QED BY <2>1, <1>2
<1>3. CASE c = api' /\ d \in Copies
  <2>1. api' = api BY <1>3, <1>c, <1>o
  <2> QED BY <2>1, <1>3, <1>c DEF OperationAhead
<1> QED BY <1>1, <1>2, <1>3, <1>c

\* A step of the operation keeps the invariant if it is right about what it stores and
\* knows.
LEMMA OperationMoves ==
    ASSUME IInv, IInv', PromptInv, Server, opc # "none",
           UNCHANGED <<cache, pc, w, wnew, starts, live, progress>>, processed' >= processed,
           Disturbances' >= Disturbances, api.rv = 0 => api' = api, api.rv # 0 => api'.rv # 0,
           NotBehind(api.st, api'.st), api'.rv # 0 => OperationAhead',
           \A bs \in {o'.st.bs, onew'.bs, api'.st.bs} :
              bs \in BackupStates \cup {NoState} \/ ProgressKnown(bs)',
           api'.st.bs.run = api.st.bs.run,
           api'.st.phase = "Deleting" => api.st.phase = "Deleting",
           api'.st.phase = "Completed" /\ ~api'.del =>
              \/ api.st.phase = "Completed" /\ api'.st.bs = api.st.bs
              \/ /\ api'.st.bs.run \in live
                 /\ \A v \in Volumes : progress[api'.st.bs.run][v] = Full
    PROVE  PromptInv'
<1>y. TypeOK /\ TypeOK' /\ CopiesBehind BY DEF IInv
<1>b. w'.st.bs \in BackupStates /\ wnew'.bs \in BackupStates BY DEF BackupStates
<1>1. CASE api.rv = 0
  <2>1. api' = NoVBC BY <1>1 DEF PromptInv, DriverKnows
  <2>2. pc' # "started" BY <1>1 DEF IInv, WorkerHolds
  <2> QED BY <1>b, <1>y, <2>1, <2>2, GoneKeeps
<1>2. CASE api.rv # 0
  <2>i. VersionsInOrder /\ WorkerBehind /\ OneAtATime /\ OperationAhead
    BY <1>2 DEF PromptInv
  <2>1. WorkerBehind' BY <1>2, <1>y, <2>i, WorkerWaits
  <2>2. OneAtATime' BY <1>2, <1>y, <2>i, OneWaits
  <2>3. cache.rv # 0 BY <2>i DEF VersionsInOrder
  <2>4. pc' = "started" => starts' \in live' BY DEF PromptInv, DriverKnows
  <2> QED BY <1>2, <1>b, <2>1, <2>2, <2>3, <2>4, StepKeeps
<1> QED BY <1>1, <1>2

\* Every step of the operation keeps the invariant, when events arrive within the poll
\* interval.
LEMMA OperationPrompt ==
    ASSUME IInv, IInv', PromptInv, Operation, ~InformerLags
    PROVE  PromptInv'
<1>y. TypeOK /\ TypeOK' /\ CopiesBehind /\ CopiesBehind' BY DEF IInv
<1>v. /\ api \in VBC /\ o \in VBC /\ o.st \in Status /\ onew \in Status /\ watch \in Seq(VBC)
      /\ processed \in Nat /\ processed' \in Nat /\ api'.rv \in Nat /\ cache.rv \in Nat
  BY <1>y, VBCFields DEF TypeOK
<1>n. NoVBC.st.bs = NoState /\ NoStatus.bs = NoState BY NoVBCType
<1>h. OperationHolds BY DEF IInv
<1>i. api.rv # 0 => VersionsInOrder /\ OneAtATime /\ OperationAhead BY DEF PromptInv
<1>c. /\ api \in Copies /\ cache \in Copies /\ \A c \in Copies : c.rv \in Nat
  BY <1>y, CopiesType
<1>b. /\ o.st.bs \in BackupStates /\ onew.bs \in BackupStates /\ api.st.bs \in BackupStates
      /\ cache.st.bs \in BackupStates
  BY <1>c DEF BackupStates
<1>d. Disturbances \in Nat /\ Disturbances' \in Nat BY <1>y, DisturbancesNext
<1>g. UNCHANGED <<faults, crashes>> \/ (Fault /\ UNCHANGED crashes) => Disturbances' >= Disturbances
  BY <1>d, <1>y, DisturbancesNext
\* a step that writes nothing
<1>1. ASSUME opc # "none", UNCHANGED <<apiVars, processed>>, Fault \/ UNCHANGED faults,
             UNCHANGED <<cache, pc, w, wnew, starts, live, progress, crashes>>,
             api.rv # 0 => OperationAhead',
             o'.st.bs \in BackupStates \cup {NoState},
             onew'.bs \in BackupStates \cup {NoState} \/ ProgressKnown(onew.bs)'
      PROVE  PromptInv'
  <2>1. UNCHANGED <<api, watch>> /\ Server BY <1>1 DEF apiVars, Server
  <2>2. Disturbances' >= Disturbances /\ processed' >= processed BY <1>1, <1>g, <1>v
  <2>3. NotBehind(api.st, api'.st) BY <2>1, NotBehindOrder
  <2>4. \A bs \in {o'.st.bs, onew'.bs, api'.st.bs} :
           bs \in BackupStates \cup {NoState} \/ ProgressKnown(bs)'
    BY <1>1, <1>b, <2>1 DEF ProgressKnown
  <2> QED BY <1>1, <2>1, <2>2, <2>3, <2>4, OperationMoves
\* and leaves the copies alone
<1>2. ASSUME UNCHANGED <<apiVars, cache>> PROVE Copies' = Copies /\ api' = api
  BY <1>2 DEF Copies, Arriving, apiVars
<1>3. CASE OpTick
  <2>0. /\ UNCHANGED <<apiVars, processed, due, faults>> /\ opc = "tick"
        /\ cache.rv = 0 \/ cache.rv >= due
    BY <1>3 DEF OpTick
  <2>1. CASE OpGoto("success", NoVBC, NoStatus) /\ (cache.rv = 0 \/ skipBackupProgressProcessing(cache))
    <3>1. /\ opc' = "success" /\ o' = NoVBC /\ onew' = NoStatus
          /\ UNCHANGED <<cache, pc, w, wnew, starts, live, progress, crashes>>
      BY <2>1, OpGotoLeaves
    <3>2. ASSUME api.rv # 0 PROVE OperationAhead'
      <4>1. cache.rv # 0 BY <1>i, <2>0, <3>2 DEF VersionsInOrder
      <4>2. \A c \in Copies : cache.rv <= c.rv
        <5>1. \A i \in DOMAIN watch : cache.rv <= watch[i].rv
          <6>1. \A i \in DOMAIN watch : cache.rv < watch[i].rv BY <1>i, <3>2 DEF VersionsInOrder
          <6>2. \A i \in DOMAIN watch : watch[i].rv \in Nat BY <1>c DEF Copies, Arriving
          <6> QED BY <6>1, <6>2, <1>v
        <5>2. cache.rv <= api.rv BY <1>y, <3>2 DEF CopiesBehind, Arriving
        <5>3. cache.rv <= cache.rv BY <1>v
        <5> QED BY <5>1, <5>2, <5>3 DEF Copies, Arriving
      <4>3. \A c \in Copies : skipBackupProgressProcessing(c)
        <5>1. CASE cache.del
          <6>1. \A i \in DOMAIN watch : watch[i].rv = 0 \/ watch[i].del
            BY <5>1 DEF IInv, DeletionLast
          <6>2. \A i \in DOMAIN watch : watch[i].rv # 0
            <7>1. \A i \in DOMAIN watch : cache.rv < watch[i].rv
              BY <1>i, <3>2 DEF VersionsInOrder
            <7> QED BY <7>1, <1>v
          <6>3. api.del BY <1>y, <3>2, <5>1 DEF CopiesBehind, Arriving
          <6>4. \A c \in Copies : c.del BY <6>1, <6>2, <6>3, <5>1 DEF Copies, Arriving
          <6> QED BY <6>4 DEF skipBackupProgressProcessing
        <5>2. CASE ~cache.del
          <6>1. cache.st.phase # "InProgress"
            BY <2>1, <4>1, <5>2 DEF skipBackupProgressProcessing
          <6>2. due <= cache.rv BY <2>0, <4>1, <1>v, <1>y DEF TypeOK
          <6>3. \A c \in Copies : c.st.phase # "InProgress"
            BY <1>c, <1>i, <2>0, <3>2, <4>2, <6>1, <6>2 DEF OperationAhead
          <6> QED BY <6>3 DEF skipBackupProgressProcessing
        <5> QED BY <5>1, <5>2
      <4>4. Copies' = Copies /\ api' = api BY <1>2, <2>0, <3>1
      <4> QED BY <1>i, <2>0, <3>1, <3>2, <4>3, <4>4
              DEF OperationAhead, skipBackupProgressProcessing
    <3> QED BY <1>1, <1>n, <2>0, <3>1, <3>2
  <2>2. CASE /\ OpGoto("stat", cache, cache.st)
             /\ cache.rv # 0 /\ ~skipBackupProgressProcessing(cache)
    <3>1. /\ opc' = "stat" /\ o' = cache /\ onew' = cache.st
          /\ UNCHANGED <<cache, pc, w, wnew, starts, live, progress, crashes>>
      BY <2>2, OpGotoLeaves
    <3>2. ASSUME api.rv # 0 PROVE OperationAhead'
      <4>1. cache.st.bs = api.st.bs /\ api.st.phase \in {"InProgress", "Deleting"}
        BY <1>c, <1>i, <2>0, <2>2, <3>2 DEF OperationAhead
      <4>2. Copies' = Copies /\ api' = api BY <1>2, <2>0, <3>1
      <4> QED BY <1>i, <2>0, <3>1, <3>2, <4>1, <4>2 DEF OperationAhead
    <3> QED BY <1>1, <1>b, <2>0, <3>1, <3>2
  <2> QED BY <1>3, <2>1, <2>2 DEF OpTick
<1>4. CASE OpStat
  <2> DEFINE st == SyncBackupStat(o.st)
  <2>0. /\ UNCHANGED <<apiVars, processed, due, faults>> /\ opc = "stat"
        /\ OpGoto("update", o, st)
    BY <1>4 DEF OpStat
  <2>k. ProgressKnown(o.st.bs) BY <1>b DEF PromptInv, DriverKnows
  <2>1. /\ st \in Status /\ ProgressKnown(st.bs)
        /\ st.phase = "Completed" => ProgressCompleted(st.bs.prog)
    BY <1>h, <1>v, <1>y, <2>0, <2>k, SyncType, SyncKnown DEF OperationHolds
  <2> HIDE DEF st
  <2>2. /\ opc' = "update" /\ o' = o /\ onew' = st
        /\ UNCHANGED <<cache, pc, w, wnew, starts, live, progress, crashes>>
    BY <2>0, OpGotoLeaves
  <2>3. ASSUME api.rv # 0 PROVE OperationAhead'
    <3>1. Copies' = Copies /\ api' = api BY <1>2, <2>0, <2>2
    <3> QED BY <1>i, <2>0, <2>1, <2>2, <2>3, <3>1 DEF OperationAhead, ProgressCompleted
  <2>4. ProgressKnown(onew.bs)' BY <2>1, <2>2 DEF ProgressKnown
  <2> QED BY <1>1, <1>b, <2>0, <2>2, <2>3, <2>4
<1>5. CASE OpStatFails
  <2>0. UNCHANGED <<apiVars, processed>> /\ opc = "stat" /\ Fault BY <1>5 DEF OpStatFails
  <2>1. CASE OpGoto("failure", NoVBC, NoStatus) /\ UNCHANGED due
    <3>1. /\ opc' = "failure" /\ o' = NoVBC /\ onew' = NoStatus
          /\ UNCHANGED <<cache, pc, w, wnew, starts, live, progress, crashes>>
      BY <2>1, OpGotoLeaves
    <3>2. Copies' = Copies /\ api' = api BY <1>2, <2>0, <3>1
    <3>3. api.rv # 0 => OperationAhead' BY <1>i, <2>0, <2>1, <3>1, <3>2 DEF OperationAhead
    <3> QED BY <1>1, <1>n, <2>0, <3>1, <3>3
  <2>2. CASE OpWait
    <3>1. /\ opc' = "tick" /\ o' = NoVBC /\ onew' = NoStatus /\ due' = api.rv
          /\ UNCHANGED <<cache, pc, w, wnew, starts, live, progress, crashes>>
      BY <2>2, OpGotoLeaves DEF OpWait
    <3>2. ASSUME api.rv # 0 PROVE OperationAhead'
      <4>1. Server /\ api' = api BY <2>0, <3>1 DEF Server, apiVars
      <4>2. NotBehind(api.st, api'.st) BY <4>1, NotBehindOrder
      <4>3. cache.rv # 0 BY <1>i, <2>0, <3>2 DEF VersionsInOrder
      <4>4. VersionsInOrder' BY <1>i, <1>y, <3>2, <4>1, <4>2, <4>3, VersionsKept
      <4> QED BY <1>y, <3>1, <3>2, <4>1, <4>4, TickerArmed
    <3> QED BY <1>1, <1>n, <2>0, <3>1, <3>2
  <2> QED BY <1>5, <2>1, <2>2 DEF OpStatFails
<1>6. ASSUME NEW at \in {"success", "failure"}, NEW next \in {"complete", "fail"},
             OpOutcome(at, next), at = "success" <=> next = "complete"
      PROVE  PromptInv'
  <2>0. UNCHANGED <<apiVars, processed, due, faults>> /\ opc = at BY <1>6 DEF OpOutcome
  <2>1. CASE OpGoto("exit", NoVBC, NoStatus)
    <3>1. /\ opc' = "exit" /\ o' = NoVBC /\ onew' = NoStatus
          /\ UNCHANGED <<cache, pc, w, wnew, starts, live, progress, crashes>>
      BY <2>1, OpGotoLeaves
    <3>2. Copies' = Copies /\ api' = api BY <1>2, <2>0, <3>1
    <3>3. api.rv # 0 => OperationAhead' BY <1>6, <1>i, <2>0, <3>1, <3>2 DEF OperationAhead
    <3> QED BY <1>1, <1>6, <1>n, <2>0, <3>1, <3>3
  <2>2. CASE /\ OpGoto(next, cache, cache.st)
             /\ cache.rv # 0 /\ ~skipBackupProgressProcessing(cache)
    <3>1. /\ opc' = next /\ o' = cache /\ onew' = cache.st
          /\ UNCHANGED <<cache, pc, w, wnew, starts, live, progress, crashes>>
      BY <2>2, OpGotoLeaves
    <3>2. ASSUME api.rv # 0 PROVE OperationAhead'
      <4>1. Copies' = Copies /\ api' = api BY <1>2, <2>0, <3>1
      <4>2. /\ at = "success" => api.st.phase \in {"Completed", "Deleting"}
            /\ at = "failure" => api.st.phase \in {"InProgress", "Deleting"}
        BY <1>c, <1>i, <2>0, <2>2, <3>2 DEF OperationAhead
      <4> QED BY <1>6, <1>i, <2>0, <3>1, <3>2, <4>1, <4>2 DEF OperationAhead
    <3> QED BY <1>1, <1>6, <1>b, <2>0, <3>1, <3>2
  <2> QED BY <1>6, <2>1, <2>2 DEF OpOutcome
<1>7. CASE OpExit
  <2>0. UNCHANGED <<apiVars, processed, faults>> /\ opc = "exit" /\ OpGoto("none", NoVBC, NoStatus)
    BY <1>7 DEF OpExit
  <2>1. /\ opc' = "none" /\ o' = NoVBC /\ onew' = NoStatus
        /\ UNCHANGED <<cache, pc, w, wnew, starts, live, progress, crashes>>
    BY <2>0, OpGotoLeaves
  <2>2. OperationAhead' BY <2>1 DEF OperationAhead
  <2> QED BY <1>1, <1>n, <2>0, <2>1, <2>2
<1>8. CASE OpUpdate
  <2> DEFINE b == Patched(o.st, onew)
  <2>1. /\ b \in VBC /\ b.fin = api.fin /\ b.del = api.del
        /\ b.st.phase = IF onew.phase # o.st.phase THEN onew.phase ELSE api.st.phase
        /\ b.st.bs = IF onew.bs # o.st.bs THEN onew.bs ELSE api.st.bs
    BY <1>v, PatchedType
  <2>2. /\ opc = "update"
        /\ \/ /\ api.rv # 0 /\ Commit(b) /\ StoreRevisionUpdate(api'.rv) /\ UNCHANGED faults
              /\ IF onew.phase = "Completed"
                 THEN OpGoto("success", NoVBC, NoStatus) /\ UNCHANGED due
                 ELSE OpGoto("tick", NoVBC, NoStatus) /\ due' = api'.rv
           \/ /\ \/ api.rv = 0 /\ UNCHANGED <<apiVars, faults>>
                 \/ api.rv # 0 /\ Fault /\ (UNCHANGED apiVars \/ Commit(b))
              /\ OpGoto("tick", NoVBC, NoStatus) /\ due' = api'.rv
              /\ UNCHANGED processed
    BY <1>8, Zenon DEF OpUpdate
  <2> HIDE DEF b
  <2>3. /\ opc' \in {"tick", "success"} /\ o' = NoVBC /\ onew' = NoStatus
        /\ UNCHANGED <<cache, pc, w, wnew, starts, live, progress, crashes>>
        /\ opc' = "success" => onew.phase = "Completed" /\ due' = due /\ Commit(b)
        /\ opc' = "tick" => due' = api'.rv
    BY <2>2, OpGotoLeaves
  <2>4. CASE UNCHANGED <<apiVars, processed>> /\ (Fault \/ UNCHANGED faults) /\ opc' = "tick"
    <3>1. ASSUME api.rv # 0 PROVE OperationAhead'
      <4>1. Server /\ api' = api BY <2>3, <2>4 DEF Server, apiVars
      <4>2. NotBehind(api.st, api'.st) BY <4>1, NotBehindOrder
      <4>3. cache.rv # 0 BY <1>i, <2>2, <3>1 DEF VersionsInOrder
      <4>4. VersionsInOrder' BY <1>i, <1>y, <3>1, <4>1, <4>2, <4>3, VersionsKept
      <4> QED BY <1>y, <2>3, <2>4, <3>1, <4>1, <4>4, TickerArmed
    <3> QED BY <1>1, <1>n, <2>2, <2>3, <2>4, <3>1
  <2>5. CASE /\ api.rv # 0 /\ Commit(b) /\ (Fault \/ UNCHANGED faults)
             /\ StoreRevisionUpdate(api'.rv) \/ UNCHANGED processed
    <3>o. OperationAhead /\ VersionsInOrder /\ OneAtATime BY <1>i, <2>5
    <3>1. Stored(b) BY <1>v, <2>1, <2>5, CommitStores
    <3>2. /\ Server /\ api'.rv # 0 /\ api'.st = b.st /\ api'.del = b.del
      BY <1>y, <2>1, <2>3, <2>5, <3>1, StoredServer
    <3>3. /\ api.st.phase \in {"InProgress", "Deleting"} /\ o.st.bs = api.st.bs
          /\ o.st.phase = "InProgress" /\ onew.bs.run = o.st.bs.run
          /\ onew.phase \in {"InProgress", "Completed", "Failed"}
          /\ onew.phase = "Completed" => ProgressCompleted(onew.bs.prog)
          /\ HandlesKnown(o.st)
      BY <1>h, <2>2, <3>o DEF OperationAhead, OperationHolds
    <3>4. /\ b.st.bs = onew.bs
          /\ b.st.phase = IF onew.phase # "InProgress" THEN onew.phase ELSE api.st.phase
      BY <2>1, <3>3
    <3>5. NotBehind(api.st, api'.st) BY <3>2, <3>3, <3>4 DEF NotBehind, Begun
    <3>6. processed' >= processed
      <4>1. StoreRevisionUpdate(api'.rv) => processed' >= processed BY <1>v, StoreRevisionType
      <4>2. processed' = processed => processed' >= processed BY <1>v
      <4> QED BY <2>5, <4>1, <4>2
    <3>7. OperationAhead'
      <4>1. CASE opc' = "tick"
        <5>1. cache.rv # 0 BY <2>2, <3>o DEF VersionsInOrder
        <5>2. VersionsInOrder' BY <1>y, <3>o, <3>2, <3>5, <5>1, VersionsKept
        <5> QED BY <1>y, <2>3, <3>2, <4>1, <5>2, TickerArmed
      <4>2. CASE opc' = "success"
        <5>1. onew.phase = "Completed" /\ due' = due BY <2>3, <4>2
        <5>2. api'.st.phase = "Completed" BY <3>2, <3>4, <5>1
        <5>3. \A c, d \in Copies' :
                 due' <= c.rv /\ c.rv <= d.rv /\ c.st.phase # "InProgress" =>
                    d.st.phase # "InProgress"
          BY <1>y, <2>2, <3>o, <3>2, <5>1, <5>2, EndedStays
        <5> QED BY <4>2, <5>2, <5>3 DEF OperationAhead
      <4> QED BY <2>3, <4>1, <4>2
    <3>8. api'.st.bs.run = api.st.bs.run /\ (api'.st.phase = "Deleting" => api.st.phase = "Deleting")
      BY <3>2, <3>3, <3>4
    <3>9. ASSUME api'.st.phase = "Completed", ~api'.del
          PROVE  /\ api'.st.bs.run \in live
                 /\ \A v \in Volumes : progress[api'.st.bs.run][v] = Full
      <4>1. onew.phase = "Completed" BY <3>9, <3>2, <3>3, <3>4
      <4>2. api.st.bs.run # 0 /\ api.st.bs.run \in live
        BY <3>9, <2>1, <3>2, <3>3 DEF HandlesKnown, PromptInv, DriverKnows
      <4>3. api'.st.bs = onew.bs /\ onew.bs.run = api.st.bs.run BY <3>2, <3>3, <3>4
      <4>4. \A v \in Volumes : onew.bs.prog[v] >= Full BY <3>3, <4>1 DEF ProgressCompleted
      <4>5. \A v \in Volumes : onew.bs.prog[v] <= progress[onew.bs.run][v]
        BY <1>b, <4>2, <4>3 DEF PromptInv, DriverKnows, ProgressKnown
      <4>6. \A v \in Volumes : onew.bs.prog[v] \in 0..Full /\ progress[onew.bs.run][v] \in 0..Full
        <5>1. onew.bs.prog \in [Volumes -> 0..Full] BY <1>v DEF Status, BackupState
        <5>2. api.st.bs.run \in Runs
          <6>1. starts \in 0..MaxStarts /\ live \subseteq 1..starts BY <1>y DEF TypeOK
          <6>2. live \subseteq 1..MaxStarts BY <6>1, ServiceAssumption
          <6> QED BY <6>2, <4>2 DEF Runs
        <5>3. progress[api.st.bs.run] \in [Volumes -> 0..Full] BY <5>2, <1>y DEF TypeOK
        <5> QED BY <4>3, <5>1, <5>3
      <4>7. \A v \in Volumes : progress[onew.bs.run][v] = Full
        BY <4>4, <4>5, <4>6, ServiceAssumption
      <4> QED BY <4>2, <4>3, <4>7
    <3>10. \A bs \in {o'.st.bs, onew'.bs, api'.st.bs} : bs \in BackupStates \cup {NoState}
      BY <1>b, <1>n, <2>3, <3>2, <3>4
    <3>11. Disturbances' >= Disturbances BY <1>g, <2>3, <2>5
    <3> QED BY <2>2, <2>3, <2>5, <3>2, <3>5, <3>6, <3>7, <3>8, <3>9, <3>10, <3>11, OperationMoves
  <2>6. OpGoto("tick", NoVBC, NoStatus) => opc' = "tick" BY DEF OpGoto
  <2> QED BY <2>2, <2>4, <2>5, <2>6, Zenon
<1>9. ASSUME NEW at \in {"complete", "fail"}, NEW ph \in {"Completed", "Failed"},
             OpRecord(at, ph), at = "complete" <=> ph = "Completed"
      PROVE  PromptInv'
  <2> DEFINE b == Patched(o.st, [o.st EXCEPT !.phase = ph])
  <2>0. opc = at /\ OpGoto("exit", NoVBC, NoStatus) /\ due' = due BY <1>9 DEF OpRecord
  <2>h. o.st.phase = "InProgress" BY <1>9, <1>h, <2>0 DEF OperationHolds
  <2>1. /\ b \in VBC /\ b.fin = api.fin /\ b.del = api.del
        /\ b.st.phase = ph /\ b.st.bs = api.st.bs
    <3>1. ph \in Phases /\ ph # "InProgress" BY <1>9 DEF Phases
    <3> QED BY <3>1, <2>h, <1>v, PhaseWritable
  <2>2. \/ api.rv # 0 /\ Commit(b) /\ StoreRevisionUpdate(api'.rv) /\ UNCHANGED faults
        \/ UNCHANGED <<apiVars, processed, faults>>
        \/ /\ api.rv # 0 /\ Fault /\ UNCHANGED processed
           /\ UNCHANGED apiVars \/ Commit(b)
    BY <1>9, Zenon DEF OpRecord
  <2> HIDE DEF b
  <2>3. /\ opc' = "exit" /\ o' = NoVBC /\ onew' = NoStatus
        /\ UNCHANGED <<cache, pc, w, wnew, starts, live, progress, crashes>>
    BY <2>0, OpGotoLeaves
  <2>4. CASE UNCHANGED <<apiVars, processed>> /\ (Fault \/ UNCHANGED faults)
    <3>1. Copies' = Copies /\ api' = api BY <1>2, <2>3, <2>4
    <3>2. api.rv # 0 => OperationAhead' BY <1>9, <1>i, <2>0, <2>3, <3>1 DEF OperationAhead
    <3> QED BY <1>1, <1>9, <1>n, <2>0, <2>3, <2>4, <3>2
  <2>5. CASE /\ api.rv # 0 /\ Commit(b) /\ (Fault \/ UNCHANGED faults)
             /\ StoreRevisionUpdate(api'.rv) \/ UNCHANGED processed
    <3>o. OperationAhead BY <1>i, <2>5
    <3>1. Stored(b) BY <1>v, <2>1, <2>5, CommitStores
    <3>2. /\ Server /\ api'.rv # 0 /\ api'.st = b.st /\ api'.del = b.del
      BY <1>y, <2>1, <2>3, <2>5, <3>1, StoredServer
    <3>3. /\ at = "complete" => api.st.phase \in {"Completed", "Deleting"}
          /\ at = "fail" => api.st.phase \in {"InProgress", "Deleting"}
      BY <2>0, <3>o DEF OperationAhead
    <3>5. NotBehind(api.st, api'.st) BY <1>9, <2>1, <3>2 DEF NotBehind, Begun
    <3>6. processed' >= processed
      <4>1. StoreRevisionUpdate(api'.rv) => processed' >= processed BY <1>v, StoreRevisionType
      <4>2. processed' = processed => processed' >= processed BY <1>v
      <4> QED BY <2>5, <4>1, <4>2
    <3>7. OperationAhead'
      <4>1. \A c, d \in Copies' :
               due' <= c.rv /\ c.rv <= d.rv /\ c.st.phase # "InProgress" =>
                  d.st.phase # "InProgress"
        <5>1. api'.st.phase # "InProgress" BY <1>9, <2>1, <3>2
        <5>2. opc # "none" BY <1>9, <2>0
        <5> QED BY <1>y, <2>0, <3>o, <3>2, <5>1, <5>2, EndedStays
      <4> QED BY <2>3, <4>1 DEF OperationAhead
    <3>8. /\ api'.st.bs = api.st.bs /\ api'.st.phase # "Deleting"
          /\ api'.st.phase = "Completed" /\ ~api'.del => api.st.phase = "Completed"
      <4>1. api'.st.bs = api.st.bs /\ api'.st.phase = ph BY <2>1, <3>2
      <4>2. api.st.phase = "Deleting" => api'.del BY <2>1, <3>2 DEF PromptInv, DriverKnows
      <4> QED BY <1>9, <3>3, <4>1, <4>2
    <3>9. \A bs \in {o'.st.bs, onew'.bs, api'.st.bs} : bs \in BackupStates \cup {NoState}
      BY <1>b, <1>n, <2>3, <3>8
    <3>10. Disturbances' >= Disturbances BY <1>g, <2>3, <2>5
    <3>11. opc # "none" BY <1>9, <2>0
    <3> QED BY <2>3, <2>5, <3>2, <3>5, <3>6, <3>7, <3>8, <3>9, <3>10, <3>11, OperationMoves
  <2> QED BY <2>2, <2>4, <2>5, Zenon
<1> QED BY <1>3, <1>4, <1>5, <1>6, <1>7, <1>8, <1>9 DEF Operation

-----------------------------------------------------------------------------
(* The other steps, when events arrive within the poll interval *)

\* A step of the world around the two goroutines that leaves the status alone keeps the
\* invariant.
LEMMA WorldMoves ==
    ASSUME IInv, IInv', PromptInv, Server, api'.rv # 0, api'.st = api.st,
           UNCHANGED <<pc, w, wnew, opc, o, onew, due, processed, starts, live, progress,
                       faults, crashes>>
    PROVE  PromptInv'
<1>y. TypeOK /\ TypeOK' /\ CopiesBehind BY DEF IInv
<1>o. api.rv # 0 /\ (api.del => api'.del) BY <1>y, ServerOnward
<1>i. VersionsInOrder /\ WorkerBehind /\ OneAtATime /\ OperationAhead BY <1>o DEF PromptInv
<1>d. Disturbances' >= Disturbances
  <2>1. Disturbances' = Disturbances BY <1>y, DisturbancesNext
  <2>2. Disturbances \in Nat BY <1>y, DisturbancesNext
  <2> QED BY <2>1, <2>2
<1>p. processed' >= processed
  <2>1. processed \in Nat BY <1>y DEF TypeOK
  <2> QED BY <2>1
<1>1. NotBehind(api.st, api'.st) BY NotBehindOrder
<1>2. WorkerBehind' BY <1>1, <1>d, <1>i, <1>p, <1>y, WorkerWaits
<1>3. OneAtATime' BY <1>1, <1>i, <1>p, <1>y, OneWaits
<1>4. OperationAhead' BY <1>i, <1>y, OperationWaits
<1>5. cache.rv = 0 => pc' = "idle" /\ opc' = "none" BY <1>i DEF VersionsInOrder
<1>6. \A bs \in {w'.st.bs, wnew'.bs, o'.st.bs, onew'.bs, api'.st.bs} : bs \in BackupStates
  BY DEF BackupStates, Copies
<1>7. pc' = "started" => starts' \in live' BY DEF PromptInv, DriverKnows
<1> QED BY <1>1, <1>2, <1>3, <1>4, <1>5, <1>6, <1>7, StepKeeps

\* So does one that leaves no object.
LEMMA WorldGone ==
    ASSUME IInv, IInv', PromptInv, Server, api' = NoVBC,
           UNCHANGED <<w, wnew, o, onew, progress>>
    PROVE  PromptInv'
<1>y. TypeOK /\ TypeOK' BY DEF IInv
<1>1. \A bs \in {w'.st.bs, wnew'.bs, o'.st.bs, onew'.bs} : bs \in BackupStates
  BY DEF BackupStates
<1>2. pc' # "started" BY NoVBCType DEF IInv, WorkerHolds
<1> QED BY <1>1, <1>2, <1>y, GoneKeeps

\* The driver's progress leaves what is recorded behind, and what is finished finished.
LEMMA ProgressPrompt ==
    ASSUME IInv, PromptInv, DriverProgress
    PROVE  PromptInv'
<1>y. TypeOK BY DEF IInv
<1>0. UNCHANGED <<api, watch, cache, processed, pc, w, wnew, opc, o, onew, due, starts, live,
                  faults, crashes>>
  BY DEF DriverProgress, EnvUnchanged, apiVars, queueVars, workerVars, opVars
<1>1. PICK r \in live, v \in Volumes :
         progress[r][v] < Full /\ progress' = [progress EXCEPT ![r][v] = @ + 1]
  BY DEF DriverProgress
<1>2. progress \in [Runs -> [Volumes -> 0..Full]] BY <1>y DEF TypeOK
<1>3. \A s \in Runs, u \in Volumes :
         /\ progress[s][u] \in Int /\ progress'[s][u] \in Int /\ progress[s][u] <= progress'[s][u]
         /\ progress[s][u] = Full => progress'[s][u] = Full
  <2> SUFFICES ASSUME NEW s \in Runs, NEW u \in Volumes
               PROVE  /\ progress[s][u] \in Int /\ progress'[s][u] \in Int
                      /\ progress[s][u] <= progress'[s][u]
                      /\ progress[s][u] = Full => progress'[s][u] = Full
    OBVIOUS
  <2>1. progress[s] \in [Volumes -> 0..Full] BY <1>2
  <2>2. progress[s][u] \in Int BY <2>1, ServiceAssumption
  <2>3. progress'[s][u] = IF s = r /\ u = v THEN progress[s][u] + 1 ELSE progress[s][u]
    BY <1>1, <1>2
  <2> QED BY <1>1, <2>2, <2>3, ServiceAssumption
<1>4. ASSUME NEW bs \in BackupState, ProgressKnown(bs) PROVE ProgressKnown(bs)'
  <2>1. bs.run # 0 => bs.run \in Runs BY ServiceAssumption DEF BackupState, Runs
  <2>2. bs.prog \in [Volumes -> 0..Full] BY DEF BackupState
  <2>3. \A u \in Volumes : bs.prog[u] \in Int BY <2>2, ServiceAssumption
  <2> SUFFICES ASSUME NEW u \in Volumes
               PROVE  bs.prog[u] <= IF bs.run = 0 THEN 0 ELSE progress'[bs.run][u]
    BY DEF ProgressKnown
  <2>4. bs.prog[u] <= IF bs.run = 0 THEN 0 ELSE progress[bs.run][u] BY <1>4 DEF ProgressKnown
  <2> QED BY <1>3, <2>1, <2>3, <2>4
<1>5. BackupStates' = BackupStates BY <1>0 DEF BackupStates, Copies, Arriving
<1>6. BackupStates \subseteq BackupState
  <2>1. \A c \in Copies : c.st.bs \in BackupState BY <1>y, CopiesType, VBCFields
  <2>2. w.st.bs \in BackupState /\ o.st.bs \in BackupState BY <1>y, VBCFields DEF TypeOK
  <2>3. wnew.bs \in BackupState /\ onew.bs \in BackupState BY <1>y DEF TypeOK, Status
  <2> QED BY <2>1, <2>2, <2>3 DEF BackupStates
<1>7. DriverKnows'
  <2>1. \A bs \in BackupStates' : ProgressKnown(bs)'
    BY <1>4, <1>5, <1>6 DEF PromptInv, DriverKnows
  <2> QED BY <1>0, <2>1 DEF PromptInv, DriverKnows
<1>8. CompletedMeansDone'
  <2>1. live \subseteq Runs
    <3>1. starts \in 0..MaxStarts /\ live \subseteq 1..starts BY <1>y DEF TypeOK
    <3> QED BY <3>1, ServiceAssumption DEF Runs
  <2> QED BY <1>0, <1>3, <2>1 DEF PromptInv, CompletedMeansDone
<1>9. api.rv # 0 => VersionsInOrder' /\ OneAtATime' /\ OperationAhead'
  <2>1. api.rv # 0 => VersionsInOrder' BY <1>0 DEF PromptInv, VersionsInOrder, Copies, Arriving
  <2>2. api.rv # 0 => OneAtATime'
    BY <1>0 DEF PromptInv, OneAtATime, Copies, Arriving, Accessible
  <2>3. api.rv # 0 => OperationAhead' BY <1>0 DEF PromptInv, OperationAhead, Copies, Arriving
  <2> QED BY <2>1, <2>2, <2>3
<1>10. api.rv # 0 => WorkerBehind'
  <2>1. Disturbances' = Disturbances BY <1>0 DEF Disturbances
  <2>2. \A st : MayStart(st)' <=> MayStart(st) BY <1>0, <2>1 DEF MayStart
  <2> QED BY <1>0, <2>1, <2>2 DEF PromptInv, WorkerBehind, Copies, Arriving, Accessible, MayStart
<1> QED BY <1>0, <1>7, <1>8, <1>9, <1>10 DEF PromptInv

\* Every step of the informer, the resync loop, the other controllers, the driver and the
\* clock keeps the invariant.
LEMMA EnvironmentPrompt ==
    ASSUME IInv, IInv', PromptInv,
           Informer \/ ReSync \/ Assign \/ DeleteVBC \/ DriverProgress \/ TimePasses
    PROVE  PromptInv'
<1>y. TypeOK BY DEF IInv
<1>v. api \in VBC /\ api.rv \in Nat /\ watch \in Seq(VBC) BY <1>y, VBCFields DEF TypeOK
<1>0. UNCHANGED <<pc, w, wnew, opc, o, onew, due, processed, starts, live, faults, crashes>>
  BY DEF Informer, ReSync, Assign, DeleteVBC, DriverProgress, TimePasses, EnvUnchanged,
         workerVars, opVars, driverVars
<1>1. CASE api' = api /\ Server /\ progress' = progress
  <2>1. api.rv = 0 => api' = NoVBC BY <1>1 DEF PromptInv, DriverKnows
  <2> QED BY <1>0, <1>1, <2>1, WorldGone, WorldMoves
<1>2. ASSUME NEW b \in VBC, Commit(b), api.rv # 0, b.st = api.st, cache' = cache,
             b.fin = api.fin, api.del => b.del, progress' = progress
      PROVE  PromptInv'
  <2>1. Stored(b) BY <1>2, <1>v, CommitStores
  <2>2. Server /\ api'.rv # 0 /\ api'.st = b.st BY <1>2, <2>1, <1>y, StoredServer
  <2> QED BY <1>0, <1>2, <2>2, WorldMoves
<1>3. CASE Informer
  <2>1. api' = api /\ Server BY <1>3 DEF Informer, Server
  <2>2. progress' = progress BY <1>3 DEF Informer, driverVars
  <2> QED BY <1>1, <2>1, <2>2
<1>4. CASE ReSync \/ TimePasses
  <2>1. UNCHANGED <<api, watch, cache, progress>>
    BY <1>4 DEF ReSync, TimePasses, EnvUnchanged, apiVars, driverVars
  <2> QED BY <1>1, <2>1 DEF Server
<1>5. CASE Assign
  <2> DEFINE b == [api EXCEPT !.prov = TRUE]
  <2>1. /\ Commit(b) /\ api.rv # 0 /\ cache' = cache /\ progress' = progress
        /\ b \in VBC /\ b.st = api.st /\ b.fin = api.fin /\ b.del = api.del
    BY <1>5, <1>v DEF Assign, EnvUnchanged, VBC, driverVars
  <2> HIDE DEF b
  <2> QED BY <1>2, <2>1
<1>6. CASE DeleteVBC
  <2>0. api.rv # 0 /\ cache' = cache /\ progress' = progress
    BY <1>6 DEF DeleteVBC, EnvUnchanged, driverVars
  <2>1. CASE Commit([api EXCEPT !.del = TRUE])
    <3> DEFINE b == [api EXCEPT !.del = TRUE]
    <3>1. Commit(b) /\ b \in VBC /\ b.st = api.st /\ b.fin = api.fin /\ b.del
      BY <2>1, <1>v DEF VBC
    <3> HIDE DEF b
    <3> QED BY <1>2, <2>0, <3>1
  <2>2. CASE Remove
    <3>1. Server /\ api' = NoVBC BY <2>0, <2>2 DEF Server, Remove
    <3> QED BY <1>0, <2>0, <3>1, WorldGone
  <2> QED BY <1>6, <2>1, <2>2 DEF DeleteVBC
<1>7. CASE DriverProgress BY <1>7, ProgressPrompt
<1> QED BY <1>3, <1>4, <1>5, <1>6, <1>7

\* After a crash nothing is known but the stored object.
LEMMA CrashPrompt ==
    ASSUME IInv, IInv', PromptInv, Crash
    PROVE  PromptInv'
<1>y. TypeOK /\ TypeOK' BY DEF IInv
<1>n. NoVBC.st.bs = NoState /\ NoStatus.bs = NoState BY NoVBCType
<1>0. /\ UNCHANGED <<api, starts, live, progress, faults>>
      /\ cache' = api /\ watch' = <<>> /\ pc' = "idle" /\ w' = NoVBC /\ wnew' = NoStatus
      /\ opc' = "none" /\ o' = NoVBC /\ onew' = NoStatus /\ due' = 0
  BY DEF Crash, Idle, driverVars
<1>s. Server BY <1>0 DEF Server
<1>b. \A bs \in {w'.st.bs, wnew'.bs, o'.st.bs, onew'.bs, api'.st.bs} :
         bs \in BackupStates \cup {NoState}
  BY <1>0, <1>n DEF BackupStates, Copies
<1>1. CASE api.rv = 0
  <2>1. api' = NoVBC BY <1>0, <1>1 DEF PromptInv, DriverKnows
  <2> QED BY <1>0, <1>b, <1>s, <1>y, <2>1, GoneKeeps
<1>2. CASE api.rv # 0
  <2>1. \A c \in Copies' : c = api BY <1>0 DEF Copies, Arriving
  <2>2. MayStart(api.st)' BY DEF MayStart, Begun
  <2>3. \A c \in Copies' : MayStart(c.st)' BY <1>0, <2>1, <2>2 DEF MayStart
  <2>4. WorkerBehind' BY <1>0, <2>3 DEF WorkerBehind
  <2>5. OneAtATime' BY <1>0 DEF OneAtATime
  <2>6. OperationAhead'
    <3>1. opc' = "none" BY <1>0
    <3> QED BY <3>1 DEF OperationAhead
  <2>7. NotBehind(api.st, api'.st) BY <1>0, NotBehindOrder
  <2>8. api'.rv # 0 BY <1>0, <1>2
  <2> QED BY <1>0, <1>b, <1>s, <2>4, <2>5, <2>6, <2>7, <2>8, StepKeeps DEF PromptInv, DriverKnows, CompletedMeansDone
<1> QED BY <1>1, <1>2

\* Every step keeps the invariant.
LEMMA NextPrompt ==
    ASSUME IInv, IInv', PromptInv, [Next]_vars, ~InformerLags
    PROVE  PromptInv'
<1>1. CASE UNCHANGED vars
  <2>0. UNCHANGED <<api, watch, cache, processed, pc, w, wnew, opc, o, onew, due, starts, live,
                    progress, faults, crashes>>
    BY <1>1 DEF vars
  <2>1. api.rv = 0 => api' = NoVBC BY <2>0 DEF PromptInv, DriverKnows
  <2>2. Server BY <2>0 DEF Server
  <2> QED BY <2>0, <2>1, <2>2, WorldGone, WorldMoves
<1> QED BY <1>1, WorkerPrompt, OperationPrompt, EnvironmentPrompt, CrashPrompt DEF Next

\* The invariant holds initially.
LEMMA InitPrompt ==
    ASSUME Init
    PROVE  PromptInv
<1>n. /\ NoVBC.rv = 0 /\ NoVBC.st = NoStatus /\ ~NoVBC.del
      /\ NoStatus.bs = NoState /\ NoStatus.phase = "unset" /\ NoVBC \in VBC
      /\ NoState.run = 0
  BY NoVBCType
<1>0. /\ watch = <<api>> /\ cache = NoVBC /\ pc = "idle" /\ w = NoVBC /\ wnew = NoStatus
      /\ opc = "none" /\ o = NoVBC /\ onew = NoStatus
  BY DEF Init
<1>1. api.rv = 1 /\ api.st = NoStatus /\ ~api.del
  <2>1. api = [NoVBC EXCEPT !.rv = 1] BY DEF Init
  <2> QED BY <2>1, <1>n DEF VBC
<1>2. Arriving = {NoVBC, api} /\ Copies = {NoVBC, api}
  <2>1. {watch[i] : i \in DOMAIN watch} = {api} BY <1>0
  <2> QED BY <2>1, <1>0 DEF Copies, Arriving
<1>3. VersionsInOrder
  <2>1. DOMAIN watch = {1} /\ watch[1] = api BY <1>0
  <2>2. \A c, d \in Copies : c.st = d.st BY <1>1, <1>2, <1>n
  <2>3. \A c, d \in Copies : NotBehind(c.st, d.st) BY <2>2, NotBehindOrder
  <2> QED BY <1>0, <1>1, <1>2, <1>n, <2>1, <2>3 DEF VersionsInOrder
<1>4. WorkerBehind
  <2>1. MayStart(api.st) BY DEF MayStart, Begun
  <2>2. \A c \in Copies : c.st = api.st BY <1>1, <1>2, <1>n
  <2> QED BY <1>0, <2>1, <2>2 DEF WorkerBehind
<1>5. OneAtATime /\ OperationAhead BY <1>0 DEF OneAtATime, OperationAhead
<1>6. DriverKnows
  <2>1. \A v \in Volumes : NoState.prog[v] = 0 BY DEF NoState, Untouched
  <2>2. ProgressKnown(NoState) BY <1>n, <2>1 DEF ProgressKnown
  <2>3. BackupStates = {NoState}
    <3>1. \A c \in Copies : c.st.bs = NoState BY <1>1, <1>2, <1>n
    <3> QED BY <1>0, <1>n, <1>2, <3>1 DEF BackupStates
  <2> QED BY <1>0, <1>1, <1>n, <2>2, <2>3 DEF DriverKnows
<1>7. CompletedMeansDone BY <1>1, <1>n DEF CompletedMeansDone
<1> QED BY <1>3, <1>4, <1>5, <1>6, <1>7 DEF PromptInv

\* The inductive invariant holds in every reachable state, when events arrive within the
\* poll interval.
LEMMA Prompt ==
    ASSUME ~InformerLags
    PROVE  Spec => []PromptInv
<1>1. Init => PromptInv BY InitPrompt
<1>2. IInv /\ IInv' /\ PromptInv /\ [Next]_vars => PromptInv' BY NextPrompt
<1> QED BY <1>1, <1>2, Inductive, PTL DEF Spec

\* A VBC is Completed only if its handles belong to a backup that exists at the driver and
\* in which every volume is finished: for any number of volumes, retries, disturbances and
\* progress timeouts, when events arrive within the poll interval.
THEOREM CompletedIsDone ==
    ASSUME ~InformerLags
    PROVE  Spec => []CompletedMeansDone
<1>1. PromptInv => CompletedMeansDone BY DEF PromptInv
<1> QED BY <1>1, Prompt, PTL

-----------------------------------------------------------------------------
(* What the steps mean to the backup controller *)

\* The phases of which the contract says that the backup has ended
Ended(st) == st.phase \in {"Completed", "Failed"}

\* What a write of b that leaves the deletion alone means
LEMMA WriteMeans ==
    ASSUME TypeOK, NEW b \in VBC, Stored(b), api.rv # 0, b.del = api.del
    PROVE  /\ b.st.phase = api.st.phase \/ (~Ended(api.st) /\ ~Ended(b.st)) =>
                 UNCHANGED Contract!vars
           /\ ~Ended(api.st) => Contract!Finish \/ UNCHANGED Contract!vars
           /\ api.del /\ ~Ended(b.st) => Contract!Deleting \/ UNCHANGED Contract!vars
<1>0. api'.rv # 0 /\ api'.st = b.st /\ api'.del = api.del
  <2>1. api.rv \in Nat BY VBCFields DEF TypeOK
  <2> QED BY <2>1 DEF Stored
<1>1. b.st.phase = api.st.phase \/ (~Ended(api.st) /\ ~Ended(b.st)) => UNCHANGED Contract!vars
  BY <1>0 DEF Ended, Contract!vars
<1>2. ~Ended(api.st) /\ Ended(b.st) => Contract!Finish
  BY <1>0 DEF Ended, Contract!Finish
<1>3. api.del /\ Ended(api.st) /\ ~Ended(b.st) => Contract!Deleting
  BY <1>0 DEF Ended, Contract!Deleting
<1> QED BY <1>1, <1>2, <1>3

\* A step that leaves the object alone means nothing.
LEMMA NothingMeans ==
    ASSUME api' = api
    PROVE  UNCHANGED Contract!vars
BY DEF Contract!vars

\* What the worker's patches mean
LEMMA WorkerMeans ==
    ASSUME IInv, PromptInv, Worker
    PROVE  ServiceStep \/ UNCHANGED Contract!vars
<1>y. TypeOK BY DEF IInv
<1>v. /\ api \in VBC /\ watch \in Seq(VBC) /\ w.st \in Status /\ wnew \in Status
  BY <1>y, VBCFields DEF TypeOK
<1>i. api.rv # 0 => WorkerBehind BY DEF PromptInv
<1>h. WorkerHolds BY DEF IInv
<1>n. Contract!Next => ServiceStep BY DEF ServiceStep
<1>p. \A ph \in Phases :
         LET b == Patched(w.st, [w.st EXCEPT !.phase = ph]) IN
         /\ b \in VBC /\ b.del = api.del
         /\ b.st.phase = IF ph # w.st.phase THEN ph ELSE api.st.phase
  <2> SUFFICES ASSUME NEW ph \in Phases
               PROVE  LET b == Patched(w.st, [w.st EXCEPT !.phase = ph]) IN
                      /\ b \in VBC /\ b.del = api.del
                      /\ b.st.phase = IF ph # w.st.phase THEN ph ELSE api.st.phase
    OBVIOUS
  <2> DEFINE new == [w.st EXCEPT !.phase = ph]
  <2>1. new \in Status /\ new.phase = ph BY <1>v, PhaseType
  <2> HIDE DEF new
  <2>2. LET b == Patched(w.st, new) IN
        /\ b \in VBC /\ b.del = api.del
        /\ b.st.phase = IF new.phase # w.st.phase THEN new.phase ELSE api.st.phase
    BY <1>v, <2>1, PatchedType
  <2> QED BY <2>1, <2>2 DEF new
<1>q. "New" \in Phases /\ "Failed" \in Phases /\ "Deleting" \in Phases BY DEF Phases
<1>1. ASSUME NEW b \in VBC, NEW next \in Pcs, WorkerPatch(b, next), api' # api
      PROVE  Stored(b) /\ api.rv # 0
  BY <1>1, <1>y, WorkerPatchOutcomes, Zenon DEF apiVars
<1> SUFFICES ASSUME api' # api PROVE ServiceStep \/ UNCHANGED Contract!vars
  BY NothingMeans
<1>2. CASE EnsureVolBackupInit
  <2> DEFINE b == Patched(w.st, [w.st EXCEPT !.phase = "New"])
  <2>1. w.st.phase = "unset" /\ WorkerPatch(b, "finalizer") /\ pc = "init"
    BY <1>2 DEF EnsureVolBackupInit, Local, apiVars
  <2>2. b \in VBC /\ b.del = api.del /\ b.st.phase = "New" BY <2>1, <1>p, <1>q
  <2> HIDE DEF b
  <2>3. Stored(b) /\ api.rv # 0 BY <1>1, <2>1, <2>2 DEF Pcs
  <2>4. ~Begun(api.st) BY <1>i, <2>1, <2>3 DEF WorkerBehind, MayStart
  <2>5. ~Ended(api.st) /\ ~Ended(b.st) BY <2>2, <2>4 DEF Ended, Begun
  <2> QED BY <1>y, <2>2, <2>3, <2>5, WriteMeans
<1>3. CASE EnsureFinalizer
  <2> DEFINE b == [api EXCEPT !.fin = TRUE]
  <2>1. WorkerPatch(b, "driver") BY <1>3 DEF EnsureFinalizer, Local, apiVars
  <2>2. b \in VBC /\ b.del = api.del /\ b.st = api.st BY <1>v DEF VBC
  <2> HIDE DEF b
  <2>3. Stored(b) /\ api.rv # 0 BY <1>1, <2>1, <2>2 DEF Pcs
  <2> QED BY <1>y, <2>2, <2>3, WriteMeans
<1>4. CASE StartFailed
  <2> DEFINE b == Patched(w.st, [w.st EXCEPT !.phase = "Failed"])
  <2>1. pc = "startFailed" /\ api.rv # 0 /\ Commit(b)
    BY <1>4, Zenon DEF StartFailed, apiVars
  <2>2. w.st.phase \in {"unset", "New"} BY <2>1, <1>h DEF WorkerHolds
  <2>3. b \in VBC /\ b.del = api.del /\ b.st.phase = "Failed" BY <2>2, <1>p, <1>q
  <2> HIDE DEF b
  <2>4. Stored(b) BY <1>v, <2>1, <2>3, CommitStores
  <2>5. api.st.phase \in {"unset", "New", "InProgress", "Failed"}
    BY <1>i, <2>1, <2>2 DEF WorkerBehind, MayStart, Begun
  <2>6. ~Ended(api.st) \/ b.st.phase = api.st.phase BY <2>3, <2>5 DEF Ended
  <2> QED BY <1>n, <1>y, <2>1, <2>3, <2>4, <2>6, WriteMeans DEF Contract!Next
<1>5. CASE Started
  <2> DEFINE b == Patched(w.st, wnew)
  <2>1. pc = "started" /\ WorkerPatch(b, "run") BY <1>5 DEF Started
  <2>2. w.st.phase \in {"unset", "New"} /\ wnew.phase = "InProgress"
    BY <2>1, <1>h DEF WorkerHolds
  <2>3. b \in VBC /\ b.del = api.del /\ b.st.phase = "InProgress"
    BY <2>2, <1>v, PatchedType
  <2> HIDE DEF b
  <2>4. Stored(b) /\ api.rv # 0 BY <1>1, <2>1, <2>3 DEF Pcs
  <2>5. \/ api.st.phase \in {"unset", "New", "InProgress"}
        \/ api.st.phase = "Failed" /\ Disturbances >= 2
    BY <1>i, <2>1, <2>2, <2>4 DEF WorkerBehind, MayStart, Begun
  <2>6. CASE api.st.phase \in {"unset", "New", "InProgress"}
    <3>1. ~Ended(api.st) /\ ~Ended(b.st) BY <2>3, <2>6 DEF Ended
    <3> QED BY <1>y, <2>3, <2>4, <3>1, WriteMeans
  <2>7. CASE api.st.phase = "Failed" /\ Disturbances >= 2 BY <1>5, <2>7 DEF ServiceStep
  <2> QED BY <2>5, <2>6, <2>7
<1>6. CASE UpdateDeleting
  <2> DEFINE b == Patched(w.st, [w.st EXCEPT !.phase = "Deleting"])
  <2>1. pc = "deleting" /\ WorkerPatch(b, "delDriver")
    BY <1>6 DEF UpdateDeleting, Local, apiVars
  <2>2. /\ b \in VBC /\ b.del = api.del
        /\ b.st.phase = "Deleting" \/ b.st.phase = api.st.phase
    BY <1>p, <1>q
  <2> HIDE DEF b
  <2>3. Stored(b) /\ api.rv # 0 BY <1>1, <2>1, <2>2 DEF Pcs
  <2>4. api.del BY <2>1, <2>3, <1>h DEF WorkerHolds, Copies
  <2>5. ~Ended(b.st) \/ b.st.phase = api.st.phase BY <2>2 DEF Ended
  <2> QED BY <1>n, <1>y, <2>2, <2>3, <2>4, <2>5, WriteMeans DEF Contract!Next
<1>7. CASE EnsureFinalizerRemove
  <2>1. pc = "delFinalizer" /\ api.rv # 0 /\ Remove
    BY <1>7, Zenon DEF EnsureFinalizerRemove, apiVars
  <2>2. api.del BY <2>1, <1>h DEF WorkerHolds, Copies
  <2>3. api' = NoVBC BY <2>1 DEF Remove
  <2>4. Contract!Release BY <2>2, <2>3, NoVBCType DEF Contract!Release
  <2> QED BY <1>n, <2>4 DEF Contract!Next
<1>8. CASE \/ ProcessQueue \/ CheckVolumeBackupDriver \/ StartBackup \/ StartBackupFails
           \/ RunOperation \/ DeleteBackup
  BY <1>8 DEF ProcessQueue, CheckVolumeBackupDriver, Local, StartBackup, StartBackupFails,
     RunOperation, DeleteBackup, apiVars
<1> QED BY <1>2, <1>3, <1>4, <1>5, <1>6, <1>7, <1>8 DEF Worker

\* What the operation's patches mean
LEMMA OperationMeans ==
    ASSUME IInv, PromptInv, Operation
    PROVE  ServiceStep \/ UNCHANGED Contract!vars
<1>y. TypeOK BY DEF IInv
<1>v. /\ api \in VBC /\ watch \in Seq(VBC) /\ o.st \in Status /\ onew \in Status
  BY <1>y, VBCFields DEF TypeOK
<1>i. api.rv # 0 => OperationAhead BY DEF PromptInv
<1>h. OperationHolds BY DEF IInv
<1>n. Contract!Finish => ServiceStep BY DEF ServiceStep, Contract!Next
<1> SUFFICES ASSUME api' # api PROVE ServiceStep \/ UNCHANGED Contract!vars
  BY NothingMeans
<1>1. CASE OpUpdate
  <2> DEFINE b == Patched(o.st, onew)
  <2>1. opc = "update" /\ api.rv # 0 /\ Commit(b) BY <1>1, Zenon DEF OpUpdate, apiVars
  <2>2. b \in VBC /\ b.del = api.del BY <1>v, PatchedType
  <2> HIDE DEF b
  <2>3. Stored(b) BY <1>v, <2>1, <2>2, CommitStores
  <2>4. ~Ended(api.st) BY <1>i, <2>1 DEF OperationAhead, Ended
  <2> QED BY <1>n, <1>y, <2>1, <2>2, <2>3, <2>4, WriteMeans
<1>2. ASSUME NEW at \in {"complete", "fail"}, NEW ph \in {"Completed", "Failed"},
             OpRecord(at, ph), at = "complete" <=> ph = "Completed"
      PROVE  ServiceStep \/ UNCHANGED Contract!vars
  <2> DEFINE b == Patched(o.st, [o.st EXCEPT !.phase = ph])
  <2>1. opc = at /\ api.rv # 0 /\ Commit(b) BY <1>2, Zenon DEF OpRecord, apiVars
  <2>2. o.st.phase = "InProgress" BY <1>2, <2>1, <1>h DEF OperationHolds
  <2>3. b \in VBC /\ b.del = api.del /\ b.st.phase = ph
    <3>1. ph \in Phases /\ ph # o.st.phase BY <1>2, <2>2 DEF Phases
    <3> QED BY <3>1, <2>2, <1>v, PhaseWritable
  <2> HIDE DEF b
  <2>4. Stored(b) BY <1>v, <2>1, <2>3, CommitStores
  <2>5. /\ at = "complete" => api.st.phase \in {"Completed", "Deleting"}
        /\ at = "fail" => api.st.phase \in {"InProgress", "Deleting"}
    BY <1>i, <2>1 DEF OperationAhead
  <2>6. ~Ended(api.st) \/ b.st.phase = api.st.phase BY <1>2, <2>3, <2>5 DEF Ended
  <2> QED BY <1>n, <1>y, <2>1, <2>3, <2>4, <2>6, WriteMeans
<1>3. CASE \/ OpTick \/ OpStat \/ OpStatFails \/ OpExit
           \/ OpOutcome("success", "complete") \/ OpOutcome("failure", "fail")
  BY <1>3 DEF OpTick, OpStat, OpStatFails, OpExit, OpOutcome, apiVars
<1> QED BY <1>1, <1>2, <1>3 DEF Operation

\* What the steps of the world around the two goroutines mean
LEMMA EnvironmentMeans ==
    ASSUME IInv, Informer \/ ReSync \/ Assign \/ DeleteVBC \/ DriverProgress \/ TimePasses
    PROVE  ServiceStep \/ UNCHANGED Contract!vars
<1>y. TypeOK BY DEF IInv
<1>v. api \in VBC /\ watch \in Seq(VBC) BY <1>y DEF TypeOK
<1>n. Contract!Delete => ServiceStep BY DEF ServiceStep, Contract!Next
<1>1. CASE Informer \/ ReSync \/ DriverProgress \/ TimePasses
  <2>1. api' = api BY <1>1 DEF Informer, ReSync, DriverProgress, TimePasses, apiVars
  <2> QED BY <2>1, NothingMeans
<1>2. CASE Assign
  <2> DEFINE b == [api EXCEPT !.prov = TRUE]
  <2>1. Commit(b) /\ api.rv # 0 /\ b \in VBC /\ b.st = api.st /\ b.del = api.del
    BY <1>2, <1>v DEF Assign, VBC
  <2> HIDE DEF b
  <2>2. Stored(b) BY <1>v, <2>1, CommitStores
  <2> QED BY <1>y, <2>1, <2>2, WriteMeans
<1>3. CASE DeleteVBC
  <2>0. api.rv # 0 /\ ~api.del BY <1>3 DEF DeleteVBC
  <2>1. CASE Commit([api EXCEPT !.del = TRUE])
    <3> DEFINE b == [api EXCEPT !.del = TRUE]
    <3>1. Commit(b) /\ b \in VBC /\ b.st = api.st /\ b.del = TRUE BY <2>1, <1>v DEF VBC
    <3> HIDE DEF b
    <3>2. Stored(b) BY <1>v, <3>1, CommitStores
    <3>3. api'.rv # 0 /\ api'.st = api.st /\ api'.del = TRUE
      <4>1. api.rv \in Nat BY <1>v, VBCFields
      <4> QED BY <2>0, <3>1, <3>2, <4>1 DEF Stored
    <3>4. Contract!Delete BY <2>0, <3>3 DEF Contract!Delete
    <3> QED BY <1>n, <3>4
  <2>2. CASE Remove
    <3>1. api' = NoVBC BY <2>2 DEF Remove
    <3>2. api.del = FALSE BY <2>0, <1>v DEF VBC
    <3>3. NoVBC.rv = 0 /\ NoVBC.del = FALSE BY DEF NoVBC
    <3>4. Contract!Delete BY <2>0, <3>1, <3>2, <3>3 DEF Contract!Delete
    <3> QED BY <1>n, <3>4
  <2> QED BY <1>3, <2>1, <2>2 DEF DeleteVBC
<1> QED BY <1>1, <1>2, <1>3

\* What any step means
LEMMA StepMeans ==
    ASSUME IInv, PromptInv, [Next]_vars
    PROVE  ServiceStep \/ UNCHANGED Contract!vars
<1>1. CASE UNCHANGED vars BY <1>1, NothingMeans DEF vars
<1>2. CASE Crash BY <1>2, NothingMeans DEF Crash
<1> QED BY <1>1, <1>2, WorkerMeans, OperationMeans, EnvironmentMeans DEF Next

\* The contract begins where the service does.
LEMMA InitMeans ==
    ASSUME Init
    PROVE  Contract!Init
<1>1. api = [NoVBC EXCEPT !.rv = 1] BY DEF Init
<1>2. api.rv = 1 /\ api.st.phase = "unset" /\ api.del = FALSE
  BY <1>1 DEF NoVBC, NoStatus
<1> QED BY <1>2 DEF Contract!Init

\* The service takes no step but those of its contract, for any number of volumes,
\* retries, disturbances and progress timeouts, when events arrive within the poll
\* interval: with one exception, for which two calls or crashes are needed. Then a backup
\* of which the driver has refused the start, and of which Failed is recorded, is started
\* after all.
THEOREM ServiceSteps ==
    ASSUME ~InformerLags
    PROVE  Spec => Contract!Init /\ [][ServiceStep]_(Contract!vars)
<1>1. Init => Contract!Init BY InitMeans
<1>2. IInv /\ PromptInv /\ [Next]_vars => [ServiceStep]_(Contract!vars) BY StepMeans
<1> QED BY <1>1, <1>2, Inductive, Prompt, PTL DEF Spec

\* With at most one failed call or crash there is no exception: the service implements its
\* contract, but for what must happen in the end.
THEOREM ServiceImplements ==
    ASSUME ~InformerLags, MaxDisturbed <= 1
    PROVE  Spec => Contract!Spec
<1>1. IInv /\ [ServiceStep]_(Contract!vars) => [Contract!Next]_(Contract!vars)
  <2> SUFFICES ASSUME IInv, ServiceStep PROVE Contract!Next
    OBVIOUS
  <2>1. Disturbances <= MaxDisturbed /\ Disturbances \in Nat
    BY DisturbancesType DEF IInv, TypeOK, Disturbances
  <2>2. ~(Disturbances >= 2) BY <2>1, ServiceAssumption
  <2> QED BY <2>2 DEF ServiceStep
<1> QED BY <1>1, Inductive, ServiceSteps, PTL DEF Contract!Spec

=============================================================================
