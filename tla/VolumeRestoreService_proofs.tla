---------------------- MODULE VolumeRestoreService_proofs ----------------------
(***************************************************************************)
(* Proofs about VolumeRestoreService, for every value of its constants:    *)
(* the driver creates the volumes of a restore once and once more per      *)
(* failed call or crash, and when the object of an unfinished restore goes *)
(* the volumes that remain are paid for in the same way.  The argument is  *)
(* that of VolumeBackupService_proofs; what is added is the annotation for *)
(* the cleanup, the process that panics, and the write under a lock.  When *)
(* events arrive within the poll interval, what is Completed is done, and  *)
(* every step is one the restore controller expects.                       *)
(***************************************************************************)
EXTENDS VolumeRestoreService, TLAPS, FiniteSetTheorems

-----------------------------------------------------------------------------
(* Types *)

\* The empty object and its status have their types.
LEMMA NoVRCType ==
    /\ Untouched \in [Volumes -> 0..Full] /\ NoState \in RestoreState
    /\ NoStatus \in Status /\ NoVRC \in VRC
    /\ NoVRC.rv = 0 /\ NoVRC.st = NoStatus /\ ~NoVRC.del /\ ~NoVRC.fin /\ ~NoVRC.clean
    /\ NoStatus.phase = "unset" /\ NoStatus.rs = NoState /\ NoState.run = 0
<1>1. Untouched \in [Volumes -> 0..Full] BY ServiceAssumption DEF Untouched
<1>2. NoState \in RestoreState /\ NoState.run = 0
  BY <1>1, ServiceAssumption DEF NoState, RestoreState
<1>3. NoStatus \in Status /\ NoStatus.phase = "unset" /\ NoStatus.rs = NoState
  BY <1>2 DEF NoStatus, Status, Phases
<1>4. NoVRC \in VRC /\ NoVRC.rv = 0 /\ NoVRC.st = NoStatus /\ ~NoVRC.del /\ ~NoVRC.fin /\ ~NoVRC.clean
  BY <1>3 DEF NoVRC, VRC
<1> QED BY <1>1, <1>2, <1>3, <1>4

\* The fields of an object
LEMMA VRCFields ==
    ASSUME NEW b \in VRC
    PROVE  /\ b.rv \in Nat /\ b.st \in Status /\ b.fin \in BOOLEAN
           /\ b.del \in BOOLEAN /\ b.clean \in BOOLEAN
           /\ b.st.phase \in Phases /\ b.st.rs \in RestoreState /\ b.st.rs.run \in 0..MaxStarts
           /\ b.st.rs.prog \in [Volumes -> 0..Full] /\ b.st.rs.stamp \in 0..MaxPeriods
BY DEF VRC, Status, RestoreState

\* A status with another phase
LEMMA PhaseType ==
    ASSUME NEW st \in Status, NEW ph \in Phases
    PROVE  /\ [st EXCEPT !.phase = ph] \in Status
           /\ [st EXCEPT !.phase = ph].phase = ph /\ [st EXCEPT !.phase = ph].rs = st.rs
BY DEF Status

\* A patch turns the stored object into one of its revision that differs in the status.
LEMMA PatchedType ==
    ASSUME api \in VRC, NEW old \in Status, NEW new \in Status
    PROVE  LET b == Patched(old, new) IN
           /\ b \in VRC /\ b.rv = api.rv /\ b.fin = api.fin /\ b.del = api.del
           /\ b.clean = api.clean
           /\ b.st.phase = IF new.phase # old.phase THEN new.phase ELSE api.st.phase
           /\ b.st.rs = IF new.rs # old.rs THEN new.rs ELSE api.st.rs
<1> DEFINE ph == IF new.phase # old.phase THEN new.phase ELSE api.st.phase
           rs == IF new.rs # old.rs THEN new.rs ELSE api.st.rs
           st == [api.st EXCEPT !.phase = ph, !.rs = rs]
<1>1. ph \in Phases /\ rs \in RestoreState BY DEF VRC, Status
<1>2. Patched(old, new) = [api EXCEPT !.st = st] BY DEF Patched, VRC, Status
<1> HIDE DEF ph, rs
<1>3. st \in Status /\ st.phase = ph /\ st.rs = rs BY <1>1 DEF Status, VRC
<1> HIDE DEF st
<1>4. /\ [api EXCEPT !.st = st] \in VRC /\ [api EXCEPT !.st = st].st = st
      /\ [api EXCEPT !.st = st].rv = api.rv /\ [api EXCEPT !.st = st].fin = api.fin
      /\ [api EXCEPT !.st = st].del = api.del /\ [api EXCEPT !.st = st].clean = api.clean
  BY <1>3 DEF VRC
<1> QED BY <1>2, <1>3, <1>4 DEF ph, rs

\* What a write of b leaves: nothing new, or a new revision of which the informer hears.
Stored(b) ==
    /\ api' \in VRC /\ api'.st = b.st /\ api'.fin = b.fin /\ api'.del = b.del
    /\ api'.clean = b.clean
    /\ \/ api' = api /\ watch' = watch
       \/ api'.rv = api.rv + 1 /\ watch' = Append(watch, api')

\* A write stores what it says.
LEMMA CommitStores ==
    ASSUME api \in VRC, watch \in Seq(VRC), NEW b \in VRC, Commit(b)
    PROVE  Stored(b) /\ watch' \in Seq(VRC)
<1> DEFINE new == [b EXCEPT !.rv = api.rv + 1]
<1>1. CASE b = api BY <1>1 DEF Commit, apiVars, Stored
<1>2. CASE b # api
  <2>1. api.rv + 1 \in Nat BY DEF VRC
  <2>2. /\ new \in VRC /\ new.st = b.st /\ new.fin = b.fin /\ new.del = b.del
        /\ new.clean = b.clean /\ new.rv = api.rv + 1
    BY <2>1 DEF VRC
  <2>3. api' = new /\ watch' = Append(watch, new) BY <1>2 DEF Commit
  <2> HIDE DEF new
  <2> QED BY <2>2, <2>3 DEF Stored
<1> QED BY <1>1, <1>2

\* A removal leaves nothing.
LEMMA RemoveType ==
    ASSUME watch \in Seq(VRC), Remove
    PROVE  api' = NoVRC /\ api' \in VRC /\ watch' = Append(watch, NoVRC) /\ watch' \in Seq(VRC)
BY NoVRCType DEF Remove

\* The end of a handler
LEMMA ReturnType ==
    ASSUME queued \in BOOLEAN, requeues \in 0..MaxRetry, Return \/ ReturnErr
    PROVE  /\ queued' \in BOOLEAN /\ requeues' \in 0..MaxRetry
           /\ pc' = "idle" /\ w' = NoVRC /\ wnew' = NoStatus
<1>1. pc' = "idle" /\ w' = NoVRC /\ wnew' = NoStatus BY Zenon DEF Return, ReturnErr, Idle
<1>2. queued' = queued \/ queued' = TRUE BY Zenon DEF Return, ReturnErr
<1>3. requeues' = 0 \/ (requeues < MaxRetry /\ requeues' = requeues + 1)
  BY Zenon DEF Return, ReturnErr
<1>4. requeues' \in 0..MaxRetry BY <1>3, ServiceAssumption
<1>5. queued' \in BOOLEAN BY <1>2, Zenon
<1> QED BY <1>1, <1>4, <1>5, Zenon

\* A failure is counted.
LEMMA FaultType ==
    ASSUME faults \in Nat, crashes \in Nat, Fault \/ UNCHANGED faults,
           faults + crashes <= MaxDisturbed, UNCHANGED crashes
    PROVE  /\ faults' \in Nat /\ faults' + crashes' <= MaxDisturbed
           /\ faults' >= faults /\ (Fault => faults' = faults + 1)
BY ServiceAssumption DEF Fault

\* StoreRevisionUpdate keeps the larger revision.
LEMMA StoreRevisionType ==
    ASSUME processed \in Nat, NEW rv \in Nat, StoreRevisionUpdate(rv)
    PROVE  /\ processed' \in Nat /\ processed' >= processed /\ processed' >= rv
           /\ processed' = processed \/ processed' = rv
BY DEF StoreRevisionUpdate

\* What a write of the worker does: its copy then reflects it or the handler ends, or an
\* error.
LEMMA WorkerWriteOutcomes ==
    ASSUME TypeOK, NEW b \in VRC, NEW next \in Pcs \cup {"return"}, WorkerWrite(b, next)
    PROVE  /\ UNCHANGED <<cache, opc, o, onew, starts, live, progress, clock, crashes>>
           /\ \/ /\ api.rv # 0 /\ Stored(b) /\ StoreRevisionUpdate(api'.rv) /\ UNCHANGED faults
                 /\ IF next = "return" THEN pc' = "idle" /\ w' = NoVRC
                                       ELSE pc' = next /\ w' = api'
              \/ /\ \/ api.rv = 0 /\ UNCHANGED <<api, watch, faults>>
                    \/ api.rv # 0 /\ Fault /\ (UNCHANGED <<api, watch>> \/ Stored(b))
                 /\ pc' = "idle" /\ w' = NoVRC /\ UNCHANGED processed
<1>1. api \in VRC /\ watch \in Seq(VRC) BY DEF TypeOK
<1>2. Commit(b) => Stored(b) BY <1>1, CommitStores
<1>3. (Return \/ ReturnErr) => pc' = "idle" /\ w' = NoVRC BY DEF Return, ReturnErr, Idle
<1>4. Goto(next, api', api'.st) => pc' = next /\ w' = api' BY DEF Goto
<1>5. UNCHANGED <<cache, opc, o, onew, starts, live, progress, clock, crashes>>
  BY DEF WorkerWrite, opVars, driverVars
<1>6. \/ /\ api.rv # 0 /\ Commit(b) /\ StoreRevisionUpdate(api'.rv) /\ UNCHANGED faults
         /\ IF next = "return" THEN Return ELSE Goto(next, api', api'.st)
      \/ /\ \/ api.rv = 0 /\ UNCHANGED <<apiVars, faults>>
            \/ api.rv # 0 /\ Fault /\ (UNCHANGED apiVars \/ Commit(b))
         /\ ReturnErr /\ UNCHANGED processed
  BY Zenon DEF WorkerWrite
<1>7. UNCHANGED apiVars => UNCHANGED <<api, watch>> BY DEF apiVars
<1> QED BY <1>2, <1>3, <1>4, <1>5, <1>6, <1>7

\* Every write of the worker keeps the types.
LEMMA WorkerWriteType ==
    ASSUME TypeOK, NEW b \in VRC, NEW next \in Pcs \cup {"return"}, WorkerWrite(b, next)
    PROVE  TypeOK'
<1>t. /\ api \in VRC /\ watch \in Seq(VRC) /\ processed \in Nat /\ queued \in BOOLEAN
      /\ requeues \in 0..MaxRetry /\ faults \in Nat /\ crashes \in Nat
      /\ faults + crashes <= MaxDisturbed
  BY Zenon DEF TypeOK
<1>1. UNCHANGED apiVars \/ Commit(b) BY Zenon DEF WorkerWrite
<1>2. api' \in VRC /\ watch' \in Seq(VRC) /\ api'.st \in Status /\ api'.rv \in Nat
  BY <1>1, <1>t, CommitStores DEF Stored, apiVars, VRC
<1>3. processed' \in Nat BY <1>2, <1>t, StoreRevisionType DEF WorkerWrite
<1>4. faults' \in Nat /\ faults' + crashes' <= MaxDisturbed /\ crashes' = crashes
  BY <1>t, FaultType DEF WorkerWrite
<1>0. Return \/ ReturnErr \/ (next # "return" /\ Goto(next, api', api'.st))
  BY Zenon DEF WorkerWrite
<1>5. pc' \in Pcs /\ w' \in VRC /\ wnew' \in Status
  <2>1. CASE Return \/ ReturnErr BY <2>1, <1>t, ReturnType, NoVRCType DEF Pcs
  <2>2. CASE next # "return" /\ Goto(next, api', api'.st) BY <2>2, <1>2 DEF Goto
  <2> QED BY <1>0, <2>1, <2>2
<1>6. queued' \in BOOLEAN /\ requeues' \in 0..MaxRetry
  <2>1. CASE Return \/ ReturnErr BY <2>1, <1>t, ReturnType
  <2>2. CASE Goto(next, api', api'.st) BY <2>2, <1>t, Zenon DEF Goto, queueVars
  <2> QED BY <1>0, <2>1, <2>2
<1>7. UNCHANGED <<cache, opVars, driverVars, clock, crashes>> BY Zenon DEF WorkerWrite
<1> QED BY <1>2, <1>3, <1>4, <1>5, <1>6, <1>7 DEF TypeOK, opVars, driverVars

\* What a step without a write does
LEMMA LocalOutcomes ==
    ASSUME NEW next, Local(next)
    PROVE  /\ UNCHANGED <<apiVars, cache, processed, opVars, driverVars, clock, faults, crashes>>
           /\ \/ next \in {"return", "error"} /\ (Return \/ ReturnErr)
              \/ next \notin {"return", "error"} /\ Goto(next, w, w.st)
BY DEF Local

\* A step without a call
LEMMA LocalType ==
    ASSUME TypeOK, NEW next \in Pcs \cup {"return", "error"}, Local(next)
    PROVE  TypeOK'
<1>t. queued \in BOOLEAN /\ requeues \in 0..MaxRetry /\ w \in VRC /\ w.st \in Status
  BY DEF TypeOK, VRC
<1>0. (Return \/ ReturnErr) \/ (next \in Pcs /\ Goto(next, w, w.st)) BY LocalOutcomes
<1>1. pc' \in Pcs /\ w' \in VRC /\ wnew' \in Status
  <2>1. CASE Return \/ ReturnErr BY <2>1, <1>t, ReturnType, NoVRCType DEF Pcs
  <2>2. CASE next \in Pcs /\ Goto(next, w, w.st) BY <2>2, <1>t DEF Goto
  <2> QED BY <1>0, <2>1, <2>2
<1>2. queued' \in BOOLEAN /\ requeues' \in 0..MaxRetry
  <2>1. CASE Return \/ ReturnErr BY <2>1, <1>t, ReturnType
  <2>2. CASE Goto(next, w, w.st) BY <2>2, <1>t, Zenon DEF Goto, queueVars
  <2> QED BY <1>0, <2>1, <2>2
<1>3. UNCHANGED <<apiVars, cache, processed, opVars, driverVars, clock, faults, crashes>>
  BY LocalOutcomes
<1> QED BY <1>1, <1>2, <1>3 DEF TypeOK, apiVars, opVars, driverVars

\* Patches of the worker that only set the phase
LEMMA PhasePatchType ==
    ASSUME TypeOK, NEW ph \in Phases
    PROVE  /\ w.st \in Status /\ o.st \in Status /\ wnew \in Status /\ onew \in Status
           /\ Patched(w.st, wnew) \in VRC /\ Patched(o.st, onew) \in VRC
           /\ Patched(w.st, [w.st EXCEPT !.phase = ph]) \in VRC
           /\ Patched(o.st, [o.st EXCEPT !.phase = ph]) \in VRC
<1>1. /\ api \in VRC /\ w.st \in Status /\ o.st \in Status /\ wnew \in Status /\ onew \in Status
  BY DEF TypeOK, VRC
<1> QED BY <1>1, PhaseType, PatchedType

\* Every step of the worker keeps the types.
LEMMA WorkerType ==
    ASSUME TypeOK, Worker
    PROVE  TypeOK'
<1>t. /\ api \in VRC /\ watch \in Seq(VRC) /\ processed \in Nat /\ queued \in BOOLEAN
      /\ requeues \in 0..MaxRetry /\ faults \in Nat /\ crashes \in Nat /\ cache \in VRC
      /\ faults + crashes <= MaxDisturbed /\ w \in VRC /\ w.st \in Status
      /\ starts \in 0..MaxStarts /\ live \in SUBSET (1..starts) /\ clock \in 0..MaxPeriods
  BY DEF TypeOK, VRC
<1>p. \A ph \in Phases : Patched(w.st, [w.st EXCEPT !.phase = ph]) \in VRC
  BY PhasePatchType
<1>q. "New" \in Phases /\ "Failed" \in Phases BY DEF Phases
<1>r. {"init", "switch", "create", "run", "delFinalizer"} \subseteq Pcs BY DEF Pcs
<1>1. CASE ProcessQueue
  <2>0. UNCHANGED <<apiVars, cache, opVars, driverVars, clock, faults, crashes>>
    BY <1>1 DEF ProcessQueue
  <2>1. queued' = queued \/ queued' = FALSE BY <1>1, Zenon DEF ProcessQueue
  <2>2. queued' \in BOOLEAN BY <2>1, <1>t, Zenon
  <2>3. \/ /\ requeues' = requeues \/ requeues' = 0 \/ (requeues < MaxRetry /\ requeues' = requeues + 1)
           /\ UNCHANGED <<workerVars, processed>>
        \/ /\ processed' = cache.rv /\ w' = cache /\ wnew' = cache.st /\ UNCHANGED requeues
           /\ pc' \in {"cancel", "finalizer", "switch"}
    BY <1>1 DEF ProcessQueue
  <2>4. requeues' \in 0..MaxRetry BY <2>3, <1>t, ServiceAssumption
  <2>5. CASE UNCHANGED <<workerVars, processed>>
    BY <2>0, <2>2, <2>4, <2>5 DEF TypeOK, apiVars, opVars, driverVars, workerVars
  <2>6. CASE /\ processed' = cache.rv /\ w' = cache /\ wnew' = cache.st
             /\ pc' \in {"cancel", "finalizer", "switch"}
    <3>1. processed' \in Nat /\ wnew' \in Status /\ pc' \in Pcs /\ w' \in VRC
      BY <2>6, <1>t, VRCFields DEF Pcs
    <3> QED BY <2>0, <2>2, <2>4, <3>1 DEF TypeOK, apiVars, opVars, driverVars
  <2> QED BY <2>3, <2>5, <2>6
<1>2. CASE UpdateStatus
  <2> DEFINE b == [api EXCEPT !.st.phase = IF @ = "unset" THEN "New" ELSE @]
  <2>1. b \in VRC BY <1>t, <1>q DEF VRC, Status
  <2>2. WorkerWrite(b, "switch") \/ Local("error") BY <1>2, Zenon DEF UpdateStatus
  <2> HIDE DEF b
  <2> QED BY <2>1, <2>2, <1>r, WorkerWriteType, LocalType
<1>3. CASE SetFinalizer
  <2>1. [api EXCEPT !.fin = TRUE] \in VRC BY <1>t DEF VRC
  <2> QED BY <1>3, <2>1, <1>r, WorkerWriteType DEF SetFinalizer
<1>4. CASE ProcessVolumeRestore
  <2>1. PICK next \in {"return", "create", "run"} : Local(next)
    BY <1>4 DEF ProcessVolumeRestore
  <2> QED BY <2>1, <1>r, LocalType
<1>5. CASE CreateVolumeFromBackup
  <2>0. UNCHANGED <<apiVars, cache, processed, opVars, progress, clock, crashes>>
    BY <1>5 DEF CreateVolumeFromBackup
  <2>1. starts' \in 0..MaxStarts /\ live' \in SUBSET (1..starts') /\ starts' = starts + 1
    BY <1>5, <1>t, ServiceAssumption DEF CreateVolumeFromBackup
  <2> DEFINE st == [phase |-> "InProgress",
                    rs |-> [run |-> starts', prog |-> Untouched, stamp |-> clock]]
  <2>2. st \in Status BY <2>1, <1>t, NoVRCType DEF Status, RestoreState, Phases
  <2>3. \/ Goto("created", w, st) /\ UNCHANGED faults
        \/ Fault /\ (ReturnErr \/ Goto("createFailed", w, w.st))
    BY <1>5 DEF CreateVolumeFromBackup
  <2> HIDE DEF st
  <2>4. faults' \in Nat /\ faults' + crashes' <= MaxDisturbed
    BY <2>0, <2>3, <1>t, FaultType
  <2>5. pc' \in Pcs /\ w' \in VRC /\ wnew' \in Status
    BY <2>2, <2>3, <1>t, ReturnType, NoVRCType DEF Goto, Pcs
  <2>6. queued' \in BOOLEAN /\ requeues' \in 0..MaxRetry
    BY <2>3, <1>t, ReturnType DEF Goto, queueVars
  <2> QED BY <2>0, <2>1, <2>4, <2>5, <2>6 DEF TypeOK, apiVars, opVars
<1>6. CASE CreateVolumeFails
  <2>0. UNCHANGED <<apiVars, cache, processed, opVars, driverVars, clock, crashes>>
    BY <1>6 DEF CreateVolumeFails
  <2>1. Fault /\ (ReturnErr \/ Goto("createFailed", w, w.st)) BY <1>6 DEF CreateVolumeFails
  <2>2. faults' \in Nat /\ faults' + crashes' <= MaxDisturbed
    BY <2>0, <2>1, <1>t, FaultType
  <2>3. pc' \in Pcs /\ w' \in VRC /\ wnew' \in Status
    BY <2>1, <1>t, ReturnType, NoVRCType DEF Goto, Pcs
  <2>4. queued' \in BOOLEAN /\ requeues' \in 0..MaxRetry
    BY <2>1, <1>t, ReturnType DEF Goto, queueVars
  <2> QED BY <2>0, <2>2, <2>3, <2>4 DEF TypeOK, apiVars, opVars, driverVars
<1>7. CASE CreateFailed
  BY <1>7, <1>p, <1>q, WorkerWriteType DEF CreateFailed
<1>8. CASE Created
  BY <1>8, <1>q, <1>r, PhasePatchType, WorkerWriteType DEF Created
<1>9. CASE RunOperation
  <2>1. Return /\ UNCHANGED <<apiVars, cache, processed, driverVars, clock, faults, crashes>>
    BY <1>9 DEF RunOperation
  <2>2. opc' \in OPcs /\ o' \in VRC /\ onew' \in Status /\ due' \in Nat
    BY <1>9, <1>t, VRCFields DEF RunOperation, OPcs, opVars, TypeOK
  <2>3. pc' \in Pcs /\ w' \in VRC /\ wnew' \in Status
    BY <2>1, <1>t, ReturnType, NoVRCType DEF Pcs
  <2>4. queued' \in BOOLEAN /\ requeues' \in 0..MaxRetry BY <2>1, <1>t, ReturnType
  <2> QED BY <2>1, <2>2, <2>3, <2>4 DEF TypeOK, apiVars, driverVars
<1>10. CASE CancelRestore
  <2>1. CASE Local("delFinalizer") BY <2>1, <1>r, LocalType
  <2>2. CASE /\ live' \in {live, live \ {w.st.rs.run}}
             /\ \/ Goto("delFinalizer", w, w.st) /\ UNCHANGED faults
                \/ Fault /\ ReturnErr
             /\ UNCHANGED <<apiVars, cache, processed, opVars, starts, progress, clock, crashes>>
    <3>1. live' \in SUBSET (1..starts') BY <2>2, <1>t
    <3>2. faults' \in Nat /\ faults' + crashes' <= MaxDisturbed BY <2>2, <1>t, FaultType
    <3>3. pc' \in Pcs /\ w' \in VRC /\ wnew' \in Status
      BY <2>2, <1>t, ReturnType, NoVRCType DEF Goto, Pcs
    <3>4. queued' \in BOOLEAN /\ requeues' \in 0..MaxRetry
      BY <2>2, <1>t, ReturnType DEF Goto, queueVars
    <3> QED BY <2>2, <3>1, <3>2, <3>3, <3>4 DEF TypeOK, apiVars, opVars
  <2> QED BY <1>10, <2>1, <2>2 DEF CancelRestore
<1>11. CASE RemoveFinalizer
  <2>1. /\ UNCHANGED apiVars \/ Remove
        /\ Fault \/ UNCHANGED faults
        /\ processed' = 0 \/ UNCHANGED processed
        /\ Return \/ ReturnErr
        /\ UNCHANGED <<cache, opVars, driverVars, clock, crashes>>
    BY <1>11, Zenon DEF RemoveFinalizer
  <2>2. api' \in VRC /\ watch' \in Seq(VRC) BY <2>1, <1>t, RemoveType DEF apiVars
  <2>3. faults' \in Nat /\ faults' + crashes' <= MaxDisturbed BY <2>1, <1>t, FaultType
  <2>4. pc' \in Pcs /\ w' \in VRC /\ wnew' \in Status
    BY <2>1, <1>t, ReturnType, NoVRCType DEF Pcs
  <2>5. queued' \in BOOLEAN /\ requeues' \in 0..MaxRetry BY <2>1, <1>t, ReturnType
  <2> QED BY <1>t, <2>1, <2>2, <2>3, <2>4, <2>5 DEF TypeOK, opVars, driverVars
<1> QED
  BY <1>1, <1>2, <1>3, <1>4, <1>5, <1>6, <1>7, <1>8, <1>9, <1>10, <1>11 DEF Worker

\* What syncRestoreStat makes of a status
LEMMA SyncType ==
    ASSUME TypeOK, NEW st \in Status
    PROVE  /\ SyncRestoreStat(st) \in Status
           /\ SyncRestoreStat(st).rs.run = st.rs.run
           /\ SyncRestoreStat(st).phase \in {"Completed", "Failed", st.phase}
<1> DEFINE now == IF st.rs.run = 0 THEN Untouched ELSE progress[st.rs.run]
           prog == [v \in Volumes |-> IF now[v] > st.rs.prog[v] THEN now[v] ELSE st.rs.prog[v]]
           stamp == IF prog # st.rs.prog THEN clock ELSE st.rs.stamp
           rs == [run |-> st.rs.run, prog |-> prog, stamp |-> stamp]
           ph == IF ProgressCompleted(prog) THEN "Completed"
                 ELSE IF ProgressTimeout(rs.stamp) THEN "Failed" ELSE st.phase
<1>1. /\ st.rs.run \in 0..MaxStarts /\ st.rs.prog \in [Volumes -> 0..Full]
      /\ st.rs.stamp \in 0..MaxPeriods /\ st.phase \in Phases
  BY DEF Status, RestoreState
<1>2. now \in [Volumes -> 0..Full]
  <2>1. progress \in [1..MaxStarts -> [Volumes -> 0..Full]] BY DEF TypeOK, Runs
  <2>2. st.rs.run # 0 => st.rs.run \in 1..MaxStarts BY <1>1, ServiceAssumption
  <2> QED BY <2>1, <2>2, NoVRCType
<1> HIDE DEF now
<1>3. prog \in [Volumes -> 0..Full] BY <1>1, <1>2
<1> HIDE DEF prog
<1>4. stamp \in 0..MaxPeriods BY <1>1 DEF TypeOK
<1> HIDE DEF stamp
<1>5. rs \in RestoreState /\ rs.run = st.rs.run BY <1>1, <1>3, <1>4 DEF RestoreState
<1>6. ph \in Phases /\ ph \in {"Completed", "Failed", st.phase} BY <1>1 DEF Phases
<1>7. SyncRestoreStat(st) = [phase |-> ph, rs |-> rs]
  BY Zenon DEF SyncRestoreStat, ph, rs, stamp, prog, now
<1> HIDE DEF ph, rs
<1> QED BY <1>5, <1>6, <1>7 DEF Status

\* What a step of the operation does to everything but the object
LEMMA OpGotoLeaves ==
    ASSUME NEW next, NEW b, NEW st, OpGoto(next, b, st)
    PROVE  /\ opc' = next /\ o' = b /\ onew' = st
           /\ UNCHANGED <<cache, queued, requeues, pc, w, wnew, starts, live, progress, clock,
                          crashes>>
BY DEF OpGoto, queueVars, workerVars, driverVars

\* A process that starts anew
LEMMA RestartType ==
    ASSUME TypeOK, Restart, api' \in VRC, faults' \in Nat, crashes' \in Nat,
           faults' + crashes' <= MaxDisturbed, UNCHANGED <<driverVars, clock>>
    PROVE  TypeOK'
<1>1. api'.rv \in Nat BY VRCFields
<1>2. /\ cache' \in VRC /\ watch' \in Seq(VRC) /\ processed' \in Nat /\ due' \in Nat
      /\ requeues' \in 0..MaxRetry
  BY ServiceAssumption DEF Restart
<1>3. queued' \in BOOLEAN
  <2>1. queued' = (api'.rv # 0) BY Zenon DEF Restart
  <2> QED BY <2>1, Zenon
<1>4. /\ w' \in VRC /\ wnew' \in Status /\ o' \in VRC /\ onew' \in Status
      /\ pc' \in Pcs /\ opc' \in OPcs
  BY NoVRCType DEF Restart, Idle, Pcs, OPcs
<1> QED BY <1>2, <1>3, <1>4 DEF TypeOK, driverVars

\* A restart after a patch that may or may not have been carried out
LEMMA PanicType ==
    ASSUME TypeOK, OpUpdatePanics
    PROVE  TypeOK'
<1>t. /\ api \in VRC /\ api.rv \in Nat /\ faults \in Nat /\ crashes \in Nat
      /\ faults + crashes <= MaxDisturbed /\ o.st \in Status /\ onew \in Status
  BY DEF TypeOK, VRC
<1> DEFINE b == Patched(o.st, onew)
<1>0. /\ UNCHANGED <<driverVars, clock, crashes>> /\ Restart
      /\ \/ UNCHANGED <<api, faults>>
         \/ Fault /\ api' \in {api, [b EXCEPT !.rv = @ + 1]}
  BY DEF OpUpdatePanics
<1>1. b \in VRC /\ b.rv = api.rv BY <1>t, PatchedType
<1> HIDE DEF b
<1>2. [b EXCEPT !.rv = @ + 1] \in VRC BY <1>1, <1>t DEF VRC
<1>3. api' \in VRC BY <1>0, <1>2, <1>t
<1>4. faults' \in Nat /\ crashes' \in Nat /\ faults' + crashes' <= MaxDisturbed
  BY <1>0, <1>t, FaultType
<1> QED BY <1>0, <1>3, <1>4, RestartType

\* Every step of the operation keeps the types.
LEMMA OperationType ==
    ASSUME TypeOK, Operation
    PROVE  TypeOK'
<1>t. /\ api \in VRC /\ watch \in Seq(VRC) /\ processed \in Nat /\ cache \in VRC
      /\ faults \in Nat /\ crashes \in Nat /\ faults + crashes <= MaxDisturbed
      /\ o \in VRC /\ o.st \in Status /\ cache.st \in Status /\ due \in Nat /\ api.rv \in Nat
  BY DEF TypeOK, VRC
<1>n. /\ NoVRC \in VRC /\ NoStatus \in Status /\ "Completed" \in Phases /\ "Failed" \in Phases
  BY NoVRCType DEF Phases
<1>1. ASSUME NEW next \in OPcs, NEW b \in VRC, NEW st \in Status, OpGoto(next, b, st),
             due' \in Nat, api' \in VRC, watch' \in Seq(VRC), processed' \in Nat,
             Fault \/ UNCHANGED faults
      PROVE  TypeOK'
  <2>1. /\ opc' = next /\ o' = b /\ onew' = st
        /\ UNCHANGED <<cache, queued, requeues, pc, w, wnew, starts, live, progress, clock,
                       crashes>>
    BY <1>1, OpGotoLeaves
  <2>2. faults' \in Nat /\ faults' + crashes' <= MaxDisturbed BY <1>1, <1>t, <2>1, FaultType
  <2> QED BY <1>1, <2>1, <2>2 DEF TypeOK
<1>2. ASSUME NEW b \in VRC, Commit(b) \/ UNCHANGED apiVars,
             StoreRevisionUpdate(api'.rv) \/ UNCHANGED processed
      PROVE  api' \in VRC /\ watch' \in Seq(VRC) /\ processed' \in Nat /\ api'.rv \in Nat
  <2>1. api' \in VRC /\ watch' \in Seq(VRC) /\ api'.rv \in Nat
    BY <1>2, <1>t, CommitStores DEF Stored, apiVars, VRC
  <2> QED BY <1>2, <1>t, <2>1, StoreRevisionType
<1>o. {"success", "stat", "tick", "update", "failure", "complete", "fail", "exit", "none"}
        \subseteq OPcs
  BY DEF OPcs
<1>s. ASSUME UNCHANGED apiVars
      PROVE  api' \in VRC /\ watch' \in Seq(VRC) /\ api'.rv \in Nat
  BY <1>s, <1>t DEF apiVars
<1>3. CASE OpTick
  <2>1. \/ OpGoto("success", NoVRC, NoStatus)
        \/ OpGoto("stat", cache, cache.st)
    BY <1>3, Zenon DEF OpTick
  <2>2. UNCHANGED <<apiVars, processed, due, faults>> BY <1>3 DEF OpTick
  <2> QED BY <2>1, <2>2, <1>1, <1>s, <1>t, <1>n, <1>o
<1>4. CASE OpStat
  <2>1. OpGoto("update", o, SyncRestoreStat(o.st)) BY <1>4 DEF OpStat
  <2>2. UNCHANGED <<apiVars, processed, due, faults>> BY <1>4 DEF OpStat
  <2> QED BY <2>1, <2>2, <1>1, <1>s, <1>t, <1>o, SyncType
<1>5. CASE OpStatFails
  <2>1. \/ OpGoto("tick", NoVRC, NoStatus) /\ due' = api.rv
        \/ OpGoto("failure", NoVRC, NoStatus) /\ UNCHANGED due
    BY <1>5, Zenon DEF OpStatFails
  <2>2. UNCHANGED <<apiVars, processed>> /\ Fault BY <1>5 DEF OpStatFails
  <2> QED BY <2>1, <2>2, <1>1, <1>s, <1>t, <1>n, <1>o
<1>6. CASE OpUpdate
  <2> DEFINE b == Patched(o.st, onew)
  <2>1. b \in VRC BY PhasePatchType, <1>n
  <2>2. /\ Commit(b) /\ StoreRevisionUpdate(api'.rv) /\ UNCHANGED faults
        /\ \E next \in {"success", "tick"} : OpGoto(next, NoVRC, NoStatus)
        /\ due' = due \/ due' = api'.rv
    BY <1>6, Zenon DEF OpUpdate
  <2> HIDE DEF b
  <2>3. api' \in VRC /\ watch' \in Seq(VRC) /\ processed' \in Nat /\ api'.rv \in Nat
    BY <2>1, <2>2, <1>2
  <2> QED BY <2>2, <2>3, <1>1, <1>t, <1>n, <1>o
<1>7. ASSUME NEW at \in OPcs, NEW next \in OPcs, OpOutcome(at, next)
      PROVE  TypeOK'
  <2>1. \/ OpGoto("exit", NoVRC, NoStatus)
        \/ OpGoto(next, cache, cache.st)
    BY <1>7, Zenon DEF OpOutcome
  <2>2. UNCHANGED <<apiVars, processed, due, faults>> BY <1>7 DEF OpOutcome
  <2> QED BY <2>1, <2>2, <1>1, <1>s, <1>t, <1>n, <1>o
<1>8. ASSUME NEW at \in OPcs, NEW ph \in Phases, OpRecord(at, ph)
      PROVE  TypeOK'
  <2> DEFINE b == Patched(o.st, [o.st EXCEPT !.phase = ph])
  <2>1. b \in VRC BY PhasePatchType
  <2>2. /\ Commit(b) \/ UNCHANGED apiVars
        /\ StoreRevisionUpdate(api'.rv) \/ UNCHANGED processed
        /\ Fault \/ UNCHANGED faults
        /\ OpGoto("exit", NoVRC, NoStatus)
        /\ due' = due
    BY <1>8, Zenon DEF OpRecord
  <2> HIDE DEF b
  <2>3. api' \in VRC /\ watch' \in Seq(VRC) /\ processed' \in Nat BY <2>1, <2>2, <1>2
  <2> QED BY <2>2, <2>3, <1>1, <1>t, <1>n, <1>o
<1>9. CASE OpExit
  <2>1. OpGoto("none", NoVRC, NoStatus) BY <1>9 DEF OpExit
  <2>2. UNCHANGED <<apiVars, processed, faults>> /\ due' = 0 BY <1>9 DEF OpExit
  <2> QED BY <2>1, <2>2, <1>1, <1>s, <1>t, <1>n, <1>o
<1>10. /\ "success" \in OPcs /\ "complete" \in OPcs /\ "failure" \in OPcs /\ "fail" \in OPcs
  BY <1>o
<1> QED BY <1>3, <1>4, <1>5, <1>6, <1>7, <1>8, <1>9, <1>10, <1>n, PanicType DEF Operation

\* Every other step keeps the types.
LEMMA EnvironmentType ==
    ASSUME TypeOK,
           \/ Informer \/ ReSync \/ AnnotateVRC \/ DeleteVRC \/ DriverProgress \/ TimePasses \/ Crash
           \/ UNCHANGED vars
    PROVE  TypeOK'
<1>t. api \in VRC /\ watch \in Seq(VRC) /\ queued \in BOOLEAN BY DEF TypeOK
<1>1. CASE Informer
  <2>1. cache' \in VRC /\ watch' \in Seq(VRC) BY <1>1, <1>t DEF Informer
  <2>2. queued' \in BOOLEAN BY <1>1, Zenon DEF Informer
  <2> QED BY <1>1, <2>1, <2>2 DEF Informer, TypeOK, workerVars, opVars, driverVars
<1>2. CASE ReSync
  BY <1>2 DEF ReSync, TypeOK, apiVars, workerVars, opVars, driverVars
<1>3. CASE AnnotateVRC
  <2> DEFINE b == [api EXCEPT !.clean = TRUE]
  <2>1. b \in VRC /\ Commit(b) BY <1>3, <1>t DEF AnnotateVRC, VRC
  <2> HIDE DEF b
  <2>2. api' \in VRC /\ watch' \in Seq(VRC) BY <2>1, <1>t, CommitStores DEF Stored
  <2> QED BY <1>3, <2>2 DEF AnnotateVRC, EnvUnchanged, TypeOK, queueVars, workerVars, opVars, driverVars
<1>4. CASE DeleteVRC
  <2> DEFINE b == [api EXCEPT !.del = TRUE]
  <2>1. b \in VRC /\ (Commit(b) \/ Remove) BY <1>4, <1>t DEF DeleteVRC, VRC
  <2> HIDE DEF b
  <2>2. api' \in VRC /\ watch' \in Seq(VRC)
    BY <2>1, <1>t, CommitStores, RemoveType DEF Stored
  <2> QED
    BY <1>4, <2>2 DEF DeleteVRC, EnvUnchanged, TypeOK, queueVars, workerVars, opVars, driverVars
<1>5. CASE DriverProgress
  <2>1. PICK r \in live, v \in Volumes :
            progress[r][v] < Full /\ progress' = [progress EXCEPT ![r][v] = @ + 1]
    BY <1>5 DEF DriverProgress
  <2>2. r \in Runs /\ progress \in [Runs -> [Volumes -> 0..Full]]
    BY ServiceAssumption DEF TypeOK, Runs
  <2>3. progress[r] \in [Volumes -> 0..Full] /\ progress[r][v] + 1 \in 0..Full
    BY <2>1, <2>2, ServiceAssumption
  <2>4. [progress[r] EXCEPT ![v] = @ + 1] \in [Volumes -> 0..Full] BY <2>3
  <2>5. progress' \in [Runs -> [Volumes -> 0..Full]] BY <2>1, <2>2, <2>4
  <2> QED
    BY <1>5, <2>5 DEF DriverProgress, EnvUnchanged, TypeOK, apiVars, queueVars, workerVars, opVars
<1>6. CASE TimePasses
  <2>1. clock' \in 0..MaxPeriods BY <1>6, ServiceAssumption DEF TimePasses, TypeOK
  <2> QED
    BY <1>6, <2>1 DEF TimePasses, EnvUnchanged, TypeOK, apiVars, queueVars, workerVars, opVars,
       driverVars
<1>7. CASE Crash
  <2>1. faults' \in Nat /\ crashes' \in Nat /\ faults' + crashes' <= MaxDisturbed
    BY <1>7, ServiceAssumption DEF Crash, TypeOK
  <2>2. api' = api /\ Restart /\ UNCHANGED <<driverVars, clock>> BY <1>7 DEF Crash
  <2> QED BY <1>t, <2>1, <2>2, RestartType
<1>8. CASE UNCHANGED vars BY <1>8 DEF vars, TypeOK
<1> QED BY <1>1, <1>2, <1>3, <1>4, <1>5, <1>6, <1>7, <1>8

\* Every step keeps the types.
LEMMA NextType ==
    ASSUME TypeOK, [Next]_vars
    PROVE  TypeOK'
BY WorkerType, OperationType, EnvironmentType DEF Next

\* The initial states have the right types.
LEMMA InitType ==
    ASSUME Init
    PROVE  TypeOK
<1>1. api \in VRC BY NoVRCType DEF Init, VRC
<1>2. watch \in Seq(VRC) BY <1>1 DEF Init
<1>3. /\ cache \in VRC /\ w \in VRC /\ o \in VRC /\ wnew \in Status /\ onew \in Status
      /\ pc \in Pcs /\ opc \in OPcs
  BY NoVRCType DEF Init, Pcs, OPcs
<1>4. queued \in BOOLEAN BY Zenon DEF Init
<1>5. /\ requeues \in 0..MaxRetry /\ processed \in Nat /\ due \in Nat /\ starts \in 0..MaxStarts
      /\ live \in SUBSET (1..starts) /\ clock \in 0..MaxPeriods /\ faults \in Nat
      /\ crashes \in Nat /\ faults + crashes <= MaxDisturbed
  BY ServiceAssumption DEF Init
<1>6. progress \in [Runs -> [Volumes -> 0..Full]] BY NoVRCType DEF Init
<1> QED BY <1>1, <1>2, <1>3, <1>4, <1>5, <1>6 DEF TypeOK

\* Type correctness: the object, its copies, the driver's runs and the progress have the
\* values the code gives them.
THEOREM TypeCorrect == Spec => []TypeOK
<1>1. Init => TypeOK BY InitType
<1>2. TypeOK /\ [Next]_vars => TypeOK' BY NextType
<1> QED BY <1>1, <1>2, PTL DEF Spec
-----------------------------------------------------------------------------
(* The server, its events and the lister                                       *)

\* A new revision: finalizer and deletion stay, and under deletion the annotation too.
Revised ==
    /\ api.rv # 0 /\ api'.rv = api.rv + 1
    /\ (api.fin => api'.fin) /\ (api.del => api'.del /\ api'.clean = api.clean)

\* What a step may do to the object and its copies: nothing; a new revision; a removal;
\* the delivery of an event; a process that starts anew and may just have written.
Server ==
    \/ UNCHANGED <<api, watch, cache>>
    \/ Revised /\ watch' = Append(watch, api') /\ cache' = cache
    \/ api' = NoVRC /\ watch' = Append(watch, NoVRC) /\ cache' = cache
    \/ watch # <<>> /\ api' = api /\ cache' = Head(watch) /\ watch' = Tail(watch)
    \/ (api' = api \/ Revised) /\ cache' = api' /\ watch' = <<>>

\* The copies the lister may come to see are objects.
LEMMA ArrivingType == TypeOK => Arriving \subseteq VRC
BY DEF TypeOK, Arriving

\* What the lister may come to see after a step it may have seen before, or is the
\* stored object.
LEMMA ArrivingNext ==
    ASSUME TypeOK, TypeOK', Server
    PROVE  Arriving' \subseteq Arriving \cup {api'}
<1>t. watch \in Seq(VRC) /\ watch' \in Seq(VRC) BY DEF TypeOK
<1>1. CASE cache' = cache /\ watch' = watch BY <1>1 DEF Arriving
<1>2. CASE cache' = cache /\ watch' = Append(watch, api') BY <1>t, <1>2 DEF Arriving
<1>3. CASE watch # <<>> /\ cache' = Head(watch) /\ watch' = Tail(watch)
  <2>1. cache' = watch[1] /\ 1 \in DOMAIN watch BY <1>t, <1>3
  <2>2. \A i \in DOMAIN watch' : i + 1 \in DOMAIN watch /\ watch'[i] = watch[i + 1]
    BY <1>t, <1>3
  <2> QED BY <2>1, <2>2 DEF Arriving
<1>4. CASE cache' = api' /\ watch' = <<>> BY <1>4 DEF Arriving
<1> QED BY <1>1, <1>2, <1>3, <1>4, NoVRCType DEF Server

\* Copies stay behind the stored object.
LEMMA ServerKeeps ==
    ASSUME TypeOK, TypeOK', CopiesBehind, Server, api'.rv # 0 => processed' <= api'.rv
    PROVE  CopiesBehind'
<1>t. api \in VRC /\ api' \in VRC /\ api.rv \in Nat /\ api'.rv \in Nat
  BY VRCFields DEF TypeOK
<1>a. Arriving' \subseteq Arriving \cup {api'} /\ Arriving \subseteq VRC
  BY ArrivingNext, ArrivingType
<1>b. \A c \in Arriving : c.rv \in Nat BY <1>a, VRCFields
<1> SUFFICES ASSUME api'.rv # 0, NEW c \in Arriving'
             PROVE  c.rv <= api'.rv /\ (c.del => api'.del) /\ (c.del /\ api'.clean => c.clean)
  BY DEF CopiesBehind
<1>1. c = api' \/ c \in Arriving BY <1>a
<1>2. CASE c = api' BY <1>2, <1>t
<1>3. CASE c \in Arriving
  <2>1. /\ api.rv # 0 /\ api.rv <= api'.rv
        /\ (api.del => api'.del /\ api'.clean = api.clean)
    BY <1>t, NoVRCType DEF Server, Revised
  <2> QED BY <1>3, <2>1, <1>t, <1>b DEF CopiesBehind
<1> QED BY <1>1, <1>2, <1>3

\* A write of the server is one of its steps.
LEMMA StoredServer ==
    ASSUME TypeOK, api.rv # 0, NEW b \in VRC, Stored(b), cache' = cache,
           api.fin => b.fin, api.del => b.del /\ b.clean = api.clean
    PROVE  /\ Server /\ api'.rv # 0 /\ api'.rv >= api.rv /\ api'.rv \in Nat /\ api.rv \in Nat
           /\ api'.st = b.st /\ api'.fin = b.fin /\ api'.del = b.del /\ api'.clean = b.clean
           /\ api' = api \/ api'.rv > api.rv
BY DEF Stored, Server, Revised, TypeOK, VRC

-----------------------------------------------------------------------------
(* Steps                                                                       *)

\* A step that starts nothing, neither creates nor removes the object, and leaves it with
\* a status that tells as much as before.
Steady ==
    /\ Server
    /\ starts' = starts /\ live' \subseteq live
    /\ Disturbances' >= Disturbances
    /\ api'.rv = 0 <=> api.rv = 0
    /\ api'.rv # 0 => processed' <= api'.rv
    /\ (api.fin => api'.fin) /\ (api.del => api'.del /\ api'.clean = api.clean)
    /\ HandlesKnown(api.st)'

\* Disturbances are counted, and only ever more.
LEMMA DisturbancesType == TypeOK => Disturbances \in Nat /\ starts \in Nat
BY ServiceAssumption DEF TypeOK, Disturbances

\* A sum of natural numbers
LEMMA SumType ==
    \A a, b \in Nat : a + b \in Nat /\ (a + 1) + b = (a + b) + 1 /\ a + (b + 1) = (a + b) + 1
OBVIOUS

\* What a step makes of the count
LEMMA DisturbancesNext ==
    ASSUME TypeOK, TypeOK'
    PROVE  /\ Disturbances \in Nat /\ Disturbances' \in Nat
           /\ UNCHANGED <<faults, crashes>> => Disturbances' = Disturbances
           /\ Fault /\ UNCHANGED crashes => Disturbances' = Disturbances + 1
           /\ UNCHANGED faults /\ crashes' = crashes + 1 => Disturbances' = Disturbances + 1
<1>1. faults \in Nat /\ crashes \in Nat /\ faults' \in Nat /\ crashes' \in Nat BY DEF TypeOK
<1>2. Disturbances \in Nat BY <1>1 DEF Disturbances
<1>3. Disturbances' \in Nat BY <1>1, SumType, Zenon DEF Disturbances
<1>4. ASSUME UNCHANGED <<faults, crashes>> PROVE Disturbances' = Disturbances
  BY <1>4 DEF Disturbances
<1>5. ASSUME faults' = faults + 1, crashes' = crashes PROVE Disturbances' = Disturbances + 1
  BY <1>1, <1>5, SumType, Zenon DEF Disturbances
<1>6. ASSUME faults' = faults, crashes' = crashes + 1 PROVE Disturbances' = Disturbances + 1
  BY <1>1, <1>6, SumType, Zenon DEF Disturbances
<1> QED BY <1>2, <1>3, <1>4, <1>5, <1>6 DEF Fault

\* Fewer runs fit into a smaller number.
LEMMA LiveBound ==
    ASSUME TypeOK
    PROVE  /\ IsFiniteSet(live) /\ Cardinality(live) \in Nat /\ Cardinality(live) <= starts
           /\ \A l \in SUBSET live : IsFiniteSet(l) /\ Cardinality(l) <= Cardinality(live)
           /\ \A r \in 1..starts : r \notin live => Cardinality(live) <= starts - 1
<1>1. starts \in Nat /\ live \subseteq 1..starts BY ServiceAssumption DEF TypeOK
<1>2. IsFiniteSet(1..starts) /\ Cardinality(1..starts) = starts BY <1>1, FS_Interval
<1>3. IsFiniteSet(live) /\ Cardinality(live) <= starts BY <1>1, <1>2, FS_Subset
<1>4. \A l \in SUBSET live : IsFiniteSet(l) /\ Cardinality(l) <= Cardinality(live)
  BY <1>3, FS_Subset
<1>5. ASSUME NEW r \in 1..starts, r \notin live
      PROVE  Cardinality(live) <= starts - 1
  <2>1. /\ IsFiniteSet((1..starts) \ {r})
        /\ Cardinality((1..starts) \ {r}) = Cardinality(1..starts) - 1
    BY <1>2, FS_RemoveElement
  <2>2. live \subseteq (1..starts) \ {r} BY <1>1, <1>5
  <2>3. Cardinality(live) <= Cardinality((1..starts) \ {r}) BY <2>1, <2>2, FS_Subset
  <2> QED BY <1>2, <2>1, <2>3
<1> QED BY <1>3, <1>4, <1>5, FS_CardinalityType

\* A steady step keeps the invariant if it is right about the worker and the operation,
\* and if every copy that is not older than the stored revision is settled.
LEMMA SteadyKeeps ==
    ASSUME IInv, TypeOK', Steady, WorkerHolds', OperationHolds',
           pc' = "created" => pc = "created",
           api'.rv # 0 /\ pc' # "created" =>
               \A c \in Arriving \cup {api'} : c.rv # 0 /\ c.rv >= processed' => Settled(c.st)'
    PROVE  IInv'
<1>t. /\ starts \in Nat /\ Disturbances \in Nat /\ Disturbances' \in Nat
      /\ processed \in Nat /\ processed' \in Nat
  BY DisturbancesType, DisturbancesNext DEF IInv, TypeOK
<1>a. Arriving' \subseteq Arriving \cup {api'} /\ Arriving \subseteq VRC
  BY ArrivingNext, ArrivingType DEF IInv, Steady
<1>b. Copies' \subseteq Arriving \cup {api'} BY <1>a DEF Copies
<1>1. CopiesBehind' BY ServerKeeps DEF IInv, Steady
<1>2. FinalizerFirst'
  <2>1. starts' > 0 => api'.rv = 0 \/ api'.fin BY DEF IInv, FinalizerFirst, Steady
  <2>2. api'.rv = 0 => ~api'.clean
    BY NoVRCType DEF IInv, FinalizerFirst, Steady, Server, Revised
  <2> QED BY <2>1, <2>2 DEF FinalizerFirst
<1>3. CopiesSettled'
  <2>1. ASSUME NEW c \in Arriving PROVE HandlesKnown(c.st)'
    <3>1. c.st.rs.run \in Nat BY <1>a, VRCFields
    <3>2. HandlesKnown(c.st) BY DEF IInv, CopiesSettled, Copies
    <3> QED BY <3>1, <3>2, <1>t DEF HandlesKnown, Recorded, Steady
  <2>2. \A c \in Copies' : HandlesKnown(c.st)'
    <3> SUFFICES ASSUME NEW c \in Copies' PROVE HandlesKnown(c.st)' OBVIOUS
    <3>1. CASE c \in Arriving BY <3>1, <2>1
    <3>2. CASE c = api' BY <3>2 DEF Steady, HandlesKnown, Recorded
    <3> QED BY <3>1, <3>2, <1>b
  <2>3. api'.rv # 0 /\ pc' # "created" =>
            \A c \in Copies' : c.rv # 0 /\ c.rv >= processed' => Settled(c.st)'
    BY <1>b
  <2> QED BY <2>2, <2>3 DEF CopiesSettled
<1>s. starts' = starts /\ Disturbances' >= Disturbances BY DEF Steady
<1>4. StartsPaidFor'
  <2>1. StartsPaidFor BY DEF IInv
  <2>2. PICK d \in Nat : d = Disturbances' BY <1>t
  <2>3. d >= Disturbances BY <2>2, <1>s
  <2>4. starts <= 1 + d BY <2>1, <2>3, <1>t DEF StartsPaidFor
  <2> QED BY <2>2, <2>4, <1>s, Zenon DEF StartsPaidFor
<1> QED BY <1>1, <1>2, <1>3, <1>4 DEF IInv

\* A step that was paid for: everything is settled after it.
LEMMA PaidSettles ==
    ASSUME IInv, TypeOK', starts' = starts, Disturbances' > Disturbances
    PROVE  \A st : Settled(st)'
<1>t. starts \in Nat /\ Disturbances \in Nat /\ Disturbances' \in Nat
  BY DisturbancesType, DisturbancesNext DEF IInv
<1>1. StartsPaidFor BY DEF IInv
<1>2. starts' <= Disturbances' BY <1>1, <1>t DEF StartsPaidFor
<1> QED BY <1>2 DEF Settled

\* Outside of "created" a step that costs nothing and does not unsettle the stored object
\* leaves the copies settled.
LEMMA CopiesStaySettled ==
    ASSUME IInv, TypeOK', Steady, pc # "created", processed' >= processed \/ processed' = processed,
           Settled(api.st) => Settled(api.st)'
    PROVE  api'.rv # 0 =>
               \A c \in Arriving \cup {api'} : c.rv # 0 /\ c.rv >= processed' => Settled(c.st)'
<1>t. /\ starts \in Nat /\ Disturbances \in Nat /\ Disturbances' \in Nat
      /\ processed \in Nat /\ processed' \in Nat /\ api.rv \in Nat
  BY DisturbancesType, DisturbancesNext, VRCFields DEF IInv, TypeOK
<1>a. \A c \in Arriving : c.rv \in Nat BY ArrivingType, VRCFields DEF IInv
<1> SUFFICES ASSUME api'.rv # 0, NEW c \in Arriving \cup {api'}, c.rv # 0, c.rv >= processed'
             PROVE  Settled(c.st)'
  OBVIOUS
<1>0. api.rv # 0 /\ processed <= api.rv BY DEF Steady, IInv, CopiesBehind
<1>1. CASE c \in Arriving
  <2>1. c.rv >= processed BY <1>1, <1>a, <1>t
  <2>2. Settled(c.st) BY <1>0, <1>1, <2>1 DEF IInv, CopiesSettled, Copies
  <2>3. starts' = starts /\ Disturbances' >= Disturbances BY DEF Steady
  <2> QED BY <2>2, <2>3, <1>t DEF Settled
<1>2. CASE c = api'
  <2>1. Settled(api.st) BY <1>0, <1>t DEF IInv, CopiesSettled, Copies
  <2> QED BY <1>2, <2>1 DEF Settled
<1> QED BY <1>1, <1>2

\* A handler that ends leaves nothing to be right about.
LEMMA IdleHolds ==
    ASSUME TypeOK', pc' = "idle", w' = NoVRC
    PROVE  WorkerHolds'
<1>1. w'.st.rs.run = 0 /\ w'.st.phase = "unset" BY NoVRCType
<1>2. starts' \in Nat BY ServiceAssumption DEF TypeOK
<1> QED BY <1>1, <1>2 DEF WorkerHolds, HandlesKnown, Recorded

\* The operation is not concerned when it does nothing and nothing is started.
LEMMA OperationRests ==
    ASSUME IInv, UNCHANGED <<opc, o, onew>>, Recorded' >= Recorded, Recorded' \in Nat
    PROVE  OperationHolds'
<1>1. /\ o.st.rs.run \in Nat /\ onew.rs.run \in Nat /\ Recorded \in Int
  BY VRCFields, ServiceAssumption DEF IInv, TypeOK, Status, RestoreState, Recorded
<1> QED BY <1>1 DEF IInv, OperationHolds, HandlesKnown
\* What a worker or the operation may write: finalizer, deletion and handles are kept.
Writable(b) ==
    /\ api.fin => b.fin
    /\ api.del => b.del
    /\ b.clean = api.clean
    /\ b.st.rs.run <= starts
    /\ b.st.phase = "InProgress" => b.st.rs.run # 0

\* A patch of the worker that fails, carried out or not
LEMMA PatchFails ==
    ASSUME IInv, TypeOK', NEW b \in VRC, Writable(b), pc = "created" => api.rv # 0,
           \/ api.rv = 0 /\ UNCHANGED <<api, watch, faults>>
           \/ api.rv # 0 /\ Fault /\ (UNCHANGED <<api, watch>> \/ Stored(b)),
           pc' = "idle", w' = NoVRC,
           UNCHANGED <<processed, cache, crashes, opc, o, onew, starts, live>>
    PROVE  IInv'
<1>y. TypeOK BY DEF IInv
<1>u. /\ starts \in Nat /\ api \in VRC /\ api.rv \in Nat /\ api.st.rs.run \in Nat
      /\ processed \in Nat
  BY <1>y, DisturbancesType, VRCFields DEF TypeOK
<1>t. TypeOK /\ api \in VRC /\ starts \in Nat /\ api.rv \in Nat /\ api.st.rs.run \in Nat
      /\ processed \in Nat
  BY <1>y, <1>u
<1>d. /\ Disturbances \in Nat /\ Disturbances' \in Nat
      /\ UNCHANGED <<faults, crashes>> => Disturbances' = Disturbances
      /\ Fault /\ UNCHANGED crashes => Disturbances' = Disturbances + 1
  BY <1>t, DisturbancesNext
<1>r. Recorded' = starts /\ Recorded <= starts /\ Recorded \in Int BY <1>t DEF Recorded
<1>k. HandlesKnown(api.st) /\ (api.rv # 0 => processed <= api.rv)
  BY DEF IInv, CopiesSettled, Copies, CopiesBehind
<1>1. OperationHolds' BY <1>r, <1>t, OperationRests
<1>2. WorkerHolds' BY IdleHolds
<1>3. CASE UNCHANGED <<api, watch>>
  <2>1. HandlesKnown(api.st)' BY <1>3, <1>k, <1>r, <1>t DEF HandlesKnown
  <2>2. Disturbances' >= Disturbances BY <1>d
  <2>3. Steady BY <1>3, <1>k, <2>1, <2>2 DEF Steady, Server
  <2>4. CASE Fault
    <3>1. Disturbances' > Disturbances BY <2>4, <1>d
    <3>2. \A st : Settled(st)' BY <3>1, PaidSettles
    <3> QED BY <3>2, <2>3, <1>1, <1>2, SteadyKeeps
  <2>5. CASE api.rv = 0 BY <2>5, <1>3, <2>3, <1>1, <1>2, SteadyKeeps
  <2> QED BY <2>4, <2>5
<1>4. CASE api.rv # 0 /\ Fault /\ Stored(b)
  <2>1. /\ Server /\ api'.rv # 0 /\ api'.rv >= api.rv /\ api'.rv \in Nat
        /\ api'.st = b.st /\ api'.fin = b.fin /\ api'.del = b.del /\ api'.clean = b.clean
    BY <1>4, <1>t, StoredServer DEF Writable
  <2>2. HandlesKnown(api.st)' BY <2>1, <1>r DEF HandlesKnown, Writable
  <2>3. Disturbances' > Disturbances BY <1>4, <1>d
  <2>4. Disturbances' >= Disturbances BY <1>4, <1>d
  <2>5. processed' <= api'.rv BY <2>1, <1>4, <1>k, <1>t
  <2>6. Steady BY <1>4, <2>1, <2>2, <2>4, <2>5 DEF Steady, Writable
  <2>7. \A st : Settled(st)' BY <2>3, PaidSettles
  <2> QED BY <2>6, <2>7, <1>1, <1>2, SteadyKeeps
<1> QED BY <1>3, <1>4

\* A patch of the worker that succeeds: its copy is the stored object.
LEMMA PatchSucceeds ==
    ASSUME IInv, TypeOK', NEW b \in VRC, Writable(b), api.rv # 0, Stored(b),
           StoreRevisionUpdate(api'.rv),
           pc' \in {"init", "switch", "run", "idle"},
           IF pc' = "idle" THEN w' = NoVRC ELSE w' = api',
           pc' # "idle" => b.fin,
           IF pc = "created" THEN b.st.phase \notin {"unset", "New"} /\ b.st.rs.run # 0
                                  /\ b.st.rs.run # api.st.rs.run
           ELSE Settled(api.st) => Settled(b.st),
           UNCHANGED <<faults, cache, crashes, opc, o, onew, starts, live>>
    PROVE  IInv'
<1>y. TypeOK BY DEF IInv
<1>u. /\ starts \in Nat /\ api \in VRC /\ api.rv \in Nat /\ api.st.rs.run \in Nat
      /\ processed \in Nat
  BY <1>y, DisturbancesType, VRCFields DEF TypeOK
<1>t. TypeOK /\ api \in VRC /\ starts \in Nat /\ api.rv \in Nat /\ api.st.rs.run \in Nat
      /\ processed \in Nat
  BY <1>y, <1>u
<1>d. Disturbances' = Disturbances /\ Disturbances \in Nat BY <1>t, DisturbancesNext
<1>e. Disturbances' >= Disturbances BY <1>d
<1>r. Recorded' = starts /\ Recorded <= starts /\ Recorded \in Int BY <1>t DEF Recorded
<1>k. processed <= api.rv BY DEF IInv, CopiesBehind
<1>0. /\ Server /\ api'.rv # 0 /\ api'.rv >= api.rv /\ api'.rv \in Nat
      /\ api'.st = b.st /\ api'.fin = b.fin /\ api'.del = b.del /\ api'.clean = b.clean
      /\ api' = api \/ api'.rv > api.rv
  BY <1>t, StoredServer DEF Writable
<1>1. processed' = api'.rv
  BY <1>0, <1>k, <1>t DEF StoreRevisionUpdate
<1>2. HandlesKnown(api.st)' BY <1>0, <1>r DEF HandlesKnown, Writable
<1>3. processed' <= api'.rv /\ processed' >= processed BY <1>0, <1>1, <1>k, <1>t
<1>4. Steady BY <1>0, <1>2, <1>3, <1>e DEF Steady, Writable
<1>5. OperationHolds' BY <1>r, <1>t, OperationRests
<1>6. \A c \in Arriving \cup {api'} : c.rv # 0 /\ c.rv >= processed' => Settled(c.st)'
  <2>1. CASE pc = "created"
    <3>1. \A c \in Arriving : c.rv \in Nat /\ c.rv <= api.rv
      BY <1>t, ArrivingType, VRCFields DEF IInv, CopiesBehind
    <3>2. api'.rv > api.rv BY <1>0, <2>1
    <3>3. \A c \in Arriving : ~(c.rv >= processed') BY <3>1, <3>2, <1>0, <1>1, <1>t
    <3>4. Settled(api.st)' BY <2>1, <1>0 DEF Settled
    <3> QED BY <3>3, <3>4
  <2>2. CASE pc # "created"
    <3>1. Settled(b.st) => Settled(b.st)' BY <1>d DEF Settled
    <3>2. Settled(api.st) => Settled(api.st)' BY <2>2, <3>1, <1>0
    <3> QED BY <2>2, <3>2, <1>0, <1>3, <1>4, CopiesStaySettled
  <2> QED BY <2>1, <2>2
<1>7. WorkerHolds'
  <2>1. CASE pc' = "idle" BY <2>1, IdleHolds
  <2>2. CASE pc' # "idle"
    <3>1. w' = api' /\ HandlesKnown(w.st)' BY <2>2, <1>2
    <3>2. Settled(w.st)' BY <2>2, <1>0, <1>1, <1>6
    <3> QED BY <3>1, <3>2, <1>0, <2>2 DEF WorkerHolds
  <2> QED BY <2>1, <2>2
<1> QED BY <1>4, <1>5, <1>6, <1>7, SteadyKeeps
\* A patch that sets another phase than InProgress and leaves the progress alone
LEMMA PhaseWritable ==
    ASSUME IInv, NEW st \in Status, NEW ph \in Phases, ph # "InProgress"
    PROVE  LET b == Patched(st, [st EXCEPT !.phase = ph]) IN
           /\ b \in VRC /\ Writable(b) /\ b.fin = api.fin /\ b.del = api.del
           /\ b.clean = api.clean
           /\ b.st.rs = api.st.rs
           /\ b.st.phase = IF ph # st.phase THEN ph ELSE api.st.phase
<1> DEFINE new == [st EXCEPT !.phase = ph]
           b   == Patched(st, new)
<1>y. TypeOK BY DEF IInv
<1>1. api \in VRC /\ starts \in Nat BY <1>y, DisturbancesType DEF TypeOK
<1>2. new \in Status /\ new.phase = ph /\ new.rs = st.rs BY PhaseType
<1> HIDE DEF new
<1>3. /\ b \in VRC /\ b.rv = api.rv /\ b.fin = api.fin /\ b.del = api.del
      /\ b.clean = api.clean
      /\ b.st.rs = api.st.rs
      /\ b.st.phase = IF ph # st.phase THEN ph ELSE api.st.phase
  BY <1>1, <1>2, PatchedType
<1> HIDE DEF b
<1>4. HandlesKnown(api.st) BY DEF IInv, CopiesSettled, Copies
<1>5. Recorded <= starts /\ Recorded \in Int BY <1>1 DEF Recorded
<1>6. api.st.rs.run \in Nat BY <1>1, VRCFields
<1>7. Writable(b)
  <2>1. b.st.rs.run <= starts BY <1>3, <1>4, <1>5, <1>6, <1>1 DEF HandlesKnown
  <2>2. b.st.phase = "InProgress" => b.st.rs.run # 0 BY <1>3, <1>4 DEF HandlesKnown
  <2> QED BY <1>3, <2>1, <2>2 DEF Writable
<1> QED BY <1>3, <1>7 DEF b, new

\* A step that leaves object, events and lister alone and starts nothing
LEMMA StillKeeps ==
    ASSUME IInv, TypeOK', UNCHANGED <<api, watch, cache, starts>>, live' \subseteq live,
           Disturbances' >= Disturbances, processed' >= processed,
           api.rv # 0 => processed' <= api.rv,
           pc' = "created" <=> pc = "created", WorkerHolds', OperationHolds'
    PROVE  IInv'
<1>y. TypeOK BY DEF IInv
<1>1. HandlesKnown(api.st) BY DEF IInv, CopiesSettled, Copies
<1>2. Recorded' = Recorded BY DEF Recorded
<1>3. HandlesKnown(api.st)' BY <1>1, <1>2 DEF HandlesKnown
<1>4. Steady BY <1>3 DEF Steady, Server
<1>5. CASE pc = "created" BY <1>4, <1>5, SteadyKeeps
<1>6. CASE pc # "created"
  <2>1. PICK d \in Nat : d = Disturbances' BY <1>y, DisturbancesNext
  <2>2. d >= Disturbances /\ Disturbances \in Nat /\ starts \in Nat
    BY <2>1, <1>y, DisturbancesType
  <2>3. Settled(api.st) => starts <= d \/ (api.st.phase \notin {"unset", "New"} /\ api.st.rs.run # 0)
    BY <2>2 DEF Settled
  <2>4. Settled(api.st) => Settled(api.st)' BY <2>1, <2>3 DEF Settled
  <2> QED BY <1>4, <1>6, <2>4, CopiesStaySettled, SteadyKeeps
<1> QED BY <1>5, <1>6

\* A step without a call ends the handler or passes the copy on.
LEMMA LocalSteps ==
    ASSUME NEW next, Local(next)
    PROVE  /\ UNCHANGED <<api, watch, cache, processed, opc, o, onew, starts, live, faults, crashes>>
           /\ IF next \in {"return", "error"} THEN pc' = "idle" /\ w' = NoVRC
                                             ELSE pc' = next /\ w' = w
BY LocalOutcomes DEF Return, ReturnErr, Idle, Goto, apiVars, opVars, driverVars

\* A step of the worker that leaves everything else alone keeps the invariant if it is
\* right about the worker.
LEMMA WorkerMoves ==
    ASSUME IInv, TypeOK', UNCHANGED <<api, watch, cache, processed, opc, o, onew, starts>>,
           live' \subseteq live, Fault \/ UNCHANGED faults, UNCHANGED crashes,
           pc # "created", pc' # "created", WorkerHolds'
    PROVE  IInv'
<1>y. TypeOK BY DEF IInv
<1>1. Disturbances' >= Disturbances BY <1>y, DisturbancesNext
<1>2. processed' >= processed /\ (api.rv # 0 => processed' <= api.rv)
  BY <1>y DEF IInv, CopiesBehind, TypeOK
<1>3. Recorded = starts /\ Recorded' = starts BY DEF Recorded
<1>4. starts \in Nat BY <1>y, DisturbancesType
<1>5. OperationHolds' BY <1>3, <1>4, OperationRests
<1> QED BY <1>1, <1>2, <1>5, StillKeeps

\* What the worker knows stays true while the object does not change.
LEMMA WorkerKnows ==
    ASSUME IInv, TypeOK', UNCHANGED <<api, watch, cache, starts>>, Disturbances' >= Disturbances,
           pc # "created", pc' # "created", w' = w
    PROVE  /\ HandlesKnown(w.st)'
           /\ api.rv # 0 /\ pc \notin {"idle", "run"} => Settled(w.st)'
           /\ Copies' = Copies
<1>y. TypeOK BY DEF IInv
<1>1. HandlesKnown(w.st) BY DEF IInv, WorkerHolds
<1>2. Recorded' = Recorded BY DEF Recorded
<1>3. HandlesKnown(w.st)' BY <1>1, <1>2 DEF HandlesKnown
<1>4. Copies' = Copies BY DEF Copies, Arriving
<1>5. ASSUME api.rv # 0, pc \notin {"idle", "run"} PROVE Settled(w.st)'
  <2>0. Settled(w.st) BY <1>5 DEF IInv, WorkerHolds
  <2>1. PICK d \in Nat : d = Disturbances' BY <1>y, DisturbancesNext
  <2>2. d >= Disturbances /\ Disturbances \in Nat /\ starts \in Nat
    BY <2>1, <1>y, DisturbancesType
  <2>3. starts <= d \/ (w.st.phase \notin {"unset", "New"} /\ w.st.rs.run # 0)
    BY <2>0, <2>2 DEF Settled
  <2> QED BY <2>1, <2>3 DEF Settled
<1> QED BY <1>3, <1>4, <1>5
\* Taking the key
LEMMA ProcessQueueKeeps ==
    ASSUME IInv, TypeOK', ProcessQueue
    PROVE  IInv'
<1>y. TypeOK BY DEF IInv
<1>0. /\ UNCHANGED <<api, watch, cache, opc, o, onew, starts, live, faults, crashes>>
      /\ pc = "idle"
  BY DEF ProcessQueue, apiVars, opVars, driverVars
<1>1. CASE UNCHANGED <<workerVars, processed>>
  <2>1. pc' = "idle" /\ w' = w BY <1>0, <1>1 DEF workerVars
  <2>2. Disturbances' >= Disturbances BY <1>0, <1>y, DisturbancesNext
  <2>3. HandlesKnown(w.st)' BY <2>1, <2>2, <1>0, WorkerKnows
  <2>4. WorkerHolds' BY <2>1, <2>3 DEF WorkerHolds
  <2> QED BY <1>0, <1>1, <2>1, <2>4, WorkerMoves
<1>2. CASE /\ ~(processed > cache.rv) /\ cache.rv # 0 /\ processed' = cache.rv /\ w' = cache
           /\ pc' = (IF cache.del THEN "cancel"
                     ELSE IF cache.st.phase \in {"unset", "New"} THEN "finalizer" ELSE "switch")
  <2>t. cache.rv \in Nat /\ processed \in Nat /\ starts \in Nat
    BY <1>y, DisturbancesType, VRCFields DEF TypeOK
  <2>1. Disturbances' = Disturbances /\ Disturbances' >= Disturbances
    BY <1>0, <1>y, DisturbancesNext
  <2>2. Recorded' = Recorded /\ Recorded' >= Recorded /\ Recorded' \in Nat
    BY <1>0, <1>2, <2>t DEF Recorded
  <2>3. OperationHolds' BY <1>0, <2>2, OperationRests
  <2>4. cache \in Arriving /\ cache \in Copies BY DEF Arriving, Copies
  <2>5. HandlesKnown(cache.st) /\ (api.rv # 0 => Settled(cache.st) /\ cache.rv <= api.rv)
    BY <1>0, <1>2, <2>4, <2>t DEF IInv, CopiesSettled, CopiesBehind
  <2>6. HandlesKnown(cache.st)' /\ (api.rv # 0 => Settled(cache.st)')
    BY <2>5, <2>1, <2>2, <1>0 DEF HandlesKnown, Settled
  <2>7. pc' = "cancel" /\ api.rv # 0 => api.del /\ (api.clean => cache.clean)
    BY <1>2, <2>4 DEF IInv, CopiesBehind
  <2>8. pc' \in {"cancel", "finalizer", "switch"}
        /\ (pc' = "switch" => cache.st.phase \notin {"unset", "New"})
    BY <1>2
  <2>9. WorkerHolds' BY <1>0, <1>2, <2>6, <2>7, <2>8 DEF WorkerHolds
  <2>10. processed' >= processed /\ (api.rv # 0 => processed' <= api.rv)
    BY <1>2, <2>5, <2>t
  <2> QED BY <1>0, <1>2, <2>1, <2>3, <2>8, <2>9, <2>10, StillKeeps
<1> QED BY <1>1, <1>2 DEF ProcessQueue

\* Setting the finalizer, the phase New, the handles or the phase Failed
LEMMA WorkerWriteKeeps ==
    ASSUME IInv, TypeOK', SetFinalizer \/ UpdateStatus \/ Created \/ CreateFailed
    PROVE  IInv'
<1>y. TypeOK BY DEF IInv
<1>v. api \in VRC /\ w \in VRC /\ wnew \in Status BY <1>y DEF TypeOK
<1>t. /\ api \in VRC /\ starts \in Nat /\ w \in VRC /\ w.st \in Status /\ wnew \in Status
      /\ api.st \in Status /\ api.st.rs.run \in Nat /\ w.st.rs.run \in Nat
  BY <1>y, <1>v, DisturbancesType, VRCFields
<1>k. HandlesKnown(api.st) /\ HandlesKnown(w.st)
  BY DEF IInv, CopiesSettled, Copies, WorkerHolds
<1>r. Recorded \in Int /\ Recorded <= starts /\ (pc = "created" => Recorded = starts - 1)
  BY <1>t DEF Recorded
\* a write, whatever comes of it
<1>1. ASSUME NEW b \in VRC, Writable(b), NEW next \in {"init", "switch", "run", "return"},
             WorkerWrite(b, next), pc = "created" => api.rv # 0, next # "return" => b.fin,
             api.rv # 0 => IF pc = "created"
                           THEN /\ b.st.phase \notin {"unset", "New"}
                                /\ b.st.rs.run # 0 /\ b.st.rs.run # api.st.rs.run
                           ELSE Settled(api.st) => Settled(b.st)
      PROVE  IInv'
  <2>1. next \in Pcs \cup {"return"} /\ next # "idle" BY DEF Pcs
  <2>2. /\ UNCHANGED <<cache, opc, o, onew, starts, live, crashes>>
        /\ \/ /\ api.rv # 0 /\ Stored(b) /\ StoreRevisionUpdate(api'.rv) /\ UNCHANGED faults
              /\ IF next = "return" THEN pc' = "idle" /\ w' = NoVRC
                                    ELSE pc' = next /\ w' = api'
           \/ /\ \/ api.rv = 0 /\ UNCHANGED <<api, watch, faults>>
                 \/ api.rv # 0 /\ Fault /\ (UNCHANGED <<api, watch>> \/ Stored(b))
              /\ pc' = "idle" /\ w' = NoVRC /\ UNCHANGED processed
    BY <1>1, <1>y, <2>1, WorkerWriteOutcomes
  <2>3. CASE /\ api.rv # 0 /\ Stored(b) /\ StoreRevisionUpdate(api'.rv) /\ UNCHANGED faults
             /\ IF next = "return" THEN pc' = "idle" /\ w' = NoVRC
                                   ELSE pc' = next /\ w' = api'
    <3>1. /\ pc' \in {"init", "switch", "run", "idle"} /\ (pc' # "idle" => b.fin)
          /\ IF pc' = "idle" THEN w' = NoVRC ELSE w' = api'
      BY <1>1, <2>1, <2>3
    <3> QED BY <1>1, <2>2, <2>3, <3>1, PatchSucceeds
  <2>4. CASE /\ \/ api.rv = 0 /\ UNCHANGED <<api, watch, faults>>
                \/ api.rv # 0 /\ Fault /\ (UNCHANGED <<api, watch>> \/ Stored(b))
             /\ pc' = "idle" /\ w' = NoVRC /\ UNCHANGED processed
    BY <1>1, <2>2, <2>4, PatchFails
  <2> QED BY <2>2, <2>3, <2>4
<1>2. CASE SetFinalizer
  <2> DEFINE b == [api EXCEPT !.fin = TRUE]
  <2>1. b \in VRC /\ b.st = api.st /\ b.fin /\ b.del = api.del /\ b.clean = api.clean
    BY <1>t DEF VRC
  <2>2. WorkerWrite(b, "init") /\ pc = "finalizer" BY <1>2 DEF SetFinalizer
  <2> HIDE DEF b
  <2>3. Writable(b) BY <2>1, <1>k, <1>r, <1>t DEF Writable, HandlesKnown
  <2> QED BY <1>1, <2>1, <2>2, <2>3
<1>3. CASE UpdateStatus
  <2>0. pc = "init" /\ api.rv # 0 /\ api.fin BY <1>3 DEF UpdateStatus, IInv, WorkerHolds
  <2> DEFINE ph == IF api.st.phase = "unset" THEN "New" ELSE api.st.phase
             b  == [api EXCEPT !.st.phase = IF @ = "unset" THEN "New" ELSE @]
  <2>1. CASE Local("error")
    <3>1. /\ UNCHANGED <<api, watch, cache, processed, opc, o, onew, starts, live, faults, crashes>>
          /\ pc' = "idle" /\ w' = NoVRC
      BY <2>1, LocalSteps
    <3> QED BY <2>0, <3>1, IdleHolds, WorkerMoves
  <2>2. CASE WorkerWrite(b, "switch")
    <3>1. ph \in Phases /\ api.st.phase \in Phases BY <1>t DEF Phases, Status
    <3>2. b = [api EXCEPT !.st = [api.st EXCEPT !.phase = ph]] BY <1>t DEF VRC, Status
    <3>3. /\ [api.st EXCEPT !.phase = ph] \in Status
          /\ [api.st EXCEPT !.phase = ph].phase = ph /\ [api.st EXCEPT !.phase = ph].rs = api.st.rs
      BY <3>1, <1>t, PhaseType
    <3>4. /\ b \in VRC /\ b.fin = api.fin /\ b.del = api.del /\ b.clean = api.clean
          /\ b.st.phase = ph /\ b.st.rs = api.st.rs
      BY <3>2, <3>3, <1>t DEF VRC
    <3> HIDE DEF b
    <3>5. Writable(b) BY <3>4, <1>k, <1>r, <1>t DEF Writable, HandlesKnown
    <3>6. Settled(api.st) => Settled(b.st) BY <3>4 DEF Settled
    <3> QED BY <1>1, <2>0, <2>2, <3>4, <3>5, <3>6
  <2> QED BY <1>3, <2>1, <2>2, Zenon DEF UpdateStatus
<1>4. CASE Created
  <2> DEFINE b == Patched(w.st, wnew)
  <2>0. /\ WorkerWrite(b, "run") /\ pc = "created" /\ api.rv # 0 /\ api.fin
        /\ w.st.phase \in {"unset", "New"} /\ wnew.phase = "InProgress" /\ wnew.rs.run = starts
    BY <1>4 DEF Created, IInv, WorkerHolds
  <2>1. /\ b \in VRC /\ b.fin = api.fin /\ b.del = api.del /\ b.clean = api.clean
        /\ b.st.phase = IF wnew.phase # w.st.phase THEN wnew.phase ELSE api.st.phase
        /\ b.st.rs = IF wnew.rs # w.st.rs THEN wnew.rs ELSE api.st.rs
    BY <1>t, PatchedType
  <2> HIDE DEF b
  <2>2. w.st.rs.run <= starts - 1 /\ api.st.rs.run <= starts - 1
    BY <2>0, <1>k, <1>r DEF HandlesKnown
  <2>3. b.st.phase = "InProgress" /\ b.st.rs.run = starts
    BY <2>0, <2>1, <2>2, <1>t
  <2>4. Writable(b) /\ b.st.rs.run # 0 /\ b.st.rs.run # api.st.rs.run
    BY <2>1, <2>2, <2>3, <1>t DEF Writable
  <2> QED BY <1>1, <2>0, <2>1, <2>3, <2>4
<1>5. CASE CreateFailed
  <2> DEFINE b == Patched(w.st, [w.st EXCEPT !.phase = "Failed"])
  <2>1. /\ b \in VRC /\ Writable(b) BY <1>t, PhaseWritable DEF Phases
  <2>2. WorkerWrite(b, "return") /\ pc = "createFailed" BY <1>5 DEF CreateFailed
  <2> HIDE DEF b
  <2>3. ASSUME api.rv # 0 PROVE Settled(b.st)
    <3>1. w.st.phase \in {"unset", "New"} /\ Settled(w.st)
      BY <2>2, <2>3 DEF IInv, WorkerHolds
    <3> QED BY <3>1 DEF Settled
  <2> QED BY <1>1, <2>1, <2>2, <2>3
<1> QED BY <1>2, <1>3, <1>4, <1>5
\* Asking the driver: a run more, and a worker that has its handles or was disturbed
LEMMA CreateVolumeFromBackupKeeps ==
    ASSUME IInv, TypeOK', CreateVolumeFromBackup
    PROVE  IInv'
<1>y. TypeOK BY DEF IInv
<1>t. starts \in Nat /\ Disturbances \in Nat /\ Disturbances' \in Nat
  BY <1>y, DisturbancesType, DisturbancesNext
<1>0. /\ UNCHANGED <<api, watch, cache, processed, opc, o, onew, crashes>>
      /\ pc = "create" /\ starts' = starts + 1
  BY DEF CreateVolumeFromBackup, apiVars, opVars
<1>1. api.rv # 0 /\ api.fin /\ w.st.phase \in {"unset", "New"} /\ Settled(w.st)
  BY <1>0 DEF IInv, WorkerHolds
<1>2. starts <= Disturbances BY <1>1 DEF Settled
<1>3. \/ /\ pc' = "created" /\ w' = w /\ wnew'.phase = "InProgress" /\ wnew'.rs.run = starts'
         /\ UNCHANGED faults
      \/ /\ Fault
         /\ \/ pc' = "createFailed" /\ w' = w
            \/ pc' = "idle" /\ w' = NoVRC
  BY DEF CreateVolumeFromBackup, Goto, ReturnErr, Idle
<1>4. Fault => starts' <= Disturbances'
  <2>1. Fault => Disturbances' = Disturbances + 1 BY <1>0, <1>y, DisturbancesNext
  <2>2. starts + 1 <= Disturbances + 1 BY <1>2, <1>t
  <2> QED BY <1>0, <2>1, <2>2
<1>r. /\ Recorded = starts /\ Recorded' \in Nat /\ Recorded' >= Recorded
      /\ (pc' = "created" => Recorded' = starts)
  BY <1>0, <1>t DEF Recorded
<1>5. OperationHolds' BY <1>0, <1>r, OperationRests
<1>6. CopiesBehind' /\ FinalizerFirst' /\ Copies' = Copies
  BY <1>0, <1>1 DEF IInv, CopiesBehind, FinalizerFirst, Copies, Arriving
<1>7. CopiesSettled'
  <2>1. \A c \in Copies : c.st.rs.run \in Nat
    <3>1. Copies \subseteq VRC
      <4>1. api \in VRC BY <1>y DEF TypeOK
      <4> QED BY <4>1, <1>y, ArrivingType DEF Copies
    <3> QED BY <3>1, VRCFields
  <2>2. \A c \in Copies' : HandlesKnown(c.st)'
    BY <1>6, <1>r, <1>t, <2>1 DEF IInv, CopiesSettled, HandlesKnown
  <2>3. pc' # "created" => \A st : Settled(st)' BY <1>3, <1>4 DEF Settled
  <2> QED BY <2>2, <2>3 DEF CopiesSettled
<1>8. WorkerHolds'
  <2>1. CASE pc' = "idle" BY <2>1, <1>3, IdleHolds
  <2>2. CASE pc' \in {"created", "createFailed"} /\ w' = w
    <3>0. w \in VRC BY <1>y DEF TypeOK
    <3>1. w.st.rs.run \in Nat BY <3>0, VRCFields
    <3>2. HandlesKnown(w.st)' BY <3>1, <2>2, <1>r, <1>t DEF IInv, WorkerHolds, HandlesKnown
    <3>3. pc' # "created" => Settled(w.st)' BY <1>3, <1>4 DEF Settled
    <3> QED BY <1>0, <1>1, <1>3, <2>2, <3>2, <3>3 DEF WorkerHolds
  <2> QED BY <1>3, <2>1, <2>2
<1>9. StartsPaidFor'
  <2>1. PICK d \in Nat : d = Disturbances' BY <1>t
  <2>2. Disturbances' = Disturbances \/ Disturbances' = Disturbances + 1
    BY <1>0, <1>3, <1>y, DisturbancesNext
  <2>3. d >= Disturbances BY <2>1, <2>2, <1>t
  <2>4. starts + 1 <= 1 + d BY <2>3, <1>2, <1>t
  <2> QED BY <2>1, <2>4, <1>0, Zenon DEF StartsPaidFor
<1> QED BY <1>5, <1>6, <1>7, <1>8, <1>9 DEF IInv

\* When the object goes the copies keep what they tell.
LEMMA RemovalKeeps ==
    ASSUME IInv, TypeOK', Remove, UNCHANGED <<cache, starts, crashes>>,
           Fault \/ UNCHANGED faults, Recorded' = Recorded, WorkerHolds', OperationHolds'
    PROVE  IInv'
<1>y. TypeOK BY DEF IInv
<1>n. NoVRC.rv = 0 /\ NoVRC.st.rs.run = 0 /\ NoVRC.st.phase = "unset" /\ ~NoVRC.clean
  BY NoVRCType
<1>t. starts \in Nat /\ Disturbances \in Nat BY <1>y, DisturbancesType
<1>0. Server /\ api' = NoVRC BY DEF Server, Remove
<1>1. CopiesBehind' BY <1>0, <1>n, <1>y, ServerKeeps DEF IInv
<1>2. Arriving' \subseteq Arriving \cup {NoVRC} BY <1>0, <1>y, ArrivingNext
<1>3. FinalizerFirst' BY <1>0, <1>n DEF FinalizerFirst
<1>4. CopiesSettled'
  <2>1. api \in VRC BY <1>y DEF TypeOK
  <2>2. 0 <= Recorded
    <3>1. HandlesKnown(api.st) BY DEF IInv, CopiesSettled, Copies
    <3>2. Recorded \in Int BY <1>t DEF Recorded
    <3> QED BY <2>1, <3>1, <3>2, VRCFields DEF HandlesKnown
  <2>3. HandlesKnown(NoVRC.st)' BY <1>n, <2>2 DEF HandlesKnown
  <2>4. \A c \in Arriving : HandlesKnown(c.st)'
    BY DEF IInv, CopiesSettled, Copies, HandlesKnown
  <2> QED BY <2>3, <2>4, <1>0, <1>2, <1>n DEF CopiesSettled, Copies
<1>5. StartsPaidFor'
  <2>1. Disturbances' >= Disturbances /\ Disturbances' \in Nat BY <1>y, DisturbancesNext
  <2>2. PICK d \in Nat : d = Disturbances' BY <2>1
  <2>3. StartsPaidFor /\ d >= Disturbances BY <2>1, <2>2 DEF IInv
  <2>4. starts <= 1 + d BY <2>3, <1>t DEF StartsPaidFor
  <2> QED BY <2>2, <2>4, Zenon DEF StartsPaidFor
<1> QED BY <1>1, <1>3, <1>4, <1>5 DEF IInv

\* Without its handles the volumes that remain are paid for.
LEMMA CancelledPaid ==
    ASSUME IInv, pc = "cancel", api.rv # 0, needCancel(w)
    PROVE  Cardinality(live \ {w.st.rs.run}) <= Disturbances
<1>y. TypeOK BY DEF IInv
<1>t. w.st.rs.run \in Nat /\ w.st.rs.run <= starts /\ starts \in Nat /\ Disturbances \in Nat
  <2>1. w \in VRC BY <1>y DEF TypeOK
  <2>2. HandlesKnown(w.st) /\ Recorded = starts BY DEF IInv, WorkerHolds, Recorded
  <2> QED BY <2>1, <2>2, <1>y, VRCFields, DisturbancesType DEF HandlesKnown
<1>1. Settled(w.st) /\ StartsPaidFor BY DEF IInv, WorkerHolds
<1> DEFINE l == live \ {w.st.rs.run}
<1>2. /\ l \in SUBSET live /\ Cardinality(l) <= Cardinality(live) /\ Cardinality(live) \in Nat
      /\ Cardinality(live) <= starts /\ IsFiniteSet(live) /\ IsFiniteSet(l)
  BY <1>y, LiveBound
<1>3. Cardinality(l) \in Nat BY <1>2, FS_CardinalityType
<1>4. CASE starts <= Disturbances BY <1>2, <1>3, <1>4, <1>t
<1>5. CASE w.st.rs.run # 0
  <2>1. starts - 1 <= Disturbances BY <1>1, <1>t DEF StartsPaidFor
  <2>2. CASE w.st.rs.run \in live
    <3>1. Cardinality(l) = Cardinality(live) - 1 BY <2>2, <1>2, FS_RemoveElement
    <3> QED BY <3>1, <2>1, <1>2, <1>3, <1>t
  <2>3. CASE w.st.rs.run \notin live
    <3>1. w.st.rs.run \in 1..starts BY <1>5, <1>t
    <3>2. Cardinality(live) <= starts - 1 BY <2>3, <3>1, <1>y, LiveBound
    <3> QED BY <3>2, <2>1, <1>2, <1>3, <1>t
  <2> QED BY <2>2, <2>3
<1> QED BY <1>1, <1>4, <1>5 DEF Settled

\* Cancelling at the driver, and the finalizer going
LEMMA DeletionKeeps ==
    ASSUME IInv, TypeOK', CancelRestore \/ RemoveFinalizer
    PROVE  IInv'
<1>y. TypeOK BY DEF IInv
<1>1. CASE CancelRestore
  <2>0. pc = "cancel" BY <1>1 DEF CancelRestore
  <2>1. ASSUME UNCHANGED <<api, watch, cache, processed, opc, o, onew, starts, crashes, faults>>,
               live' \subseteq live, pc' = "delFinalizer", w' = w,
               needCancel(w) => live' = live \ {w.st.rs.run}
        PROVE  IInv'
    <3>1. Disturbances' = Disturbances /\ Disturbances' >= Disturbances
      BY <2>1, <1>y, DisturbancesNext
    <3>2. HandlesKnown(w.st)' /\ (api.rv # 0 => Settled(w.st)')
      BY <2>0, <2>1, <3>1, WorkerKnows
    <3>3. api.rv # 0 => api.del /\ (api.clean => w.clean) BY <2>0 DEF IInv, WorkerHolds
    <3>4. api.rv # 0 /\ needCancel(w) => Cardinality(live') <= Disturbances'
      BY <2>0, <2>1, <3>1, CancelledPaid
    <3>5. (api'.rv # 0 /\ needCancel(w)') => api.rv # 0 /\ needCancel(w)
      BY <2>1 DEF needCancel
    <3>6. WorkerHolds' BY <2>0, <2>1, <3>2, <3>3, <3>4, <3>5 DEF WorkerHolds
    <3> QED BY <2>0, <2>1, <3>6, WorkerMoves
  <2>2. CASE ~needCancel(w) /\ Local("delFinalizer")
    <3>1. /\ UNCHANGED <<api, watch, cache, processed, opc, o, onew, starts, live, faults, crashes>>
          /\ pc' = "delFinalizer" /\ w' = w
      BY <2>2, LocalSteps
    <3> QED BY <2>1, <2>2, <3>1
  <2>3. CASE /\ \/ /\ live' = live \ {w.st.rs.run} /\ Goto("delFinalizer", w, w.st)
                   /\ UNCHANGED faults
                \/ Fault /\ live' \in {live, live \ {w.st.rs.run}} /\ ReturnErr
             /\ UNCHANGED <<apiVars, cache, processed, opVars, starts, progress, clock, crashes>>
    <3>1. /\ UNCHANGED <<api, watch, cache, processed, opc, o, onew, starts, crashes>>
          /\ live' \subseteq live
      BY <2>3 DEF apiVars, opVars
    <3>2. CASE live' = live \ {w.st.rs.run} /\ Goto("delFinalizer", w, w.st) /\ UNCHANGED faults
      BY <2>1, <3>1, <3>2 DEF Goto
    <3>3. CASE Fault /\ ReturnErr
      <4>1. pc' = "idle" /\ w' = NoVRC BY <3>3 DEF ReturnErr, Idle
      <4> QED BY <2>0, <3>1, <3>3, <4>1, IdleHolds, WorkerMoves
    <3> QED BY <2>3, <3>2, <3>3
  <2> QED BY <1>1, <2>2, <2>3 DEF CancelRestore
<1>2. CASE RemoveFinalizer
  <2>0. /\ UNCHANGED <<cache, opc, o, onew, starts, live, crashes>> /\ pc = "delFinalizer"
        /\ pc' = "idle" /\ w' = NoVRC
        /\ Fault \/ UNCHANGED faults
        /\ processed' = 0 \/ UNCHANGED processed
        /\ (api.rv # 0 /\ Remove) \/ (UNCHANGED <<api, watch>> /\ UNCHANGED processed)
    BY <1>2 DEF RemoveFinalizer, opVars, driverVars, Return, ReturnErr, Idle, apiVars
  <2>1. CASE UNCHANGED <<api, watch>> /\ UNCHANGED processed
    BY <2>0, <2>1, IdleHolds, WorkerMoves
  <2>2. CASE api.rv # 0 /\ Remove
    <3>1. WorkerHolds' BY <2>0, IdleHolds
    <3>t. starts \in Nat BY <1>y, DisturbancesType
    <3>r. Recorded' = starts /\ Recorded = starts BY <2>0 DEF Recorded
    <3>2. OperationHolds' BY <2>0, <3>r, <3>t, OperationRests
    <3>3. Recorded' = Recorded BY <3>r
    <3> QED BY <2>0, <2>2, <3>1, <3>2, <3>3, RemovalKeeps
  <2> QED BY <2>0, <2>1, <2>2
<1> QED BY <1>1, <1>2
\* Judging by the copy, failing to ask, and handing over to the operation
LEMMA HandlerKeeps ==
    ASSUME IInv, TypeOK', ProcessVolumeRestore \/ CreateVolumeFails \/ RunOperation
    PROVE  IInv'
<1>y. TypeOK BY DEF IInv
<1>1. CASE ProcessVolumeRestore
  <2>0. pc = "switch" BY <1>1 DEF ProcessVolumeRestore
  <2>1. PICK next \in {"return", "create", "run"} :
            Local(next) /\ (next = "create" => w.st.phase \in {"unset", "New"})
    BY <1>1 DEF ProcessVolumeRestore
  <2>2. /\ UNCHANGED <<api, watch, cache, processed, opc, o, onew, starts, live, faults, crashes>>
        /\ IF next = "return" THEN pc' = "idle" /\ w' = NoVRC ELSE pc' = next /\ w' = w
    BY <2>1, LocalSteps
  <2>3. CASE next = "return" BY <2>0, <2>2, <2>3, IdleHolds, WorkerMoves
  <2>4. CASE next # "return"
    <3>1. Disturbances' >= Disturbances BY <2>2, <1>y, DisturbancesNext
    <3>2. HandlesKnown(w.st)' /\ (api.rv # 0 => Settled(w.st)')
      BY <2>0, <2>1, <2>2, <2>4, <3>1, WorkerKnows
    <3>3. next = "create" => api.rv # 0 /\ api.fin BY <2>0, <2>1 DEF IInv, WorkerHolds
    <3>4. WorkerHolds' BY <2>1, <2>2, <2>4, <3>2, <3>3 DEF WorkerHolds
    <3> QED BY <2>0, <2>1, <2>2, <2>4, <3>4, WorkerMoves
  <2> QED BY <2>3, <2>4
<1>2. CASE CreateVolumeFails
  <2>0. /\ UNCHANGED <<api, watch, cache, processed, opc, o, onew, starts, live, crashes>>
        /\ pc = "create" /\ Fault
        /\ \/ pc' = "idle" /\ w' = NoVRC
           \/ pc' = "createFailed" /\ w' = w
    BY <1>2 DEF CreateVolumeFails, ReturnErr, Idle, Goto, apiVars, opVars, driverVars
  <2>1. CASE pc' = "idle" /\ w' = NoVRC BY <2>0, <2>1, IdleHolds, WorkerMoves
  <2>2. CASE pc' = "createFailed" /\ w' = w
    <3>1. Disturbances' >= Disturbances BY <2>0, <1>y, DisturbancesNext
    <3>2. HandlesKnown(w.st)' /\ (api.rv # 0 => Settled(w.st)')
      BY <2>0, <2>2, <3>1, WorkerKnows
    <3>3. api.rv # 0 /\ api.fin /\ w.st.phase \in {"unset", "New"}
      BY <2>0 DEF IInv, WorkerHolds
    <3>4. WorkerHolds' BY <2>0, <2>2, <3>2, <3>3 DEF WorkerHolds
    <3> QED BY <2>0, <2>2, <3>4, WorkerMoves
  <2> QED BY <2>0, <2>1, <2>2
<1>3. CASE RunOperation
  <2>0. /\ UNCHANGED <<api, watch, cache, processed, o, onew, starts, live, faults, crashes>>
        /\ pc = "run" /\ pc' = "idle" /\ w' = NoVRC
        /\ opc' = "tick" \/ opc' = opc
    BY <1>3 DEF RunOperation, Return, Idle, apiVars, opVars, driverVars
  <2>1. Recorded' = Recorded BY <2>0 DEF Recorded
  <2>2. OperationHolds' BY <2>0, <2>1 DEF IInv, OperationHolds, HandlesKnown
  <2>3. Disturbances' >= Disturbances BY <2>0, <1>y, DisturbancesNext
  <2>4. processed' >= processed /\ (api.rv # 0 => processed' <= api.rv)
    BY <2>0, <1>y DEF IInv, CopiesBehind, TypeOK
  <2> QED BY <2>0, <2>2, <2>3, <2>4, IdleHolds, StillKeeps
<1> QED BY <1>1, <1>2, <1>3

\* Every step of the worker keeps the invariant.
LEMMA WorkerKeeps ==
    ASSUME IInv, TypeOK', Worker
    PROVE  IInv'
BY ProcessQueueKeeps, WorkerWriteKeeps, CreateVolumeFromBackupKeeps, DeletionKeeps, HandlerKeeps
  DEF Worker
\* A step of somebody else keeps the invariant if what it stores is right and it is
\* right about the operation.
LEMMA QuietKeeps ==
    ASSUME IInv, TypeOK', Server, UNCHANGED <<pc, w, wnew, starts, live>>,
           Disturbances' >= Disturbances, api'.rv = 0 <=> api.rv = 0,
           api.fin => api'.fin, api.del => api'.del /\ api'.clean = api.clean,
           processed' >= processed, api'.rv # 0 => processed' <= api'.rv,
           HandlesKnown(api.st)', Settled(api.st) => Settled(api.st)', OperationHolds'
    PROVE  IInv'
<1>y. TypeOK BY DEF IInv
<1>1. Steady BY DEF Steady
<1>2. Recorded' = Recorded BY DEF Recorded
<1>3. WorkerHolds'
  <2>1. HandlesKnown(w.st)' BY <1>2 DEF IInv, WorkerHolds, HandlesKnown
  <2>2. ASSUME api.rv # 0, pc \notin {"idle", "run", "created"} PROVE Settled(w.st)'
    <3>0. Settled(w.st) BY <2>2 DEF IInv, WorkerHolds
    <3>1. PICK d \in Nat : d = Disturbances' BY <1>y, DisturbancesNext
    <3>2. d >= Disturbances /\ Disturbances \in Nat /\ starts \in Nat
      BY <3>1, <1>y, DisturbancesType
    <3>3. starts <= d \/ (w.st.phase \notin {"unset", "New"} /\ w.st.rs.run # 0)
      BY <3>0, <3>2 DEF Settled
    <3> QED BY <3>1, <3>3 DEF Settled
  <2>3. pc = "delFinalizer" /\ api.rv # 0 /\ needCancel(w) => Cardinality(live) <= Disturbances'
    <3>1. PICK d \in Nat : d = Disturbances' BY <1>y, DisturbancesNext
    <3>2. d >= Disturbances /\ Disturbances \in Nat /\ Cardinality(live) \in Nat
      BY <3>1, <1>y, DisturbancesType, LiveBound
    <3>3. pc = "delFinalizer" /\ api.rv # 0 /\ needCancel(w) => Cardinality(live) <= Disturbances
      BY DEF IInv, WorkerHolds
    <3>4. pc = "delFinalizer" /\ api.rv # 0 /\ needCancel(w) => Cardinality(live) <= d
      BY <3>2, <3>3
    <3> QED BY <3>1, <3>4
  <2>4. /\ pc \in {"init", "create", "createFailed", "created"} => api.rv # 0 /\ api.fin
        /\ pc = "switch" /\ w.st.phase \in {"unset", "New"} => api.rv # 0 /\ api.fin
        /\ pc \in {"create", "createFailed", "created"} => w.st.phase \in {"unset", "New"}
        /\ pc = "created" => wnew.phase = "InProgress" /\ wnew.rs.run = starts
        /\ pc \in {"cancel", "delFinalizer"} /\ api.rv # 0 => api.del /\ (api.clean => w.clean)
    BY DEF IInv, WorkerHolds
  <2>5. needCancel(w)' = needCancel(w) BY DEF needCancel
  <2> QED BY <2>1, <2>2, <2>3, <2>4, <2>5 DEF WorkerHolds
<1>4. CASE pc = "created" BY <1>1, <1>3, <1>4, SteadyKeeps
<1>5. CASE pc # "created" BY <1>1, <1>3, <1>5, CopiesStaySettled, SteadyKeeps
<1> QED BY <1>4, <1>5
\* A patch of the operation, carried out or not
LEMMA OperationPatches ==
    ASSUME IInv, TypeOK', NEW b \in VRC, b.fin = api.fin, b.del = api.del, b.clean = api.clean,
           HandlesKnown(b.st), Settled(api.st) => Settled(b.st), OperationHolds',
           UNCHANGED <<cache, pc, w, wnew, starts, live, crashes>>,
           \/ api.rv # 0 /\ Stored(b) /\ StoreRevisionUpdate(api'.rv) /\ UNCHANGED faults
           \/ UNCHANGED <<api, watch, processed, faults>>
           \/ /\ api.rv # 0 /\ Fault /\ UNCHANGED processed
              /\ UNCHANGED <<api, watch>> \/ Stored(b)
    PROVE  IInv'
<1>y. TypeOK BY DEF IInv
<1>t. api \in VRC /\ api.rv \in Nat /\ processed \in Nat BY <1>y, VRCFields DEF TypeOK
<1>d. Disturbances' >= Disturbances BY <1>y, DisturbancesNext
<1>r. Recorded' = Recorded BY DEF Recorded
<1>k. HandlesKnown(api.st) /\ (api.rv # 0 => processed <= api.rv)
  BY DEF IInv, CopiesSettled, Copies, CopiesBehind
<1>s. ASSUME NEW st, Settled(st) PROVE Settled(st)'
  <2>1. PICK d \in Nat : d = Disturbances' BY <1>y, DisturbancesNext
  <2>2. d >= Disturbances /\ Disturbances \in Nat /\ starts \in Nat
    BY <2>1, <1>d, <1>y, DisturbancesType
  <2>3. starts <= d \/ (st.phase \notin {"unset", "New"} /\ st.rs.run # 0)
    BY <1>s, <2>2 DEF Settled
  <2> QED BY <2>1, <2>3 DEF Settled
<1>1. CASE UNCHANGED <<api, watch, processed>>
  <2>1. Server BY <1>1 DEF Server
  <2>2. HandlesKnown(api.st)' BY <1>1, <1>k, <1>r DEF HandlesKnown
  <2>3. Settled(api.st) => Settled(api.st)'
    <3>1. PICK st : st = api.st OBVIOUS
    <3>2. Settled(st) => Settled(st)' BY <1>s
    <3> QED BY <1>1, <3>1, <3>2 DEF Settled
  <2>4. processed' >= processed /\ (api'.rv # 0 => processed' <= api'.rv)
    BY <1>1, <1>k, <1>t
  <2> QED BY <1>1, <1>d, <2>1, <2>2, <2>3, <2>4, QuietKeeps
<1>2. CASE api.rv # 0 /\ Stored(b) /\ (StoreRevisionUpdate(api'.rv) \/ UNCHANGED processed)
  <2>1. /\ Server /\ api'.rv # 0 /\ api'.rv >= api.rv /\ api'.rv \in Nat
        /\ api'.st = b.st /\ api'.fin = b.fin /\ api'.del = b.del /\ api'.clean = b.clean
    BY <1>2, <1>y, StoredServer
  <2>2. HandlesKnown(api.st)' BY <2>1, <1>r DEF HandlesKnown
  <2>3. Settled(api.st) => Settled(api.st)'
    <3>1. PICK st : st = b.st OBVIOUS
    <3>2. Settled(st) => Settled(st)' BY <1>s
    <3> QED BY <2>1, <3>1, <3>2 DEF Settled
  <2>4. processed' >= processed /\ (api'.rv # 0 => processed' <= api'.rv)
    BY <1>2, <2>1, <1>k, <1>t DEF StoreRevisionUpdate
  <2> QED BY <1>2, <1>d, <2>1, <2>2, <2>3, <2>4, QuietKeeps
<1> QED BY <1>1, <1>2

\* A process that starts anew: either the object is gone, or the disturbance pays.
LEMMA RestartKeeps ==
    ASSUME IInv, TypeOK', Restart, api' = api \/ Revised, UNCHANGED <<starts, live>>,
           HandlesKnown(api.st)', Disturbances' >= Disturbances, api'.rv = 0 <=> api.rv = 0,
           api'.rv # 0 => Disturbances' > Disturbances
    PROVE  IInv'
<1>y. TypeOK BY DEF IInv
<1>t. starts \in Nat /\ api'.rv \in Nat BY <1>y, DisturbancesType, VRCFields DEF TypeOK
<1>0. /\ cache' = api' /\ watch' = <<>> /\ processed' = 0
      /\ pc' = "idle" /\ w' = NoVRC /\ opc' = "none" /\ o' = NoVRC /\ onew' = NoStatus
  BY DEF Restart, Idle
<1>1. Server BY <1>0 DEF Server
<1>2. /\ (api.fin => api'.fin) /\ (api.del => api'.del /\ api'.clean = api.clean)
  BY DEF Revised
<1>3. Steady BY <1>0, <1>1, <1>2, <1>t DEF Steady
<1>4. Recorded' = starts BY <1>0 DEF Recorded
<1>5. OperationHolds' BY <1>0, <1>4, <1>t, NoVRCType DEF OperationHolds, HandlesKnown
<1>6. WorkerHolds' BY <1>0, IdleHolds
<1>7. api'.rv # 0 => \A st : Settled(st)' BY PaidSettles
<1> QED BY <1>0, <1>3, <1>5, <1>6, <1>7, SteadyKeeps

\* The process panics over a patch that failed.
LEMMA PanicKeeps ==
    ASSUME IInv, TypeOK', OpUpdatePanics
    PROVE  IInv'
<1>y. TypeOK BY DEF IInv
<1>v. api \in VRC /\ o \in VRC /\ onew \in Status BY <1>y DEF TypeOK
<1>t. /\ api.rv \in Nat /\ api.st.rs.run \in Nat /\ o.st \in Status /\ starts \in Nat
      /\ Disturbances \in Nat
  BY <1>v, <1>y, VRCFields, DisturbancesType
<1> DEFINE b == Patched(o.st, onew)
<1>0. /\ UNCHANGED <<starts, live, crashes>> /\ Restart /\ opc = "update"
      /\ \/ api.rv = 0 /\ UNCHANGED <<api, faults>>
         \/ api.rv # 0 /\ Fault /\ api' \in {api, [b EXCEPT !.rv = @ + 1]}
  BY DEF OpUpdatePanics, driverVars
<1>1. /\ b \in VRC /\ b.rv = api.rv /\ b.fin = api.fin /\ b.del = api.del /\ b.clean = api.clean
      /\ b.st.phase = IF onew.phase # o.st.phase THEN onew.phase ELSE api.st.phase
      /\ b.st.rs = IF onew.rs # o.st.rs THEN onew.rs ELSE api.st.rs
  BY <1>v, <1>t, PatchedType
<1>2. /\ o.st.phase = "InProgress" /\ HandlesKnown(o.st) /\ HandlesKnown(onew)
      /\ onew.rs.run = o.st.rs.run /\ HandlesKnown(api.st)
  BY <1>0 DEF IInv, OperationHolds, CopiesSettled, Copies
<1> HIDE DEF b
<1>3. b.st.rs.run <= Recorded /\ (b.st.phase = "InProgress" => b.st.rs.run # 0)
  BY <1>1, <1>2 DEF HandlesKnown
<1>4. Recorded' = starts /\ Recorded <= starts /\ Recorded \in Int
  BY <1>0, <1>t DEF Recorded, Restart, Idle
<1>5. b.st.rs.run \in Nat BY <1>1, VRCFields
<1>6. CASE UNCHANGED <<api, faults>> /\ api.rv = 0
  <2>1. HandlesKnown(api.st)' BY <1>6, <1>2, <1>4, <1>t DEF HandlesKnown
  <2>2. Disturbances' = Disturbances BY <1>0, <1>6, <1>y, DisturbancesNext
  <2>3. Disturbances' >= Disturbances BY <2>2, <1>t
  <2> QED BY <1>0, <1>6, <2>1, <2>3, RestartKeeps
<1>7. CASE api.rv # 0 /\ Fault /\ api' \in {api, [b EXCEPT !.rv = @ + 1]}
  <2>1. Disturbances' = Disturbances + 1 BY <1>0, <1>7, <1>y, DisturbancesNext
  <2>2. Disturbances' > Disturbances /\ Disturbances' >= Disturbances BY <2>1, <1>t
  <2>3. CASE api' = api
    <3>1. HandlesKnown(api.st)' BY <2>3, <1>2, <1>4, <1>t DEF HandlesKnown
    <3> QED BY <1>0, <2>2, <2>3, <3>1, RestartKeeps
  <2>4. CASE api' = [b EXCEPT !.rv = @ + 1]
    <3>1. /\ api'.st = b.st /\ api'.rv = api.rv + 1
          /\ api'.fin = api.fin /\ api'.del = api.del /\ api'.clean = api.clean
      BY <2>4, <1>1 DEF VRC
    <3>2. HandlesKnown(api.st)' BY <3>1, <1>3, <1>4, <1>5, <1>t DEF HandlesKnown
    <3>3. Revised /\ api'.rv # 0 BY <1>7, <3>1, <1>t DEF Revised
    <3> QED BY <1>0, <1>7, <2>2, <3>2, <3>3, RestartKeeps
  <2> QED BY <1>7, <2>3, <2>4
<1> QED BY <1>0, <1>6, <1>7

\* Every step of the operation keeps the invariant.
LEMMA OperationKeeps ==
    ASSUME IInv, TypeOK', Operation
    PROVE  IInv'
<1>y. TypeOK BY DEF IInv
<1>v. api \in VRC /\ cache \in VRC /\ o \in VRC /\ onew \in Status BY <1>y DEF TypeOK
<1>t. /\ o.st \in Status /\ cache.st \in Status /\ starts \in Nat
      /\ NoVRC \in VRC /\ NoVRC.st = NoStatus /\ NoStatus.rs.run = 0 /\ NoStatus.phase = "unset"
  BY <1>y, <1>v, VRCFields, DisturbancesType, NoVRCType
<1>h. OperationHolds BY DEF IInv
<1>k. HandlesKnown(cache.st) /\ HandlesKnown(api.st)
  BY DEF IInv, CopiesSettled, Copies, Arriving
<1>z. Recorded \in Int /\ 0 <= Recorded
  <2>1. HandlesKnown(api.st) /\ api.st.rs.run \in Nat BY <1>k, <1>v, VRCFields
  <2> QED BY <2>1, <1>t DEF Recorded, HandlesKnown
\* what a step knows at its next call
<1>1. ASSUME NEW next \in OPcs, NEW b \in VRC, NEW st \in Status, OpGoto(next, b, st),
             HandlesKnown(b.st), HandlesKnown(st),
             next \in {"stat", "update", "complete", "fail"} => b.st.phase = "InProgress",
             next = "update" => /\ st.rs.run = b.st.rs.run
                                /\ st.phase \in {"InProgress", "Completed", "Failed"}
      PROVE  /\ OperationHolds'
             /\ UNCHANGED <<cache, pc, w, wnew, starts, live, crashes>>
  <2>1. /\ opc' = next /\ o' = b /\ onew' = st
        /\ UNCHANGED <<cache, pc, w, wnew, starts, live, crashes>>
    BY <1>1, OpGotoLeaves
  <2>2. Recorded' = Recorded BY <2>1 DEF Recorded
  <2> QED BY <1>1, <2>1, <2>2 DEF OperationHolds, HandlesKnown
<1>n. HandlesKnown(NoVRC.st) /\ HandlesKnown(NoStatus) /\ NoStatus \in Status
  BY <1>t, <1>z, NoVRCType DEF HandlesKnown
<1>o. {"success", "stat", "tick", "update", "failure", "complete", "fail", "exit", "none"}
        \subseteq OPcs
  BY DEF OPcs
\* a step to a place where nothing is known
<1>2. ASSUME NEW next \in {"success", "tick", "failure", "exit", "none"},
             OpGoto(next, NoVRC, NoStatus)
      PROVE  OperationHolds' /\ UNCHANGED <<cache, pc, w, wnew, starts, live, crashes>>
  BY <1>2, <1>1, <1>n, <1>o, <1>t
\* a step that writes nothing
<1>3. ASSUME OperationHolds', UNCHANGED <<cache, pc, w, wnew, starts, live, crashes>>,
             UNCHANGED <<apiVars, processed>>, Fault \/ UNCHANGED faults
      PROVE  IInv'
  <2>1. CASE UNCHANGED faults
    BY <1>3, <2>1, <1>v, <1>k, OperationPatches DEF apiVars
  <2>2. CASE Fault
    <3>1. CASE api.rv # 0 BY <1>3, <2>2, <3>1, <1>v, <1>k, OperationPatches DEF apiVars
    <3>2. CASE api.rv = 0
      <4>1. Server BY <1>3 DEF Server, apiVars
      <4>2. HandlesKnown(api.st)' BY <1>3, <1>k DEF HandlesKnown, Recorded, apiVars
      <4>3. Disturbances' >= Disturbances /\ processed' >= processed
        BY <1>3, <2>2, <1>y, DisturbancesNext DEF TypeOK
      <4>4. Settled(api.st) => Settled(api.st)'
        <5>1. PICK d \in Nat : d = Disturbances' BY <1>y, DisturbancesNext
        <5>2. d >= Disturbances /\ Disturbances \in Nat BY <5>1, <4>3, <1>y, DisturbancesType
        <5>3. Settled(api.st) => starts <= d \/ (api.st.phase \notin {"unset", "New"} /\ api.st.rs.run # 0)
          BY <5>2, <1>t DEF Settled
        <5> QED BY <1>3, <5>1, <5>3 DEF Settled, apiVars
      <4> QED BY <1>3, <3>2, <4>1, <4>2, <4>3, <4>4, QuietKeeps DEF apiVars
    <3> QED BY <3>1, <3>2
  <2> QED BY <1>3, <2>1, <2>2
<1>4. CASE OpTick
  <2>1. UNCHANGED <<apiVars, processed, faults>> BY <1>4 DEF OpTick
  <2>2. \/ OpGoto("success", NoVRC, NoStatus)
        \/ OpGoto("stat", cache, cache.st) /\ cache.st.phase = "InProgress"
    BY <1>4 DEF OpTick, skipRestoreProgressProcessing
  <2>3. CASE OpGoto("success", NoVRC, NoStatus) BY <2>1, <2>3, <1>2, <1>3
  <2>4. CASE OpGoto("stat", cache, cache.st) /\ cache.st.phase = "InProgress"
    <3>1. OperationHolds' /\ UNCHANGED <<cache, pc, w, wnew, starts, live, crashes>>
      BY <2>4, <1>1, <1>k, <1>o, <1>t, <1>v
    <3> QED BY <2>1, <3>1, <1>3
  <2> QED BY <2>2, <2>3, <2>4
<1>5. CASE OpStat
  <2>1. UNCHANGED <<apiVars, processed, faults>> /\ OpGoto("update", o, SyncRestoreStat(o.st))
        /\ opc = "stat"
    BY <1>5 DEF OpStat
  <2> DEFINE st == SyncRestoreStat(o.st)
  <2>2. /\ st \in Status /\ st.rs.run = o.st.rs.run /\ st.phase \in {"Completed", "Failed", o.st.phase}
    BY <1>y, <1>t, SyncType
  <2>3. OpGoto("update", o, st) BY <2>1
  <2> HIDE DEF st
  <2>4. o.st.phase = "InProgress" /\ HandlesKnown(o.st) BY <2>1, <1>h DEF OperationHolds
  <2>5. HandlesKnown(st) BY <2>2, <2>4 DEF HandlesKnown
  <2>6. OperationHolds' /\ UNCHANGED <<cache, pc, w, wnew, starts, live, crashes>>
    BY <2>2, <2>3, <2>4, <2>5, <1>1, <1>o, <1>v
  <2> QED BY <2>1, <2>6, <1>3
<1>6. CASE OpStatFails
  <2>1. UNCHANGED <<apiVars, processed>> /\ Fault BY <1>6 DEF OpStatFails
  <2>2. OpGoto("tick", NoVRC, NoStatus) \/ OpGoto("failure", NoVRC, NoStatus)
    BY <1>6, Zenon DEF OpStatFails
  <2> QED BY <2>1, <2>2, <1>2, <1>3
<1>7. CASE OpUpdate
  <2> DEFINE b == Patched(o.st, onew)
  <2>1. /\ b \in VRC /\ b.fin = api.fin /\ b.del = api.del /\ b.clean = api.clean
        /\ b.st.phase = IF onew.phase # o.st.phase THEN onew.phase ELSE api.st.phase
        /\ b.st.rs = IF onew.rs # o.st.rs THEN onew.rs ELSE api.st.rs
    BY <1>t, <1>v, PatchedType
  <2>2. /\ opc = "update" /\ api.rv # 0 /\ Commit(b) /\ StoreRevisionUpdate(api'.rv)
        /\ UNCHANGED faults
        /\ \E next \in {"success", "tick"} : OpGoto(next, NoVRC, NoStatus)
    BY <1>7, Zenon DEF OpUpdate
  <2> HIDE DEF b
  <2>3. Commit(b) => Stored(b) BY <1>y, <2>1, CommitStores DEF TypeOK
  <2>4. /\ o.st.phase = "InProgress" /\ HandlesKnown(o.st) /\ HandlesKnown(onew)
        /\ onew.rs.run = o.st.rs.run /\ onew.phase \in {"InProgress", "Completed", "Failed"}
    BY <2>2, <1>h DEF OperationHolds
  <2>5. o.st.rs.run # 0 BY <2>4 DEF HandlesKnown
  <2>6. HandlesKnown(b.st) BY <2>1, <2>4, <2>5, <1>k DEF HandlesKnown
  <2>7. Settled(api.st) => Settled(b.st) BY <2>1, <2>4, <2>5 DEF Settled
  <2>8. OperationHolds' /\ UNCHANGED <<cache, pc, w, wnew, starts, live, crashes>>
    BY <2>2, <1>2
  <2> QED BY <2>1, <2>2, <2>3, <2>6, <2>7, <2>8, OperationPatches DEF apiVars
<1>8. ASSUME NEW at \in OPcs, NEW next \in {"complete", "fail"}, OpOutcome(at, next)
      PROVE  IInv'
  <2>1. UNCHANGED <<apiVars, processed, faults>> BY <1>8 DEF OpOutcome
  <2>2. \/ OpGoto("exit", NoVRC, NoStatus)
        \/ OpGoto(next, cache, cache.st) /\ cache.st.phase = "InProgress"
    BY <1>8 DEF OpOutcome, skipRestoreProgressProcessing
  <2>3. CASE OpGoto("exit", NoVRC, NoStatus) BY <2>1, <2>3, <1>2, <1>3
  <2>4. CASE OpGoto(next, cache, cache.st) /\ cache.st.phase = "InProgress"
    <3>1. OperationHolds' /\ UNCHANGED <<cache, pc, w, wnew, starts, live, crashes>>
      BY <2>4, <1>1, <1>k, <1>o, <1>t, <1>v
    <3> QED BY <2>1, <3>1, <1>3
  <2> QED BY <2>2, <2>3, <2>4
<1>9. ASSUME NEW at \in OPcs, NEW ph \in {"Completed", "Failed"}, OpRecord(at, ph)
      PROVE  IInv'
  <2> DEFINE b == Patched(o.st, [o.st EXCEPT !.phase = ph])
  <2>1. /\ b \in VRC /\ b.fin = api.fin /\ b.del = api.del /\ b.clean = api.clean
        /\ b.st.phase = IF ph # o.st.phase THEN ph ELSE api.st.phase
        /\ b.st.rs = api.st.rs
    <3>1. ph \in Phases /\ ph # "InProgress" BY DEF Phases
    <3> QED BY <3>1, <1>t, PhaseWritable
  <2>2. /\ \/ api.rv # 0 /\ Commit(b) /\ StoreRevisionUpdate(api'.rv) /\ UNCHANGED faults
           \/ UNCHANGED <<apiVars, processed, faults>>
           \/ /\ api.rv # 0 /\ Fault /\ UNCHANGED processed
              /\ UNCHANGED apiVars \/ Commit(b)
        /\ OpGoto("exit", NoVRC, NoStatus)
    BY <1>9, Zenon DEF OpRecord
  <2> HIDE DEF b
  <2>3. Commit(b) => Stored(b) BY <1>y, <2>1, CommitStores DEF TypeOK
  <2>4. HandlesKnown(b.st) BY <2>1, <1>k DEF HandlesKnown
  <2>5. Settled(api.st) => Settled(b.st) BY <2>1 DEF Settled
  <2>6. OperationHolds' /\ UNCHANGED <<cache, pc, w, wnew, starts, live, crashes>>
    BY <2>2, <1>2
  <2> QED BY <2>1, <2>2, <2>3, <2>4, <2>5, <2>6, OperationPatches DEF apiVars
<1>10. CASE OpExit
  <2>1. UNCHANGED <<apiVars, processed, faults>> /\ OpGoto("none", NoVRC, NoStatus)
    BY <1>10 DEF OpExit
  <2> QED BY <2>1, <1>2, <1>3
<1>11. "success" \in OPcs /\ "failure" \in OPcs /\ "complete" \in OPcs /\ "fail" \in OPcs
  BY <1>o
<1> QED BY <1>4, <1>5, <1>6, <1>7, <1>8, <1>9, <1>10, <1>11, PanicKeeps DEF Operation

\* What is stored is known and settled as before when only the copies move.
LEMMA StoredAsBefore ==
    ASSUME IInv, TypeOK', api'.st = api.st, UNCHANGED <<pc, starts, faults, crashes>>
    PROVE  /\ HandlesKnown(api.st)' /\ (Settled(api.st) => Settled(api.st)')
           /\ Disturbances' >= Disturbances
<1>y. TypeOK BY DEF IInv
<1>1. HandlesKnown(api.st) BY DEF IInv, CopiesSettled, Copies
<1>2. Disturbances' = Disturbances BY <1>y, DisturbancesNext
<1>3. Recorded' = Recorded BY DEF Recorded
<1>4. Disturbances \in Nat BY <1>y, DisturbancesNext
<1> QED BY <1>1, <1>2, <1>3, <1>4 DEF HandlesKnown, Settled

\* Every step of the informer, the resync loop, the other controllers, the driver and the
\* clock keeps the invariant.
LEMMA EnvironmentKeeps ==
    ASSUME IInv, TypeOK',
           Informer \/ ReSync \/ AnnotateVRC \/ DeleteVRC \/ DriverProgress \/ TimePasses
    PROVE  IInv'
<1>y. TypeOK BY DEF IInv
<1>v. api \in VRC /\ api.rv \in Nat /\ processed \in Nat BY <1>y, VRCFields DEF TypeOK
<1>k. api.rv # 0 => processed <= api.rv BY DEF IInv, CopiesBehind
<1>0. /\ UNCHANGED <<pc, w, wnew, starts, live, processed, faults, crashes, opc, o, onew>>
  BY DEF Informer, ReSync, AnnotateVRC, DeleteVRC, DriverProgress, TimePasses, EnvUnchanged,
         workerVars, opVars, driverVars
<1>h. OperationHolds'
  <2>1. Recorded' = Recorded BY <1>0 DEF Recorded
  <2> QED BY <1>0, <2>1 DEF IInv, OperationHolds, HandlesKnown
<1>1. CASE api' = api /\ Server
  <2>1. /\ HandlesKnown(api.st)' /\ (Settled(api.st) => Settled(api.st)')
        /\ Disturbances' >= Disturbances
    BY <1>0, <1>1, StoredAsBefore
  <2>2. processed' >= processed /\ (api'.rv # 0 => processed' <= api'.rv)
    BY <1>0, <1>1, <1>k, <1>v
  <2> QED BY <1>0, <1>1, <1>h, <2>1, <2>2, QuietKeeps
<1>2. ASSUME NEW b \in VRC, Commit(b), api.rv # 0, b.st = api.st, cache' = cache,
             b.fin = api.fin, api.del => b.del /\ b.clean = api.clean
      PROVE  IInv'
  <2>1. Stored(b) BY <1>2, <1>y, CommitStores DEF TypeOK
  <2>2. /\ Server /\ api'.rv # 0 /\ api'.rv >= api.rv /\ api'.rv \in Nat
        /\ api'.st = b.st /\ api'.fin = b.fin /\ api'.del = b.del /\ api'.clean = b.clean
    BY <1>2, <2>1, <1>y, StoredServer
  <2>3. /\ HandlesKnown(api.st)' /\ (Settled(api.st) => Settled(api.st)')
        /\ Disturbances' >= Disturbances
    BY <1>0, <1>2, <2>2, StoredAsBefore
  <2>4. processed' >= processed /\ (api'.rv # 0 => processed' <= api'.rv)
    BY <1>0, <1>2, <2>2, <1>k, <1>v
  <2> QED BY <1>0, <1>2, <1>h, <2>2, <2>3, <2>4, QuietKeeps
<1>3. CASE Informer
  <2>1. api' = api /\ Server BY <1>3 DEF Informer, Server
  <2> QED BY <1>1, <2>1
<1>4. CASE ReSync \/ DriverProgress \/ TimePasses
  <2>1. UNCHANGED <<api, watch, cache>>
    BY <1>4 DEF ReSync, DriverProgress, TimePasses, EnvUnchanged, apiVars
  <2> QED BY <1>1, <2>1 DEF Server
<1>5. CASE AnnotateVRC
  <2> DEFINE b == [api EXCEPT !.clean = TRUE]
  <2>1. /\ Commit(b) /\ api.rv # 0 /\ cache' = cache /\ ~api.del
        /\ b \in VRC /\ b.st = api.st /\ b.fin = api.fin /\ b.del = api.del
    BY <1>5, <1>v DEF AnnotateVRC, EnvUnchanged, VRC
  <2> HIDE DEF b
  <2> QED BY <1>2, <2>1
<1>6. CASE DeleteVRC
  <2>0. api.rv # 0 /\ cache' = cache /\ ~api.del BY <1>6 DEF DeleteVRC, EnvUnchanged
  <2>1. CASE Commit([api EXCEPT !.del = TRUE])
    <3> DEFINE b == [api EXCEPT !.del = TRUE]
    <3>1. Commit(b) /\ b \in VRC /\ b.st = api.st /\ b.fin = api.fin
      BY <2>1, <1>v DEF VRC
    <3> HIDE DEF b
    <3> QED BY <1>2, <2>0, <3>1
  <2>2. CASE ~api.fin /\ Remove
    <3>1. pc \notin {"init", "create", "createFailed", "created", "cancel", "delFinalizer"}
      BY <2>0, <2>2 DEF IInv, WorkerHolds
    <3>2. ~(pc = "switch" /\ w.st.phase \in {"unset", "New"})
      BY <2>0, <2>2 DEF IInv, WorkerHolds
    <3>3. api'.rv = 0 BY <2>2, NoVRCType DEF Remove
    <3>4. Recorded' = Recorded BY <1>0 DEF Recorded
    <3>5. HandlesKnown(w.st)' BY <1>0, <3>4 DEF IInv, WorkerHolds, HandlesKnown
    <3>6. WorkerHolds' BY <1>0, <3>1, <3>2, <3>3, <3>5 DEF WorkerHolds
    <3> QED BY <1>0, <1>h, <2>0, <2>2, <3>4, <3>6, RemovalKeeps
  <2> QED BY <1>6, <2>1, <2>2 DEF DeleteVRC
<1> QED BY <1>3, <1>4, <1>5, <1>6

\* A crash is paid for.
LEMMA CrashKeeps ==
    ASSUME IInv, TypeOK', Crash
    PROVE  IInv'
<1>y. TypeOK BY DEF IInv
<1>v. api \in VRC BY <1>y DEF TypeOK
<1>t. api.st.rs.run \in Nat /\ starts \in Nat /\ Disturbances \in Nat
  BY <1>v, <1>y, VRCFields, DisturbancesType
<1>0. UNCHANGED <<api, starts, live, faults>> /\ crashes' = crashes + 1 /\ Restart
  BY DEF Crash, driverVars
<1>1. Disturbances' = Disturbances + 1 BY <1>0, <1>y, DisturbancesNext
<1>2. Disturbances' > Disturbances /\ Disturbances' >= Disturbances BY <1>1, <1>t
<1>3. Recorded' = starts /\ Recorded <= starts /\ Recorded \in Int
  BY <1>0, <1>t DEF Recorded, Restart, Idle
<1>4. HandlesKnown(api.st) BY DEF IInv, CopiesSettled, Copies
<1>5. HandlesKnown(api.st)' BY <1>0, <1>3, <1>4, <1>t DEF HandlesKnown
<1> QED BY <1>0, <1>2, <1>5, RestartKeeps

\* Every step keeps the invariant.
LEMMA NextKeeps ==
    ASSUME IInv, [Next]_vars
    PROVE  IInv'
<1>1. TypeOK' BY NextType DEF IInv
<1>2. CASE UNCHANGED vars
  BY <1>2 DEF vars, IInv, TypeOK, CopiesBehind, FinalizerFirst, CopiesSettled, WorkerHolds,
     OperationHolds, StartsPaidFor, Copies, Arriving, HandlesKnown, Settled, Recorded,
     Disturbances, needCancel
<1> QED BY <1>1, <1>2, WorkerKeeps, OperationKeeps, EnvironmentKeeps, CrashKeeps DEF Next

\* The invariant holds initially.
LEMMA InitKeeps ==
    ASSUME Init
    PROVE  IInv
<1>y. TypeOK BY InitType
<1>n. /\ NoVRC.rv = 0 /\ NoVRC.st = NoStatus /\ ~NoVRC.del /\ ~NoVRC.fin
      /\ NoStatus.rs.run = 0 /\ NoStatus.phase = "unset" /\ NoVRC \in VRC
  BY NoVRCType
<1>0. /\ watch = <<api>> /\ cache = NoVRC /\ processed = 0 /\ pc = "idle" /\ w = NoVRC
      /\ opc = "none" /\ o = NoVRC /\ onew = NoStatus /\ starts = 0 /\ live = {}
  BY DEF Init
<1>1. api.rv = 1 /\ api.st = NoStatus /\ ~api.del /\ ~api.fin
  <2>1. api = [NoVRC EXCEPT !.rv = 1] BY DEF Init
  <2> QED BY <2>1, <1>n DEF VRC
<1>2. Arriving = {NoVRC, api} /\ Copies = {NoVRC, api}
  <2>1. {watch[i] : i \in DOMAIN watch} = {api} BY <1>0
  <2> QED BY <2>1, <1>0 DEF Copies, Arriving
<1>3. Disturbances \in Nat /\ Recorded = 0
  BY <1>y, <1>0, DisturbancesType DEF Recorded
<1>4. \A st : Settled(st) BY <1>0, <1>3 DEF Settled
<1>5. HandlesKnown(NoStatus) BY <1>n, <1>3 DEF HandlesKnown
<1>6. CopiesBehind /\ FinalizerFirst BY <1>0, <1>1, <1>2, <1>n DEF CopiesBehind, FinalizerFirst
<1>7. CopiesSettled BY <1>1, <1>2, <1>4, <1>5, <1>n DEF CopiesSettled
<1>8. WorkerHolds /\ OperationHolds BY <1>0, <1>5, <1>n DEF WorkerHolds, OperationHolds
<1>9. StartsPaidFor BY <1>0, <1>3 DEF StartsPaidFor
<1> QED BY <1>y, <1>6, <1>7, <1>8, <1>9 DEF IInv

\* The inductive invariant holds in every reachable state.
THEOREM Inductive == Spec => []IInv
<1>1. Init => IInv BY InitKeeps
<1>2. IInv /\ [Next]_vars => IInv' BY NextKeeps
<1> QED BY <1>1, <1>2, PTL DEF Spec

\* The driver creates the volumes of a restore once, and once more for every failed call
\* or crash: for any number of volumes, retries and disturbances, and however late events
\* are.
THEOREM CreatedOnce == Spec => []StartsPaidFor
<1>1. IInv => StartsPaidFor BY DEF IInv
<1> QED BY <1>1, Inductive, PTL

\* Only two steps make the object go: the worker's last one, and a deletion before there
\* was a finalizer.
LEMMA WhoRemoves ==
    ASSUME IInv, Next, api.rv # 0, api'.rv = 0
    PROVE  RemoveFinalizer \/ (DeleteVRC /\ ~api.fin)
<1>y. TypeOK BY DEF IInv
<1>v. api \in VRC /\ o \in VRC /\ w \in VRC /\ onew \in Status /\ wnew \in Status
  BY <1>y DEF TypeOK
<1>t. api.rv \in Nat /\ w.st \in Status /\ o.st \in Status BY <1>v, VRCFields
<1>p. "Failed" \in Phases /\ "Completed" \in Phases /\ "New" \in Phases BY DEF Phases
\* a write leaves an object
<1>1. ASSUME NEW b \in VRC, Commit(b) PROVE FALSE
  <2> DEFINE new == [b EXCEPT !.rv = api.rv + 1]
  <2>1. new.rv = api.rv + 1 BY DEF VRC
  <2>2. api' = api \/ api' = new BY <1>1 DEF Commit, apiVars
  <2> HIDE DEF new
  <2> QED BY <2>1, <2>2, <1>t
<1>2. ASSUME NEW b \in VRC, NEW next, WorkerWrite(b, next) PROVE FALSE
  BY <1>2, <1>1 DEF WorkerWrite, apiVars
<1>3. ASSUME UNCHANGED apiVars PROVE FALSE BY <1>3 DEF apiVars
<1>4. ASSUME Worker PROVE RemoveFinalizer
  <2>1. \A next : ~Local(next) BY <1>3 DEF Local
  <2>2. ~SetFinalizer
    <3>1. [api EXCEPT !.fin = TRUE] \in VRC BY <1>v DEF VRC
    <3> QED BY <3>1, <1>2 DEF SetFinalizer
  <2>3. ~UpdateStatus
    <3>1. [api EXCEPT !.st.phase = IF @ = "unset" THEN "New" ELSE @] \in VRC
      BY <1>v, <1>p DEF VRC, Status
    <3> QED BY <3>1, <1>2, <2>1, Zenon DEF UpdateStatus
  <2>4. ~CreateFailed /\ ~Created
    BY <1>y, <1>p, <1>2, PhasePatchType DEF CreateFailed, Created
  <2>5. ~ProcessVolumeRestore BY <2>1, Zenon DEF ProcessVolumeRestore
  <2>6. ~(ProcessQueue \/ CreateVolumeFromBackup \/ CreateVolumeFails \/ RunOperation)
    BY <1>3 DEF ProcessQueue, CreateVolumeFromBackup, CreateVolumeFails, RunOperation
  <2>7. ~CancelRestore BY <1>3, <2>1 DEF CancelRestore
  <2> QED BY <1>4, <2>2, <2>3, <2>4, <2>5, <2>6, <2>7 DEF Worker
<1>5. ~OpUpdatePanics
  <2> DEFINE b == Patched(o.st, onew)
  <2>1. OpUpdatePanics => api' = api \/ api' = [b EXCEPT !.rv = @ + 1] BY DEF OpUpdatePanics
  <2>2. b \in VRC /\ b.rv = api.rv BY <1>v, <1>t, PatchedType
  <2> HIDE DEF b
  <2> DEFINE new == [b EXCEPT !.rv = @ + 1]
  <2>3. new.rv = api.rv + 1 BY <2>2 DEF VRC
  <2>4. OpUpdatePanics => api' = api \/ api' = new BY <2>1
  <2> HIDE DEF new
  <2> QED BY <2>3, <2>4, <1>t
<1>6. ~(OpTick \/ OpStat \/ OpStatFails \/ OpExit)
  BY <1>3 DEF OpTick, OpStat, OpStatFails, OpExit
<1>7. \A at, next : ~OpOutcome(at, next) BY <1>3 DEF OpOutcome
<1>8. ~OpUpdate BY <1>y, <1>p, <1>1, PhasePatchType DEF OpUpdate
<1>9. \A at : ~OpRecord(at, "Completed") /\ ~OpRecord(at, "Failed")
  BY <1>y, <1>p, <1>1, <1>3, PhasePatchType DEF OpRecord
<1>10. ~Operation BY <1>5, <1>6, <1>7, <1>8, <1>9 DEF Operation
<1>11. ~(Informer \/ ReSync \/ DriverProgress \/ TimePasses \/ Crash)
  BY DEF Informer, ReSync, DriverProgress, TimePasses, Crash, apiVars
<1>12. ~AnnotateVRC
  <2>1. [api EXCEPT !.clean = TRUE] \in VRC BY <1>v DEF VRC
  <2> QED BY <2>1, <1>1 DEF AnnotateVRC
<1>13. DeleteVRC => ~api.fin
  <2>1. [api EXCEPT !.del = TRUE] \in VRC BY <1>v DEF VRC
  <2> QED BY <2>1, <1>1 DEF DeleteVRC
<1> QED BY <1>4, <1>10, <1>11, <1>12, <1>13 DEF Next

\* When the object of an unfinished restore goes, the driver keeps none of its volumes,
\* except one set per failed call or crash: for any number of volumes and disturbances.
THEOREM CleanedUpWhenGone == Spec => CleanedUp
<1>1. ASSUME IInv, [Next]_vars, api.clean, api'.rv = 0
      PROVE  Cardinality(live) <= Disturbances
  <2>y. TypeOK BY <1>1 DEF IInv
  <2>t. Disturbances \in Nat /\ starts \in Nat BY <2>y, DisturbancesType
  <2>1. api.rv # 0 BY <1>1 DEF IInv, FinalizerFirst
  <2>2. Next BY <1>1, <2>1 DEF vars
  <2>3. CASE RemoveFinalizer
    <3>1. pc = "delFinalizer" BY <2>3 DEF RemoveFinalizer
    <3>2. w.clean BY <1>1, <2>1, <3>1 DEF IInv, WorkerHolds
    <3> QED BY <1>1, <2>1, <3>1, <3>2 DEF IInv, WorkerHolds, needCancel
  <2>4. CASE ~api.fin
    <3>1. starts = 0 BY <1>1, <2>1, <2>4, <2>t DEF IInv, FinalizerFirst
    <3> QED BY <3>1, <2>y, <2>t, LiveBound
  <2> QED BY <1>1, <2>1, <2>2, <2>3, <2>4, WhoRemoves
<1>2. IInv /\ [Next]_vars => [api.clean /\ api'.rv = 0 => Cardinality(live) <= Disturbances]_vars
  BY <1>1
<1> QED BY <1>2, Inductive, PTL DEF Spec, CleanedUp

-----------------------------------------------------------------------------
(* What the copies say of the object, when events arrive within the poll interval *)

\* The copies are objects.
LEMMA CopiesType ==
    ASSUME TypeOK
    PROVE  /\ Copies \subseteq VRC /\ \A c \in Copies : c.rv \in Nat
           /\ api \in Copies /\ cache \in Copies /\ Arriving \subseteq Copies
<1>1. api \in VRC BY DEF TypeOK
<1>2. Copies \subseteq VRC BY <1>1, ArrivingType DEF Copies
<1> QED BY <1>2, VRCFields DEF Copies, Arriving

\* What may be seen after a step was seen before, or is the stored object.
LEMMA CopiesNext ==
    ASSUME TypeOK, TypeOK', Server
    PROVE  Copies' \subseteq Copies \cup {api'}
BY ArrivingNext DEF Copies

\* The stored object is changed by a new revision only.
LEMMA ServerOnward ==
    ASSUME TypeOK, TypeOK', Server, api'.rv # 0
    PROVE  /\ api.rv \in Nat /\ api'.rv \in Nat /\ api.rv # 0 /\ api.rv <= api'.rv
           /\ (api' = api \/ api'.rv = api.rv + 1) /\ (api.del => api'.del)
<1>1. api.rv \in Nat /\ api'.rv \in Nat BY VRCFields DEF TypeOK
<1> QED BY <1>1, NoVRCType DEF Server, Revised

\* One version after another
LEMMA NotBehindOrder ==
    /\ \A a : NotBehind(a, a)
    /\ \A a, b, c : NotBehind(a, b) /\ NotBehind(b, c) => NotBehind(a, c)
BY DEF NotBehind

\* Versions keep their order when nothing behind the stored object is written.
LEMMA VersionsKept ==
    ASSUME TypeOK, TypeOK', CopiesBehind, VersionsInOrder, Server, api'.rv # 0,
           NotBehind(api, api'), cache.rv = 0 => pc' = "idle" /\ opc' = "none"
    PROVE  VersionsInOrder'
<1>o. /\ api.rv \in Nat /\ api'.rv \in Nat /\ api.rv # 0 /\ api.rv <= api'.rv
      /\ (api' = api \/ api'.rv = api.rv + 1)
  BY ServerOnward
<1>c. /\ Copies' \subseteq Copies \cup {api'} /\ Arriving' \subseteq Arriving \cup {api'}
      /\ \A c \in Copies : c.rv \in Nat /\ c.rv <= api.rv
  BY <1>o, CopiesNext, CopiesType, ArrivingNext DEF CopiesBehind, Copies
<1>t. /\ watch \in Seq(VRC) /\ \A i \in DOMAIN watch : watch[i].rv \in Nat /\ watch[i].rv <= api.rv
      /\ watch' \in Seq(VRC) /\ cache.rv \in Nat /\ cache.rv <= api.rv
  BY <1>c DEF TypeOK, Copies, Arriving
<1>a. \A c \in Copies : c.rv = api.rv => c = api BY DEF VersionsInOrder, Copies
<1>1. cache'.rv = 0 => pc' = "idle" /\ opc' = "none"
  <2>1. cache' = cache \/ cache' = api' \/ (watch # <<>> /\ cache' = watch[1]) BY <1>t DEF Server
  <2>2. watch # <<>> => 1 \in DOMAIN watch BY <1>t
  <2>3. watch # <<>> => watch[1].rv # 0 BY <2>2, <1>t DEF VersionsInOrder
  <2> QED BY <2>1, <2>3, <1>o
<1>2. \A c \in Arriving' : c.rv = api'.rv => c = api'
  <2> SUFFICES ASSUME NEW c \in Arriving', c.rv = api'.rv PROVE c = api' OBVIOUS
  <2>1. CASE c \in Arriving
    <3>1. c.rv <= api.rv /\ c.rv \in Nat BY <2>1, <1>c DEF Copies
    <3>2. api' = api BY <3>1, <1>o
    <3> QED BY <2>1, <3>2, <1>a DEF Copies
  <2> QED BY <2>1, <1>c
<1>3. /\ \A i \in DOMAIN watch' : cache'.rv < watch'[i].rv
      /\ \A i, j \in DOMAIN watch' : i < j => watch'[i].rv < watch'[j].rv
  <2>1. CASE UNCHANGED <<api, watch, cache>> BY <2>1 DEF VersionsInOrder
  <2>2. CASE api'.rv = api.rv + 1 /\ watch' = Append(watch, api') /\ cache' = cache
    <3>1. \A i \in DOMAIN watch' : \/ i \in DOMAIN watch /\ watch'[i] = watch[i]
                                   \/ i = Len(watch) + 1 /\ watch'[i] = api'
      BY <1>t, <2>2
    <3>2. DOMAIN watch = 1..Len(watch) BY <1>t
    <3>3. \A i \in DOMAIN watch : watch[i].rv < api'.rv BY <1>t, <1>o, <2>2
    <3>4. cache.rv < api'.rv BY <1>t, <1>o, <2>2
    <3> QED BY <2>2, <3>1, <3>2, <3>3, <3>4, <1>t DEF VersionsInOrder
  <2>3. CASE watch # <<>> /\ cache' = Head(watch) /\ watch' = Tail(watch)
    <3>1. cache' = watch[1] /\ 1 \in DOMAIN watch BY <1>t, <2>3
    <3>2. \A i \in DOMAIN watch' : /\ i \in Nat /\ i + 1 \in DOMAIN watch /\ 1 < i + 1
                                   /\ watch'[i] = watch[i + 1]
      BY <1>t, <2>3
    <3> QED BY <3>1, <3>2 DEF VersionsInOrder
  <2>4. CASE watch' = <<>> BY <2>4
  <2> QED BY <2>1, <2>2, <2>3, <2>4, NoVRCType DEF Server, Revised
<1>4. \A c, d \in Copies' : c.rv # 0 /\ c.rv <= d.rv => NotBehind(c, d)
  <2> SUFFICES ASSUME NEW c \in Copies', NEW d \in Copies', c.rv # 0, c.rv <= d.rv
               PROVE  NotBehind(c, d)
    OBVIOUS
  <2>0. api \in Copies BY DEF Copies
  <2>1. CASE c \in Copies /\ d \in Copies BY <2>1 DEF VersionsInOrder
  <2>2. CASE c \in Copies /\ d = api'
    <3>1. NotBehind(c, api) BY <2>0, <2>2, <1>c DEF VersionsInOrder
    <3> QED BY <2>2, <3>1, NotBehindOrder
  <2>3. CASE c = api' /\ d \in Copies
    <3>1. api' = api BY <2>3, <1>c, <1>o
    <3> QED BY <2>0, <2>3, <3>1 DEF VersionsInOrder
  <2>4. CASE c = api' /\ d = api' BY <2>4, NotBehindOrder
  <2> QED BY <2>1, <2>2, <2>3, <2>4, <1>c
<1> QED BY <1>1, <1>2, <1>3, <1>4 DEF VersionsInOrder

\* The operation is right as before when, while it exists, the status is not written.
LEMMA OperationWaits ==
    ASSUME TypeOK, TypeOK', CopiesBehind, OperationAhead, Server, api'.rv # 0,
           UNCHANGED <<opc, o, onew, due>>,
           opc # "none" =>
              api'.st.rs = api.st.rs /\ api'.st.phase = api.st.phase
    PROVE  OperationAhead'
<1>o. /\ api.rv \in Nat /\ api'.rv \in Nat /\ api.rv # 0 /\ api.rv <= api'.rv
      /\ (api' = api \/ api'.rv = api.rv + 1) /\ (api.del => api'.del)
  BY ServerOnward
<1>c. /\ Copies' \subseteq Copies \cup {api'} /\ api \in Copies
      /\ \A c \in Copies : c.rv \in Nat /\ c.rv <= api.rv
  BY <1>o, CopiesNext, CopiesType DEF CopiesBehind, Copies
<1>d. due \in Nat BY DEF TypeOK
<1>1. CASE opc = "none" BY <1>1 DEF OperationAhead
<1>2. CASE opc # "none"
  <2>1. \A c, d \in Copies' :
           due <= c.rv /\ c.rv <= d.rv /\ c.st.phase # "InProgress" => d.st.phase # "InProgress"
    <3> SUFFICES ASSUME NEW c \in Copies', NEW d \in Copies', due <= c.rv, c.rv <= d.rv,
                        c.st.phase # "InProgress", d.st.phase = "InProgress"
                 PROVE  FALSE
      OBVIOUS
    <3>1. CASE c \in Copies /\ d \in Copies BY <3>1, <1>2 DEF OperationAhead
    <3>2. CASE c \in Copies /\ d = api'
      <4>1. api.st.phase # "InProgress" BY <3>2, <1>2, <1>c DEF OperationAhead
      <4> QED BY <4>1, <3>2, <1>2
    <3>3. CASE c = api' /\ d \in Copies
      <4>1. api' = api BY <3>3, <1>c, <1>o
      <4> QED BY <4>1, <3>3, <1>2, <1>c DEF OperationAhead
    <3> QED BY <3>1, <3>2, <3>3, <1>c
  <2>2. opc = "tick" => \A c \in Copies' : c.rv >= due =>
             /\ c.st.rs = api'.st.rs
             /\ ~skipRestoreProgressProcessing(c) => api'.st.phase = "InProgress"
    <3> SUFFICES ASSUME opc = "tick", NEW c \in Copies', c.rv >= due
                 PROVE  /\ c.st.rs = api'.st.rs
                        /\ ~skipRestoreProgressProcessing(c) =>
                              api'.st.phase = "InProgress"
      OBVIOUS
    <3>1. CASE c \in Copies
      <4>1. /\ c.st.rs = api.st.rs
            /\ ~skipRestoreProgressProcessing(c) => api.st.phase = "InProgress"
        BY <3>1 DEF OperationAhead
      <4> QED BY <4>1, <1>2
    <3>2. CASE c = api' BY <3>2 DEF skipRestoreProgressProcessing
    <3> QED BY <3>1, <3>2, <1>c
  <2>3. opc = "success" => \/ api'.st.phase = "Completed"
                           \/ \A c \in Copies' : skipRestoreProgressProcessing(c)
    <3> SUFFICES ASSUME opc = "success", api'.st.phase # "Completed"
                 PROVE  \A c \in Copies' : skipRestoreProgressProcessing(c)
      OBVIOUS
    <3>1. \A c \in Copies : skipRestoreProgressProcessing(c) BY <1>2 DEF OperationAhead
    <3>2. skipRestoreProgressProcessing(api')
      BY <3>1, <1>2, <1>c, <1>o DEF skipRestoreProgressProcessing
    <3> QED BY <3>1, <3>2, <1>c
  <2>4. /\ opc \in {"stat", "update"} => o.st.rs = api'.st.rs
        /\ opc \in {"stat", "update", "failure", "fail"} =>
              api'.st.phase = "InProgress"
        /\ opc = "complete" => api'.st.phase = "Completed"
    BY <1>2 DEF OperationAhead
  <2>5. opc = "update" /\ onew.phase = "Completed" => ProgressCompleted(onew.rs.prog)
    BY DEF OperationAhead
  <2> QED BY <2>1, <2>2, <2>3, <2>4, <2>5 DEF OperationAhead, ProgressCompleted
<1> QED BY <1>1, <1>2

\* The worker is right as before when it does nothing, and the phase is written only by an
\* operation.
LEMMA WorkerWaits ==
    ASSUME TypeOK, TypeOK', CopiesBehind, WorkerBehind, OneAtATime, Server, api'.rv # 0,
           NotBehind(api, api'), UNCHANGED <<pc, w>>, processed' >= processed,
           opc = "none" => api'.st.phase = api.st.phase
    PROVE  WorkerBehind'
<1>o. api.rv \in Nat /\ api.rv # 0 BY ServerOnward
<1>c. /\ Copies' \subseteq Copies \cup {api'} /\ api \in Copies
      /\ \A c \in Copies : c.rv \in Nat
  BY CopiesNext, CopiesType
<1>d. processed \in Nat /\ processed' \in Nat BY DEF TypeOK
<1>a. \A c \in Copies : Accessible(c)' => Accessible(c) BY <1>c, <1>d DEF Accessible
<1>b. Accessible(api) BY <1>o DEF Accessible, CopiesBehind
<1>1. pc # "idle" /\ Begun(w.st) => \A c \in Copies' : Accessible(c)' => Begun(c.st)
  <2>1. pc # "idle" /\ Begun(w.st) => Begun(api'.st)
    BY <1>b, <1>c DEF WorkerBehind, NotBehind
  <2> QED BY <2>1, <1>a, <1>c DEF WorkerBehind
<1>2. ASSUME pc \in {"switch", "create", "createFailed", "created"}, ~Begun(w.st)
      PROVE  ~Begun(api'.st)
  <2>1. ~Begun(api.st) /\ opc = "none" BY <1>2 DEF WorkerBehind, OneAtATime
  <2> QED BY <2>1 DEF Begun
<1> QED BY <1>1, <1>2 DEF WorkerBehind
\* Nothing is started as before when the operation was there before, and the worker holds
\* what it held, what is stored or what the lister had.
LEMMA OneWaits ==
    ASSUME TypeOK, TypeOK', CopiesBehind, OneAtATime, Server, api'.rv # 0,
           NotBehind(api, api'), processed' >= processed, opc' # "none" => opc # "none",
           \/ pc' = "idle"
           \/ pc # "idle" /\ w' = w
           \/ w' = api'
           \/ \E c \in Copies : Accessible(c) /\ w' = c
    PROVE  OneAtATime'
<1>o. api.rv \in Nat /\ api.rv # 0 BY ServerOnward
<1>c. /\ Copies' \subseteq Copies \cup {api'} /\ api \in Copies
      /\ \A c \in Copies : c.rv \in Nat
  BY CopiesNext, CopiesType
<1>d. processed \in Nat /\ processed' \in Nat BY DEF TypeOK
<1>a. \A c \in Copies : Accessible(c)' => Accessible(c) BY <1>c, <1>d DEF Accessible
<1>b. Accessible(api) BY <1>o DEF Accessible, CopiesBehind
<1> SUFFICES ASSUME opc # "none"
             PROVE  /\ \A c \in Copies' : Accessible(c)' => Begun(c.st)
                    /\ pc' # "idle" => Begun(w'.st)
  BY DEF OneAtATime
<1>1. Begun(api'.st) BY <1>b, <1>c DEF OneAtATime, NotBehind
<1>2. \A c \in Copies' : Accessible(c)' => Begun(c.st) BY <1>a, <1>c, <1>1 DEF OneAtATime
<1>3. pc' # "idle" => Begun(w'.st) BY <1>1 DEF OneAtATime
<1> QED BY <1>2, <1>3

\* After a write of the worker that succeeded its copy is the stored object, and all the
\* lister may still give it.
LEMMA WriteDone ==
    ASSUME TypeOK, TypeOK', CopiesBehind', VersionsInOrder', Server, api'.rv # 0,
           processed' >= api'.rv, w' = api', pc' = "run" => Begun(api'.st)
    PROVE  WorkerBehind'
<1>o. api.rv \in Nat /\ api'.rv \in Nat BY ServerOnward
<1>1. \A c \in Copies' : Accessible(c)' => c = api'
  <2> SUFFICES ASSUME NEW c \in Copies', Accessible(c)' PROVE c = api' OBVIOUS
  <2>1. CASE c \in Arriving'
    <3>0. c \in VRC BY <2>1, ArrivingNext, ArrivingType DEF TypeOK
    <3>1. c.rv \in Nat /\ c.rv <= api'.rv BY <2>1, <3>0, VRCFields DEF CopiesBehind
    <3>2. c.rv >= processed' /\ processed' \in Nat BY DEF Accessible, TypeOK
    <3>3. c.rv = api'.rv BY <3>1, <3>2, <1>o
    <3> QED BY <3>3, <2>1 DEF VersionsInOrder
  <2> QED BY <2>1 DEF Copies
<1> QED BY <1>1 DEF WorkerBehind
\* A step that leaves the object in place, and is right about the worker and the operation
\* and about handles and progress, keeps the invariant.
LEMMA StepKeeps ==
    ASSUME IInv, IInv', PromptInv, Server, api'.rv # 0,
           NotBehind(api, api'), cache.rv = 0 => pc' = "idle" /\ opc' = "none",
           WorkerBehind', OneAtATime', OperationAhead', progress' = progress,
           \A rs \in {w'.st.rs, wnew'.rs, o'.st.rs, onew'.rs, api'.st.rs} :
              rs \in RestoreStates \cup {NoState} \/ ProgressKnown(rs)',
           pc' = "created" => starts' \in live',
           ~api'.del => live \subseteq live' /\ api'.st.rs.run \in live' \cup {api.st.rs.run},
           api'.st.phase = "Completed" /\ ~api'.del =>
              \/ api.st.phase = "Completed" /\ api'.st.rs = api.st.rs
              \/ /\ api'.st.rs.run \in live'
                 /\ \A v \in Volumes : progress[api'.st.rs.run][v] = Full
    PROVE  PromptInv'
<1>y. TypeOK /\ TypeOK' /\ CopiesBehind BY DEF IInv
<1>o. api.rv # 0 /\ (api.del => api'.del) BY <1>y, ServerOnward
<1>1. VersionsInOrder' BY <1>y, <1>o, VersionsKept DEF PromptInv
<1>2. ASSUME NEW rs \in RestoreStates' PROVE ProgressKnown(rs)'
  <2>1. ProgressKnown(rs) => ProgressKnown(rs)' BY DEF ProgressKnown
  <2>2. rs \in RestoreStates => ProgressKnown(rs)' BY <2>1 DEF PromptInv, DriverKnows
  <2>3. ProgressKnown(NoState)'
    <3>1. NoState.run = 0 /\ \A v \in Volumes : NoState.prog[v] = 0
      BY DEF NoState, Untouched
    <3> QED BY <3>1 DEF ProgressKnown
  <2>4. CASE rs \in {w'.st.rs, wnew'.rs, o'.st.rs, onew'.rs, api'.st.rs} BY <2>2, <2>3, <2>4
  <2>5. CASE \E c \in Copies' : rs = c.st.rs
    <3>1. PICK c \in Copies' : rs = c.st.rs BY <2>5
    <3>2. c \in Copies \/ c = api' BY <1>y, CopiesNext
    <3>3. c \in Copies => rs \in RestoreStates BY <3>1 DEF RestoreStates
    <3> QED BY <2>2, <2>4, <3>1, <3>2, <3>3
  <2> QED BY <2>4, <2>5 DEF RestoreStates
<1>3. DriverKnows'
  <2>1. api'.st.rs.run # 0 /\ ~api'.del => api'.st.rs.run \in live'
    BY <1>o DEF PromptInv, DriverKnows
  <2> QED BY <1>2, <2>1 DEF DriverKnows
<1>4. CompletedMeansDone'
  <2> SUFFICES ASSUME api'.st.phase = "Completed", ~api'.del
               PROVE  /\ api'.st.rs.run \in live'
                      /\ \A v \in Volumes : progress'[api'.st.rs.run][v] = Full
    BY DEF CompletedMeansDone
  <2>1. CASE api.st.phase = "Completed" /\ api'.st.rs = api.st.rs
    BY <1>o, <2>1 DEF PromptInv, CompletedMeansDone
  <2> QED BY <2>1
<1> QED BY <1>1, <1>3, <1>4 DEF PromptInv

\* When the object is gone little remains to be right about.
LEMMA GoneKeeps ==
    ASSUME TypeOK, TypeOK', PromptInv, Server, api' = NoVRC, progress' = progress,
           \A rs \in {w'.st.rs, wnew'.rs, o'.st.rs, onew'.rs} :
              rs \in RestoreStates \cup {NoState} \/ ProgressKnown(rs)',
           pc' # "created"
    PROVE  PromptInv'
<1>n. NoVRC.rv = 0 /\ NoVRC.st.phase = "unset" /\ NoVRC.st.rs = NoState /\ NoState.run = 0
  BY NoVRCType
<1>1. ASSUME NEW rs \in RestoreStates' PROVE ProgressKnown(rs)'
  <2>1. ProgressKnown(rs) => ProgressKnown(rs)' BY DEF ProgressKnown
  <2>2. rs \in RestoreStates => ProgressKnown(rs)' BY <2>1 DEF PromptInv, DriverKnows
  <2>3. ProgressKnown(NoState)'
    <3>1. NoState.run = 0 /\ \A v \in Volumes : NoState.prog[v] = 0
      BY DEF NoState, Untouched
    <3> QED BY <3>1 DEF ProgressKnown
  <2>4. CASE rs \in {w'.st.rs, wnew'.rs, o'.st.rs, onew'.rs} BY <2>2, <2>3, <2>4
  <2>5. CASE \E c \in Copies' : rs = c.st.rs
    <3>1. PICK c \in Copies' : rs = c.st.rs BY <2>5
    <3>2. c \in Copies \/ c = NoVRC BY CopiesNext
    <3>3. c \in Copies => rs \in RestoreStates BY <3>1 DEF RestoreStates
    <3> QED BY <2>2, <2>3, <3>1, <3>2, <3>3, <1>n
  <2> QED BY <2>4, <2>5 DEF RestoreStates
<1> QED BY <1>n, <1>1 DEF PromptInv, DriverKnows, CompletedMeansDone

\* A ticker that is armed knows nothing but the stored object.
LEMMA TickerArmed ==
    ASSUME TypeOK, TypeOK', Server, CopiesBehind', VersionsInOrder', api'.rv # 0,
           opc' = "tick", due' = api'.rv
    PROVE  OperationAhead'
<1>1. Copies' \subseteq Copies \cup {api'} /\ \A c \in Copies' : c.rv \in Nat
  <2>1. Copies' \subseteq Copies \cup {api'} BY CopiesNext
  <2>2. api'.rv \in Nat BY ServerOnward
  <2> QED BY <2>1, <2>2, CopiesType
<1>2. \A c \in Copies' : c.rv >= api'.rv => c = api'
  <2> SUFFICES ASSUME NEW c \in Arriving', c.rv >= api'.rv PROVE c = api' BY DEF Copies
  <2>1. c.rv <= api'.rv /\ c.rv \in Nat /\ api'.rv \in Nat
    BY <1>1 DEF CopiesBehind, Copies
  <2>2. c.rv = api'.rv BY <2>1
  <2> QED BY <2>2 DEF VersionsInOrder
<1>3. \A c, d \in Copies' :
         due' <= c.rv /\ c.rv <= d.rv /\ c.st.phase # "InProgress" => d.st.phase # "InProgress"
  <2> SUFFICES ASSUME NEW c \in Copies', NEW d \in Copies', api'.rv <= c.rv, c.rv <= d.rv
               PROVE  c = d
    OBVIOUS
  <2>1. api'.rv \in Nat /\ c.rv \in Nat /\ d.rv \in Nat BY <1>1, ServerOnward
  <2>2. c.rv >= api'.rv /\ d.rv >= api'.rv BY <2>1
  <2> QED BY <2>2, <1>2
<1>4. \A c \in Copies' : c.rv >= due' =>
         /\ c.st.rs = api'.st.rs
         /\ ~skipRestoreProgressProcessing(c) => api'.st.phase = "InProgress"
  BY <1>2 DEF skipRestoreProgressProcessing
<1> QED BY <1>3, <1>4 DEF OperationAhead

-----------------------------------------------------------------------------
(* The worker's steps, when events arrive within the poll interval *)
-----------------------------------------------------------------------------
(* The worker's steps, when events arrive within the poll interval *)

\* A handler's step that writes nothing keeps the invariant.
LEMMA HandlerMoves ==
    ASSUME IInv, IInv', PromptInv,
           UNCHANGED <<api, watch, cache, opc, o, onew, due, progress, processed>>,
           pc # "idle", IF pc' = "idle" THEN w' = NoVRC ELSE w' = w,
           wnew'.rs \in RestoreStates \cup {NoState} \/ (api.rv # 0 /\ ProgressKnown(wnew.rs)'),
           api.rv # 0 /\ pc' \in {"switch", "create", "createFailed", "created"} /\ ~Begun(w.st) =>
              ~Begun(api.st),
           pc' = "run" => Begun(w.st),
           pc' = "created" => starts' \in live',
           api.rv # 0 /\ ~api.del => live \subseteq live'
    PROVE  PromptInv'
<1>y. TypeOK /\ TypeOK' /\ CopiesBehind BY DEF IInv
<1>s. Server BY DEF Server
<1>n. NoVRC.st.rs = NoState BY NoVRCType
<1>b. /\ w'.st.rs \in RestoreStates \cup {NoState} /\ o'.st.rs \in RestoreStates
      /\ onew'.rs \in RestoreStates /\ api'.st.rs \in RestoreStates
  BY <1>n DEF RestoreStates, Copies
<1>1. CASE api.rv = 0
  <2>1. api' = NoVRC BY <1>1 DEF PromptInv, DriverKnows
  <2>2. pc' # "created" BY <1>1 DEF IInv, WorkerHolds
  <2> QED BY <1>1, <1>b, <1>s, <1>y, <2>1, <2>2, GoneKeeps
<1>2. CASE api.rv # 0
  <2>i. VersionsInOrder /\ WorkerBehind /\ OneAtATime /\ OperationAhead
    BY <1>2 DEF PromptInv
  <2>c. Copies' = Copies BY DEF Copies, Arriving
  <2>1. WorkerBehind'
    <3>1. pc' # "idle" /\ Begun(w'.st) => \A c \in Copies' : Accessible(c)' => Begun(c.st)
      BY <2>c, <2>i DEF WorkerBehind, Accessible
    <3> QED BY <3>1, <1>2 DEF WorkerBehind
  <2>2. NotBehind(api, api') BY NotBehindOrder
  <2>3. OneAtATime' BY <1>y, <1>s, <1>2, <2>i, <2>2, OneWaits DEF TypeOK
  <2>4. OperationAhead' BY <1>y, <1>s, <1>2, <2>i, OperationWaits
  <2>5. cache.rv # 0 BY <2>i DEF VersionsInOrder
  <2> QED BY <1>2, <1>b, <1>s, <2>1, <2>2, <2>3, <2>4, <2>5, StepKeeps
<1> QED BY <1>1, <1>2

\* Taking the key
LEMMA ProcessQueuePrompt ==
    ASSUME IInv, IInv', PromptInv, ProcessQueue
    PROVE  PromptInv'
<1>y. TypeOK /\ TypeOK' /\ CopiesBehind BY DEF IInv
<1>0. /\ UNCHANGED <<api, watch, cache, opc, o, onew, due, starts, live, progress>>
      /\ pc = "idle"
  BY DEF ProcessQueue, apiVars, opVars, driverVars
<1>s. Server BY <1>0 DEF Server
<1>r. cache.rv \in Nat /\ processed \in Nat BY <1>y, VRCFields DEF TypeOK
<1>1. \/ UNCHANGED <<pc, w, wnew, processed>>
      \/ /\ cache.rv # 0 /\ ~(processed > cache.rv) /\ processed' = cache.rv
         /\ pc' \in {"cancel", "finalizer", "switch"} /\ w' = cache /\ wnew' = cache.st
         /\ pc' = "switch" => Begun(cache.st)
  BY DEF ProcessQueue, workerVars, Begun
<1>b. /\ w'.st.rs \in RestoreStates /\ wnew'.rs \in RestoreStates /\ o'.st.rs \in RestoreStates
      /\ onew'.rs \in RestoreStates /\ api'.st.rs \in RestoreStates
  BY <1>0, <1>1 DEF RestoreStates, Copies, Arriving
<1>2. CASE api.rv = 0
  <2>1. api' = NoVRC BY <1>0, <1>2 DEF PromptInv, DriverKnows
  <2>2. pc' # "created" BY <1>0, <1>1
  <2> QED BY <1>0, <1>b, <1>s, <1>y, <2>1, <2>2, GoneKeeps
<1>3. CASE api.rv # 0
  <2>i. VersionsInOrder /\ WorkerBehind /\ OneAtATime /\ OperationAhead
    BY <1>3 DEF PromptInv
  <2>c. Copies' = Copies /\ cache \in Copies BY <1>0 DEF Copies, Arriving
  <2>2. NotBehind(api, api') BY <1>0, NotBehindOrder
  <2>4. OperationAhead' BY <1>0, <1>y, <1>s, <1>3, <2>i, OperationWaits
  <2>p. processed' >= processed BY <1>1, <1>r
  <2>1. WorkerBehind'
    <3>1. CASE UNCHANGED <<pc, w, wnew, processed>>
      BY <1>0, <1>3, <1>y, <1>s, <2>i, <2>2, <2>p, <3>1, WorkerWaits
    <3>2. CASE /\ cache.rv # 0 /\ processed' = cache.rv /\ w' = cache
               /\ pc' \in {"cancel", "finalizer", "switch"}
               /\ pc' = "switch" => Begun(cache.st)
      <4>1. \A c \in Copies : Accessible(c)' => NotBehind(cache, c)
        BY <3>2, <2>i, <2>c DEF VersionsInOrder, Accessible
      <4>2. Begun(w'.st) => \A c \in Copies' : Accessible(c)' => Begun(c.st)
        BY <4>1, <2>c, <3>2 DEF NotBehind, Accessible
      <4> QED BY <3>2, <4>2 DEF WorkerBehind
    <3> QED BY <1>1, <3>1, <3>2
  <2>3. OneAtATime'
    <3>1. \/ pc' = "idle"
          \/ \E c \in Copies : Accessible(c) /\ w' = c
      BY <1>0, <1>1, <1>r, <2>c DEF Accessible
    <3> QED BY <1>0, <1>3, <1>y, <1>s, <2>i, <2>2, <2>p, <3>1, OneWaits
  <2>5. cache.rv = 0 => pc' = "idle" /\ opc' = "none" BY <1>0, <1>1, <2>i DEF VersionsInOrder
  <2>6. pc' # "created" BY <1>0, <1>1
  <2> QED BY <1>0, <1>3, <1>b, <1>s, <2>1, <2>2, <2>3, <2>4, <2>5, <2>6, StepKeeps
<1> QED BY <1>2, <1>3

\* Handing over to the operation: it knows nothing yet, and the worker's copy tells that
\* volumes were created.
LEMMA RunOperationPrompt ==
    ASSUME IInv, IInv', PromptInv, RunOperation
    PROVE  PromptInv'
<1>y. TypeOK /\ TypeOK' /\ CopiesBehind BY DEF IInv
<1>0. /\ UNCHANGED <<api, watch, cache, processed, o, onew, starts, live, progress>>
      /\ pc = "run" /\ pc' = "idle" /\ w' = NoVRC /\ wnew' = NoStatus
      /\ IF opc = "none" THEN opc' = "tick" /\ due' = api.rv ELSE UNCHANGED <<opc, due>>
  BY DEF RunOperation, Return, Idle, apiVars, opVars, driverVars
<1>s. Server BY <1>0 DEF Server
<1>n. NoVRC.st.rs = NoState /\ NoStatus.rs = NoState BY NoVRCType
<1>b. /\ w'.st.rs = NoState /\ wnew'.rs = NoState /\ o'.st.rs \in RestoreStates
      /\ onew'.rs \in RestoreStates /\ api'.st.rs \in RestoreStates
  BY <1>0, <1>n DEF RestoreStates, Copies
<1>1. CASE opc # "none" BY <1>0, <1>b, <1>1, HandlerMoves
<1>2. CASE opc = "none" /\ api.rv = 0
  <2>1. api' = NoVRC BY <1>0, <1>2 DEF PromptInv, DriverKnows
  <2> QED BY <1>0, <1>b, <1>s, <1>y, <2>1, GoneKeeps
<1>3. CASE opc = "none" /\ api.rv # 0
  <2>i. VersionsInOrder /\ WorkerBehind /\ OneAtATime /\ OperationAhead
    BY <1>3 DEF PromptInv
  <2>c. Copies' = Copies BY <1>0 DEF Copies, Arriving
  <2>1. WorkerBehind' BY <1>0 DEF WorkerBehind
  <2>2. OneAtATime'
    <3>1. \A c \in Copies : Accessible(c) => Begun(c.st) BY <1>0, <2>i DEF WorkerBehind
    <3> QED BY <3>1, <2>c, <1>0 DEF OneAtATime, Accessible
  <2>5. NotBehind(api, api') BY <1>0, NotBehindOrder
  <2>4. cache.rv # 0 BY <1>0, <2>i DEF VersionsInOrder
  <2>v. VersionsInOrder' BY <1>0, <1>3, <1>s, <1>y, <2>i, <2>4, <2>5, VersionsKept
  <2>3. OperationAhead'
    <3>1. opc' = "tick" /\ due' = api'.rv /\ api'.rv # 0 BY <1>0, <1>3
    <3>2. CopiesBehind' BY DEF IInv
    <3> QED BY <3>1, <3>2, <1>s, <1>y, <2>v, TickerArmed
  <2> QED BY <1>0, <1>3, <1>b, <1>s, <2>1, <2>2, <2>3, <2>4, <2>5, StepKeeps
<1> QED BY <1>1, <1>2, <1>3

\* A write of the worker, carried out or not, with the answer lost or not
LEMMA WorkerWritePrompt ==
    ASSUME IInv, IInv', PromptInv, NEW b \in VRC, NEW next, WorkerWrite(b, next),
           next \in {"init", "switch", "run", "return"}, pc # "idle",
           api.fin => b.fin, b.del = api.del, b.clean = api.clean, b.st.rs \in RestoreStates,
           api.rv # 0 =>
              /\ Begun(api.st) => Begun(b.st)
              /\ opc # "none" => b.st.rs = api.st.rs /\ b.st.phase = api.st.phase
              /\ ~api.del => b.st.rs.run \in live \cup {api.st.rs.run}
              /\ b.st.phase = "Completed" => api.st.phase = "Completed" /\ b.st.rs = api.st.rs
              /\ next = "run" => Begun(b.st)
    PROVE  PromptInv'
<1>y. TypeOK /\ TypeOK' /\ CopiesBehind /\ CopiesBehind' BY DEF IInv
<1>t. api \in VRC /\ processed \in Nat /\ processed' \in Nat /\ watch \in Seq(VRC)
  BY <1>y DEF TypeOK
<1>n. NoVRC.st.rs = NoState /\ NoStatus.rs = NoState BY NoVRCType
<1>0. UNCHANGED <<cache, opc, o, onew, due, starts, live, progress>>
  BY Zenon DEF WorkerWrite, opVars, driverVars
<1>e. Commit(b) => Stored(b) BY <1>t, CommitStores
<1>1. \/ /\ api.rv # 0 /\ Stored(b) /\ StoreRevisionUpdate(api'.rv)
         /\ \/ pc' = next /\ w' = api' /\ wnew' = api'.st
            \/ pc' = "idle" /\ w' = NoVRC /\ wnew' = NoStatus
      \/ /\ UNCHANGED <<api, watch>> \/ (api.rv # 0 /\ Stored(b))
         /\ pc' = "idle" /\ w' = NoVRC /\ wnew' = NoStatus /\ UNCHANGED processed
  BY <1>e, Zenon DEF WorkerWrite, Goto, Return, ReturnErr, Idle, apiVars
<1>b. o'.st.rs \in RestoreStates /\ onew'.rs \in RestoreStates
  BY <1>0 DEF RestoreStates
\* nothing is written
<1>2. CASE UNCHANGED <<api, watch, processed>> /\ pc' = "idle" /\ w' = NoVRC /\ wnew' = NoStatus
  BY <1>0, <1>2, <1>n, HandlerMoves
\* the object changes
<1>3. CASE api.rv # 0 /\ Stored(b)
  <2>i. VersionsInOrder /\ WorkerBehind /\ OneAtATime /\ OperationAhead
    BY <1>3 DEF PromptInv
  <2>s. /\ Server /\ api'.rv # 0 /\ api'.rv >= api.rv /\ api'.rv \in Nat /\ api.rv \in Nat
        /\ api'.st = b.st /\ api'.del = b.del
    BY <1>0, <1>3, <1>y, StoredServer
  <2>2. NotBehind(api, api') BY <1>3, <2>s DEF NotBehind
  <2>4. OperationAhead' BY <1>0, <1>3, <1>y, <2>i, <2>s, OperationWaits
  <2>5. cache.rv # 0 BY <2>i DEF VersionsInOrder
  <2>v. VersionsInOrder' BY <1>y, <2>i, <2>s, <2>2, <2>5, VersionsKept
  <2>p. processed' >= processed
    <3>1. StoreRevisionUpdate(api'.rv) => processed' >= processed
      BY <1>t, <2>s, StoreRevisionType
    <3>2. processed' = processed => processed' >= processed BY <1>t
    <3> QED BY <1>1, <3>1, <3>2
  <2>w. pc' = "idle" \/ w' = api' BY <1>1
  <2>3. OneAtATime' BY <1>0, <1>y, <2>i, <2>s, <2>2, <2>p, <2>w, OneWaits
  <2>1. WorkerBehind'
    <3>1. CASE pc' = "idle" BY <3>1 DEF WorkerBehind
    <3>2. CASE pc' = next /\ w' = api' /\ StoreRevisionUpdate(api'.rv)
      <4>1. processed' >= api'.rv BY <1>t, <2>s, <3>2, StoreRevisionType
      <4>2. pc' = "run" => Begun(api'.st) BY <3>2, <2>s, <1>3
      <4> QED BY <1>y, <2>s, <2>v, <3>2, <4>1, <4>2, WriteDone
    <3> QED BY <1>1, <3>1, <3>2
  <2>b. /\ w'.st.rs \in RestoreStates \cup {NoState} /\ wnew'.rs \in RestoreStates \cup {NoState}
        /\ api'.st.rs \in RestoreStates
    BY <1>1, <1>n, <2>s
  <2>6. pc' # "created" BY <1>1
  <2>7. ~api'.del => live \subseteq live' /\ api'.st.rs.run \in live' \cup {api.st.rs.run}
    BY <1>0, <1>3, <2>s
  <2>8. api'.st.phase = "Completed" => api.st.phase = "Completed" /\ api'.st.rs = api.st.rs
    BY <1>3, <2>s
  <2> QED BY <1>0, <1>b, <2>s, <2>1, <2>2, <2>3, <2>4, <2>5, <2>6, <2>7, <2>8, <2>b, StepKeeps
<1> QED BY <1>1, <1>2, <1>3

\* A step of the worker without a call
LEMMA LocalPrompt ==
    ASSUME IInv, IInv', PromptInv, NEW next, Local(next), pc # "idle",
           next \in {"return", "error", "create", "run", "delFinalizer"},
           next = "create" => pc = "switch", next = "run" => Begun(w.st)
    PROVE  PromptInv'
<1>0. /\ UNCHANGED <<api, watch, cache, opc, o, onew, due, progress, processed, starts, live>>
      /\ \/ pc' = "idle" /\ w' = NoVRC /\ wnew' = NoStatus
         \/ pc' = next /\ w' = w /\ wnew' = w.st
  BY LocalOutcomes DEF Return, ReturnErr, Idle, Goto, apiVars, opVars, driverVars
<1>b. wnew'.rs \in RestoreStates \cup {NoState} BY <1>0, NoVRCType DEF RestoreStates
<1>1. api.rv # 0 /\ pc = "switch" /\ ~Begun(w.st) => ~Begun(api.st)
  BY DEF PromptInv, WorkerBehind
<1>2. pc' = "idle" \/ pc' \in {"create", "run", "delFinalizer"}
  <2>1. CASE next \in {"return", "error"}
    <3>1. pc' = "idle" BY <2>1, LocalSteps
    <3> QED BY <3>1
  <2> QED BY <1>0, <2>1
<1> QED BY <1>0, <1>b, <1>1, <1>2, HandlerMoves

\* The finalizer, the first phase, the handles and the phase Failed
LEMMA WritesPrompt ==
    ASSUME IInv, IInv', PromptInv, SetFinalizer \/ UpdateStatus \/ Created \/ CreateFailed
    PROVE  PromptInv'
<1>y. TypeOK BY DEF IInv
<1>v. api \in VRC /\ w \in VRC /\ wnew \in Status /\ w.st \in Status
  BY <1>y, VRCFields DEF TypeOK
<1>b. api.st.rs \in RestoreStates /\ wnew.rs \in RestoreStates BY DEF RestoreStates, Copies
<1>a. api.rv # 0 => Accessible(api) /\ api \in Copies
  BY <1>y, VRCFields DEF Accessible, IInv, CopiesBehind, Copies, TypeOK
<1>i. api.rv # 0 => WorkerBehind /\ (opc # "none" => Begun(api.st))
  BY <1>a DEF PromptInv, OneAtATime
<1>h. WorkerHolds BY DEF IInv
\* nothing was created before, and no operation is registered
<1>s. ASSUME pc \in {"createFailed", "created"}
      PROVE  /\ api.rv # 0 /\ w.st.phase \in {"unset", "New"} /\ opc = "none"
             /\ ~Begun(api.st)
  <2>1. api.rv # 0 /\ w.st.phase \in {"unset", "New"} BY <1>s, <1>h DEF WorkerHolds
  <2>2. ~Begun(w.st) BY <2>1 DEF Begun
  <2>3. ~Begun(api.st) BY <1>s, <1>i, <2>1, <2>2 DEF WorkerBehind
  <2> QED BY <1>i, <2>1, <2>3
<1>1. CASE SetFinalizer
  <2> DEFINE b == [api EXCEPT !.fin = TRUE]
  <2>1. b \in VRC /\ b.st = api.st /\ b.fin /\ b.del = api.del /\ b.clean = api.clean
    BY <1>v DEF VRC
  <2>2. WorkerWrite(b, "init") /\ pc = "finalizer" BY <1>1 DEF SetFinalizer
  <2> HIDE DEF b
  <2> QED BY <1>b, <2>1, <2>2, WorkerWritePrompt
<1>2. CASE UpdateStatus
  <2> DEFINE ph == IF api.st.phase = "unset" THEN "New" ELSE api.st.phase
             b == [api EXCEPT !.st.phase = ph]
  <2>p. pc = "init" BY <1>2 DEF UpdateStatus
  <2>1. WorkerWrite(b, "switch") \/ Local("error") BY <1>2, Zenon DEF UpdateStatus
  <2>2. ph \in Phases /\ (ph = api.st.phase \/ (api.st.phase = "unset" /\ ph = "New"))
    BY <1>v, VRCFields DEF Phases
  <2> HIDE DEF ph
  <2>3. /\ b \in VRC /\ b.fin = api.fin /\ b.del = api.del /\ b.clean = api.clean
        /\ b.st.rs = api.st.rs /\ b.st.phase = ph
    BY <1>v, <2>2 DEF VRC, Status
  <2> HIDE DEF b
  <2>4. Begun(api.st) => b.st.phase = api.st.phase BY <2>2, <2>3 DEF Begun
  <2>5. b.st.phase = "Completed" => api.st.phase = "Completed" BY <2>2, <2>3
  <2>6. Begun(api.st) => Begun(b.st) BY <2>4 DEF Begun
  <2>7. WorkerWrite(b, "switch") => PromptInv'
    BY <1>b, <1>i, <2>p, <2>3, <2>4, <2>5, <2>6, WorkerWritePrompt
  <2>8. Local("error") => PromptInv' BY <2>p, LocalPrompt
  <2> QED BY <2>1, <2>7, <2>8
<1>3. CASE Created
  <2> DEFINE b == Patched(w.st, wnew)
  <2>0. WorkerWrite(b, "run") /\ pc = "created" BY <1>3 DEF Created
  <2>1. wnew.phase = "InProgress" /\ wnew.rs.run = starts /\ starts \in live
    BY <1>h, <2>0 DEF WorkerHolds, PromptInv, DriverKnows
  <2>2. w.st.phase # "InProgress" BY <1>s, <2>0
  <2>3. /\ b \in VRC /\ b.fin = api.fin /\ b.del = api.del /\ b.clean = api.clean
        /\ b.st.phase = "InProgress" /\ (b.st.rs = wnew.rs \/ b.st.rs = api.st.rs)
    BY <1>v, <2>1, <2>2, PatchedType
  <2> HIDE DEF b
  <2>4. Begun(b.st) BY <2>3 DEF Begun
  <2>5. b.st.rs \in RestoreStates /\ b.st.rs.run \in live \cup {api.st.rs.run}
    BY <1>b, <2>1, <2>3
  <2> QED BY <1>s, <2>0, <2>3, <2>4, <2>5, WorkerWritePrompt
<1>4. CASE CreateFailed
  <2> DEFINE b == Patched(w.st, [w.st EXCEPT !.phase = "Failed"])
  <2>0. WorkerWrite(b, "return") /\ pc = "createFailed" BY <1>4 DEF CreateFailed
  <2>1. w.st.phase \in {"unset", "New"} BY <1>s, <2>0
  <2>2. /\ b \in VRC /\ b.fin = api.fin /\ b.del = api.del /\ b.clean = api.clean
        /\ b.st.rs = api.st.rs /\ b.st.phase = "Failed"
    <3> DEFINE new == [w.st EXCEPT !.phase = "Failed"]
    <3>1. new \in Status /\ new.phase = "Failed" /\ new.rs = w.st.rs
      BY <1>v, PhaseType DEF Phases
    <3> HIDE DEF new
    <3>2. Patched(w.st, new) = b BY DEF new
    <3>3. new.phase # w.st.phase BY <2>1, <3>1
    <3> HIDE DEF b
    <3> QED BY <1>v, <3>1, <3>2, <3>3, PatchedType
  <2> HIDE DEF b
  <2>3. Begun(b.st) BY <2>2 DEF Begun
  <2> QED BY <1>b, <1>s, <2>0, <2>2, <2>3, WorkerWritePrompt
<1> QED BY <1>1, <1>2, <1>3, <1>4

\* Judging by the phase, asking the driver, cancelling, and the finalizer going
LEMMA CallsPrompt ==
    ASSUME IInv, IInv', PromptInv,
           ProcessVolumeRestore \/ CreateVolumeFromBackup \/ CreateVolumeFails \/ CancelRestore
              \/ RemoveFinalizer
    PROVE  PromptInv'
<1>y. TypeOK /\ TypeOK' BY DEF IInv
<1>i. api.rv # 0 => WorkerBehind BY DEF PromptInv
<1>n. NoStatus.rs = NoState /\ NoVRC.st.rs = NoState BY NoVRCType
<1>b. w.st.rs \in RestoreStates BY DEF RestoreStates
<1>w. api.rv # 0 /\ pc = "create" /\ ~Begun(w.st) => ~Begun(api.st)
  BY <1>i DEF WorkerBehind
<1>1. CASE ProcessVolumeRestore
  <2>0. pc = "switch" BY <1>1 DEF ProcessVolumeRestore
  <2>1. PICK next \in {"return", "create", "run"} :
            Local(next) /\ (next = "run" => w.st.phase = "InProgress")
    BY <1>1 DEF ProcessVolumeRestore
  <2>2. next = "run" => Begun(w.st) BY <2>1 DEF Begun
  <2> QED BY <2>0, <2>1, <2>2, LocalPrompt
<1>2. CASE CreateVolumeFromBackup
  <2>0. /\ UNCHANGED <<api, watch, cache, opc, o, onew, due, progress, processed>>
        /\ pc = "create" /\ live' = live \cup {starts'} /\ starts' = starts + 1
    BY <1>2 DEF CreateVolumeFromBackup, apiVars, opVars
  <2>1. \/ /\ pc' = "created" /\ w' = w
           /\ wnew'.rs = [run |-> starts', prog |-> Untouched, stamp |-> clock]
        \/ pc' = "createFailed" /\ w' = w /\ wnew' = w.st
        \/ pc' = "idle" /\ w' = NoVRC /\ wnew' = NoStatus
    BY <1>2 DEF CreateVolumeFromBackup, Goto, ReturnErr, Idle
  <2>2. api.rv # 0 BY <2>0 DEF IInv, WorkerHolds
  <2>3. wnew'.rs \in RestoreStates \cup {NoState} \/ (api.rv # 0 /\ ProgressKnown(wnew.rs)')
    <3>1. CASE wnew'.rs = [run |-> starts', prog |-> Untouched, stamp |-> clock]
      <4>1. wnew'.rs.run = starts' /\ \A v \in Volumes : wnew'.rs.prog[v] = 0
        BY <3>1 DEF Untouched
      <4>2. starts' \in Runs
        <5>1. starts \in Nat /\ starts' \in 0..MaxStarts BY <1>y, DisturbancesType DEF TypeOK
        <5> QED BY <5>1, <2>0 DEF Runs
      <4>3. \A v \in Volumes : progress'[starts'][v] \in 0..Full
        BY <1>y, <4>2 DEF TypeOK
      <4>4. \A v \in Volumes : 0 <= progress'[starts'][v] BY <4>3, ServiceAssumption
      <4> QED BY <2>2, <4>1, <4>4 DEF ProgressKnown
    <3>2. CASE wnew' \in {w.st, NoStatus} BY <3>2, <1>n, <1>b
    <3> QED BY <2>1, <3>1, <3>2
  <2>4. /\ pc # "idle" /\ (pc' # "idle" => w' = w) /\ (pc' = "idle" => w' = NoVRC)
        /\ pc' # "run" /\ starts' \in live' /\ live \subseteq live'
    BY <2>0, <2>1
  <2> QED BY <1>w, <2>0, <2>3, <2>4, HandlerMoves
<1>3. CASE CreateVolumeFails
  <2>0. /\ UNCHANGED <<api, watch, cache, opc, o, onew, due, progress, processed, live>>
        /\ pc = "create"
        /\ \/ pc' = "createFailed" /\ w' = w /\ wnew' = w.st
           \/ pc' = "idle" /\ w' = NoVRC /\ wnew' = NoStatus
    BY <1>3 DEF CreateVolumeFails, ReturnErr, Idle, Goto, apiVars, opVars, driverVars
  <2>1. wnew'.rs \in RestoreStates \cup {NoState} BY <2>0, <1>b, <1>n
  <2> QED BY <1>w, <2>0, <2>1, HandlerMoves
<1>4. CASE CancelRestore
  <2>p. pc = "cancel" BY <1>4 DEF CancelRestore
  <2>1. CASE Local("delFinalizer") BY <2>p, <2>1, LocalPrompt
  <2>2. CASE /\ \/ Goto("delFinalizer", w, w.st)
                \/ ReturnErr
             /\ UNCHANGED <<apiVars, cache, processed, opVars, starts, progress, clock, crashes>>
    <3>0. /\ UNCHANGED <<api, watch, cache, opc, o, onew, due, progress, processed>>
          /\ \/ pc' = "delFinalizer" /\ w' = w /\ wnew' = w.st
             \/ pc' = "idle" /\ w' = NoVRC /\ wnew' = NoStatus
      BY <2>2 DEF ReturnErr, Idle, Goto, apiVars, opVars
    <3>1. wnew'.rs \in RestoreStates \cup {NoState} BY <3>0, <1>b, <1>n
    <3>2. api.rv # 0 => api.del BY <2>p DEF IInv, WorkerHolds
    <3> QED BY <2>p, <3>0, <3>1, <3>2, HandlerMoves
  <2> QED BY <1>4, <2>1, <2>2 DEF CancelRestore
<1>5. CASE RemoveFinalizer
  <2>0. /\ UNCHANGED <<cache, opc, o, onew, due, progress, live>>
        /\ pc = "delFinalizer" /\ pc' = "idle" /\ w' = NoVRC /\ wnew' = NoStatus
        /\ (api.rv # 0 /\ Remove) \/ UNCHANGED <<api, watch, processed>>
    BY <1>5 DEF RemoveFinalizer, Return, ReturnErr, Idle, apiVars, opVars, driverVars
  <2>2. CASE UNCHANGED <<api, watch, processed>> BY <2>0, <2>2, <1>n, HandlerMoves
  <2>3. CASE api.rv # 0 /\ Remove
    <3>1. Server /\ api' = NoVRC BY <2>0, <2>3 DEF Server, Remove
    <3>2. \A rs \in {w'.st.rs, wnew'.rs, o'.st.rs, onew'.rs} : rs \in RestoreStates \cup {NoState}
      BY <2>0, <1>n DEF RestoreStates
    <3> QED BY <1>y, <2>0, <3>1, <3>2, GoneKeeps
  <2> QED BY <2>0, <2>2, <2>3
<1> QED BY <1>1, <1>2, <1>3, <1>4, <1>5

\* Every step of the worker keeps the invariant.
LEMMA WorkerPrompt ==
    ASSUME IInv, IInv', PromptInv, Worker
    PROVE  PromptInv'
BY ProcessQueuePrompt, WritesPrompt, CallsPrompt, RunOperationPrompt DEF Worker
-----------------------------------------------------------------------------
(* The operation's steps, when events arrive within the poll interval *)

\* What syncRestoreStat makes of a status is no further than the driver, and complete only
\* if every volume is.
LEMMA SyncKnown ==
    ASSUME TypeOK, NEW st \in Status, ProgressKnown(st.rs)
    PROVE  /\ ProgressKnown(SyncRestoreStat(st).rs)
           /\ SyncRestoreStat(st).phase = "Completed" /\ st.phase # "Completed" =>
                 ProgressCompleted(SyncRestoreStat(st).rs.prog)
<1> DEFINE now == IF st.rs.run = 0 THEN Untouched ELSE progress[st.rs.run]
           prog == [v \in Volumes |-> IF now[v] > st.rs.prog[v] THEN now[v] ELSE st.rs.prog[v]]
           stamp == IF prog # st.rs.prog THEN clock ELSE st.rs.stamp
           rs == [run |-> st.rs.run, prog |-> prog, stamp |-> stamp]
           ph == IF ProgressCompleted(prog) THEN "Completed"
                 ELSE IF ProgressTimeout(rs.stamp) THEN "Failed" ELSE st.phase
<1>1. /\ st.rs.run \in 0..MaxStarts /\ st.rs.prog \in [Volumes -> 0..Full]
      /\ \A v \in Volumes : st.rs.prog[v] \in Int
  BY ServiceAssumption DEF Status, RestoreState
<1>0. now \in [Volumes -> 0..Full]
  <2>1. CASE st.rs.run = 0 BY <2>1, NoVRCType
  <2>2. CASE st.rs.run # 0
    <3>1. st.rs.run \in Runs BY <1>1, <2>2, ServiceAssumption DEF Runs
    <3>2. progress[st.rs.run] \in [Volumes -> 0..Full] BY <3>1 DEF TypeOK
    <3> QED BY <2>2, <3>2
  <2> QED BY <2>1, <2>2
<1>2. now \in [Volumes -> 0..Full] /\ \A v \in Volumes : now[v] \in Int
  <2> HIDE DEF now
  <2>1. \A v \in Volumes : now[v] \in 0..Full BY <1>0
  <2> QED BY <1>0, <2>1, ServiceAssumption
<1>3. \A v \in Volumes : now[v] = IF st.rs.run = 0 THEN 0 ELSE progress[st.rs.run][v]
  BY DEF Untouched
<1> HIDE DEF now
<1>4. \A v \in Volumes : st.rs.prog[v] <= now[v] BY <1>3 DEF ProgressKnown
<1>5. \A v \in Volumes : prog[v] <= now[v] BY <1>1, <1>2, <1>4
<1>6. SyncRestoreStat(st) = [phase |-> ph, rs |-> rs]
  BY Zenon DEF SyncRestoreStat, ph, rs, stamp, prog, now
<1> HIDE DEF prog, stamp
<1>7. rs.run = st.rs.run /\ rs.prog = prog OBVIOUS
<1> HIDE DEF rs
<1>8. ProgressKnown(rs) BY <1>3, <1>5, <1>7 DEF ProgressKnown
<1>9. ph = "Completed" /\ st.phase # "Completed" => ProgressCompleted(prog) OBVIOUS
<1> HIDE DEF ph
<1> QED BY <1>6, <1>7, <1>8, <1>9

\* What has ended since the ticker was armed stays so when nothing begins.
LEMMA EndedStays ==
    ASSUME TypeOK, TypeOK', CopiesBehind, OperationAhead, Server, api'.rv # 0, opc # "none",
           due' = due, api'.st.phase = "InProgress" => api.st.phase = "InProgress"
    PROVE  \A c, d \in Copies' :
              due' <= c.rv /\ c.rv <= d.rv /\ c.st.phase # "InProgress" => d.st.phase # "InProgress"
<1>o. /\ api.rv \in Nat /\ api'.rv \in Nat /\ api.rv # 0 /\ api.rv <= api'.rv
      /\ (api' = api \/ api'.rv = api.rv + 1)
  BY ServerOnward
<1>c. /\ Copies' \subseteq Copies \cup {api'} /\ api \in Copies
      /\ \A c \in Copies : c.rv \in Nat /\ c.rv <= api.rv
  BY <1>o, CopiesNext, CopiesType DEF CopiesBehind, Copies
<1> SUFFICES ASSUME NEW c \in Copies', NEW d \in Copies', due <= c.rv, c.rv <= d.rv,
                    c.st.phase # "InProgress", d.st.phase = "InProgress"
             PROVE  FALSE
  OBVIOUS
<1>1. CASE c \in Copies /\ d \in Copies BY <1>1 DEF OperationAhead
<1>2. CASE c \in Copies /\ d = api'
  <2>1. api.st.phase # "InProgress" BY <1>2, <1>c DEF OperationAhead
  <2> QED BY <2>1, <1>2
<1>3. CASE c = api' /\ d \in Copies
  <2>1. api' = api BY <1>3, <1>c, <1>o
  <2> QED BY <2>1, <1>3, <1>c DEF OperationAhead
<1> QED BY <1>1, <1>2, <1>3, <1>c

\* A step of the operation keeps the invariant if it is right about what it stores and
\* knows.
LEMMA OperationMoves ==
    ASSUME IInv, IInv', PromptInv, Server, opc # "none",
           UNCHANGED <<cache, pc, w, wnew, starts, live, progress>>, processed' >= processed,
           api.rv = 0 => api' = api, api.rv # 0 => api'.rv # 0,
           NotBehind(api, api'), api'.rv # 0 => OperationAhead',
           \A rs \in {o'.st.rs, onew'.rs, api'.st.rs} :
              rs \in RestoreStates \cup {NoState} \/ ProgressKnown(rs)',
           api'.st.rs.run = api.st.rs.run,
           api'.st.phase = "Completed" /\ ~api'.del =>
              \/ api.st.phase = "Completed" /\ api'.st.rs = api.st.rs
              \/ /\ api'.st.rs.run \in live
                 /\ \A v \in Volumes : progress[api'.st.rs.run][v] = Full
    PROVE  PromptInv'
<1>y. TypeOK /\ TypeOK' /\ CopiesBehind BY DEF IInv
<1>b. w'.st.rs \in RestoreStates /\ wnew'.rs \in RestoreStates BY DEF RestoreStates
<1>1. CASE api.rv = 0
  <2>1. api' = NoVRC BY <1>1 DEF PromptInv, DriverKnows
  <2>2. pc' # "created" BY <1>1 DEF IInv, WorkerHolds
  <2> QED BY <1>b, <1>y, <2>1, <2>2, GoneKeeps
<1>2. CASE api.rv # 0
  <2>i. VersionsInOrder /\ WorkerBehind /\ OneAtATime /\ OperationAhead
    BY <1>2 DEF PromptInv
  <2>1. WorkerBehind' BY <1>2, <1>y, <2>i, WorkerWaits
  <2>2. OneAtATime' BY <1>2, <1>y, <2>i, OneWaits
  <2>3. cache.rv # 0 BY <2>i DEF VersionsInOrder
  <2>4. pc' = "created" => starts' \in live' BY DEF PromptInv, DriverKnows
  <2> QED BY <1>2, <1>b, <2>1, <2>2, <2>3, <2>4, StepKeeps
<1> QED BY <1>1, <1>2

\* What the operation is about to write when it has polled the driver: the handles that are
\* recorded, and Completed only if every volume is restored.
LEMMA PolledTells ==
    ASSUME IInv, PromptInv, opc = "update", api.rv # 0
    PROVE  LET b == Patched(o.st, onew) IN
           /\ NotBehind(api, b) /\ b.st.rs = onew.rs /\ b.st.rs.run = api.st.rs.run
           /\ onew.phase = "Completed" => b.st.phase = "Completed"
           /\ b.st.phase = "Completed" /\ ~api.del =>
                 /\ b.st.rs.run \in live
                 /\ \A v \in Volumes : progress[b.st.rs.run][v] = Full
<1> DEFINE b == Patched(o.st, onew)
<1>y. TypeOK BY DEF IInv
<1>v. api \in VRC /\ o.st \in Status /\ onew \in Status BY <1>y, VRCFields DEF TypeOK
<1>1. /\ b.del = api.del
      /\ b.st.phase = IF onew.phase # o.st.phase THEN onew.phase ELSE api.st.phase
      /\ b.st.rs = IF onew.rs # o.st.rs THEN onew.rs ELSE api.st.rs
  BY <1>v, PatchedType
<1> HIDE DEF b
<1>2. /\ api.st.phase = "InProgress" /\ o.st.rs = api.st.rs
      /\ o.st.phase = "InProgress" /\ onew.rs.run = o.st.rs.run
      /\ onew.phase \in {"InProgress", "Completed", "Failed"}
      /\ onew.phase = "Completed" => ProgressCompleted(onew.rs.prog)
      /\ HandlesKnown(o.st)
  BY DEF PromptInv, OperationAhead, IInv, OperationHolds
<1>3. b.st.rs = onew.rs /\ b.st.phase = onew.phase BY <1>1, <1>2
<1>4. NotBehind(api, b) BY <1>1, <1>2, <1>3 DEF NotBehind, Begun
<1>5. ASSUME onew.phase = "Completed", ~api.del
      PROVE  /\ onew.rs.run \in live
             /\ \A v \in Volumes : progress[onew.rs.run][v] = Full
  <2>1. onew.rs.run = api.st.rs.run /\ api.st.rs.run # 0 BY <1>2 DEF HandlesKnown
  <2>2. api.st.rs.run \in live BY <1>5, <2>1 DEF PromptInv, DriverKnows
  <2>3. \A v \in Volumes : onew.rs.prog[v] >= Full BY <1>2, <1>5 DEF ProgressCompleted
  <2>4. \A v \in Volumes : onew.rs.prog[v] <= progress[onew.rs.run][v]
    <3>1. onew.rs \in RestoreStates BY DEF RestoreStates
    <3> QED BY <2>1, <3>1 DEF PromptInv, DriverKnows, ProgressKnown
  <2>5. \A v \in Volumes : onew.rs.prog[v] \in 0..Full /\ progress[onew.rs.run][v] \in 0..Full
    <3>1. onew.rs.prog \in [Volumes -> 0..Full] BY <1>v DEF Status, RestoreState
    <3>2. api.st.rs.run \in Runs
      <4>1. starts \in 0..MaxStarts /\ live \subseteq 1..starts BY <1>y DEF TypeOK
      <4>2. live \subseteq 1..MaxStarts BY <4>1, ServiceAssumption
      <4> QED BY <2>2, <4>2 DEF Runs
    <3>3. progress[api.st.rs.run] \in [Volumes -> 0..Full] BY <3>2, <1>y DEF TypeOK
    <3> QED BY <2>1, <3>1, <3>3
  <2>6. \A v \in Volumes : progress[onew.rs.run][v] = Full
    BY <2>3, <2>4, <2>5, ServiceAssumption
  <2> QED BY <2>1, <2>2, <2>6
<1> QED BY <1>1, <1>2, <1>3, <1>4, <1>5 DEF b

\* A process that starts anew knows nothing but the stored object.
LEMMA RestartPrompt ==
    ASSUME IInv, IInv', PromptInv, Restart, api' = api \/ Revised,
           UNCHANGED <<starts, live, progress>>, NotBehind(api, api'),
           api'.st.rs \in RestoreStates, api'.st.rs.run = api.st.rs.run,
           api'.st.phase = "Completed" /\ ~api'.del =>
              \/ api.st.phase = "Completed" /\ api'.st.rs = api.st.rs
              \/ /\ api'.st.rs.run \in live
                 /\ \A v \in Volumes : progress[api'.st.rs.run][v] = Full
    PROVE  PromptInv'
<1>y. TypeOK /\ TypeOK' BY DEF IInv
<1>n. NoVRC.st.rs = NoState /\ NoStatus.rs = NoState BY NoVRCType
<1>0. /\ cache' = api' /\ watch' = <<>> /\ pc' = "idle" /\ w' = NoVRC /\ wnew' = NoStatus
      /\ opc' = "none" /\ o' = NoVRC /\ onew' = NoStatus
  BY DEF Restart, Idle
<1>s. Server BY <1>0 DEF Server
<1>b. \A rs \in {w'.st.rs, wnew'.rs, o'.st.rs, onew'.rs, api'.st.rs} :
         rs \in RestoreStates \cup {NoState}
  BY <1>0, <1>n
<1>1. CASE api'.rv = 0
  <2>1. api' = api
    <3>1. api.rv \in Nat BY <1>y, VRCFields DEF TypeOK
    <3> QED BY <1>1, <3>1 DEF Revised
  <2>2. api' = NoVRC BY <1>1, <2>1 DEF PromptInv, DriverKnows
  <2> QED BY <1>0, <1>b, <1>s, <1>y, <2>2, GoneKeeps
<1>2. CASE api'.rv # 0
  <2>1. WorkerBehind' BY <1>0 DEF WorkerBehind
  <2>2. OneAtATime' BY <1>0 DEF OneAtATime
  <2>3. OperationAhead'
    <3>1. opc' = "none" BY <1>0
    <3> QED BY <3>1 DEF OperationAhead
  <2> QED BY <1>0, <1>2, <1>b, <1>s, <2>1, <2>2, <2>3, StepKeeps
<1> QED BY <1>1, <1>2

\* The process panics over a patch that failed, or of which the answer was lost.
LEMMA PanicPrompt ==
    ASSUME IInv, IInv', PromptInv, OpUpdatePanics
    PROVE  PromptInv'
<1> DEFINE b == Patched(o.st, onew)
<1>y. TypeOK BY DEF IInv
<1>v. api \in VRC /\ o.st \in Status /\ onew \in Status BY <1>y, VRCFields DEF TypeOK
<1>0. /\ UNCHANGED <<starts, live, progress>> /\ Restart /\ opc = "update"
      /\ \/ api' = api
         \/ api.rv # 0 /\ api' = [b EXCEPT !.rv = @ + 1]
  BY DEF OpUpdatePanics, driverVars
<1>1. CASE api' = api
  <2>1. NotBehind(api, api') BY <1>1, NotBehindOrder
  <2>2. api'.st.rs \in RestoreStates BY <1>1 DEF RestoreStates, Copies
  <2> QED BY <1>0, <1>1, <2>1, <2>2, RestartPrompt DEF PromptInv, CompletedMeansDone
<1>2. CASE api.rv # 0 /\ api' = [b EXCEPT !.rv = @ + 1]
  <2>1. /\ b \in VRC /\ b.rv = api.rv /\ b.fin = api.fin /\ b.del = api.del
        /\ b.clean = api.clean
    BY <1>v, PatchedType
  <2>t. /\ NotBehind(api, b) /\ b.st.rs = onew.rs /\ b.st.rs.run = api.st.rs.run
        /\ b.st.phase = "Completed" /\ ~api.del =>
              /\ b.st.rs.run \in live
              /\ \A v \in Volumes : progress[b.st.rs.run][v] = Full
    BY <1>0, <1>2, PolledTells
  <2> HIDE DEF b
  <2>2. /\ api'.st = b.st /\ api'.rv = api.rv + 1
        /\ api'.fin = api.fin /\ api'.del = api.del /\ api'.clean = api.clean
    BY <1>2, <2>1 DEF VRC
  <2>3. Revised BY <1>2, <2>2 DEF Revised
  <2>4. NotBehind(api, api') BY <2>1, <2>2, <2>t DEF NotBehind
  <2>5. api'.st.rs \in RestoreStates BY <2>2, <2>t DEF RestoreStates
  <2> QED BY <1>0, <2>2, <2>3, <2>4, <2>5, <2>t, RestartPrompt
<1> QED BY <1>0, <1>1, <1>2

\* Every step of the operation keeps the invariant, when events arrive within the poll
\* interval.
LEMMA OperationPrompt ==
    ASSUME IInv, IInv', PromptInv, Operation, ~InformerLags
    PROVE  PromptInv'
<1>y. TypeOK /\ TypeOK' /\ CopiesBehind /\ CopiesBehind' BY DEF IInv
<1>v. /\ api \in VRC /\ o \in VRC /\ o.st \in Status /\ onew \in Status /\ watch \in Seq(VRC)
      /\ processed \in Nat /\ processed' \in Nat /\ api'.rv \in Nat /\ cache.rv \in Nat
  BY <1>y, VRCFields DEF TypeOK
<1>n. NoVRC.st.rs = NoState /\ NoStatus.rs = NoState BY NoVRCType
<1>h. OperationHolds BY DEF IInv
<1>i. api.rv # 0 => VersionsInOrder /\ OneAtATime /\ OperationAhead BY DEF PromptInv
<1>c. /\ api \in Copies /\ cache \in Copies /\ \A c \in Copies : c.rv \in Nat
  BY <1>y, CopiesType
<1>b. /\ o.st.rs \in RestoreStates /\ onew.rs \in RestoreStates /\ api.st.rs \in RestoreStates
      /\ cache.st.rs \in RestoreStates
  BY <1>c DEF RestoreStates
\* a step that writes nothing
<1>1. ASSUME opc # "none", UNCHANGED <<apiVars, processed>>,
             UNCHANGED <<cache, pc, w, wnew, starts, live, progress>>,
             api.rv # 0 => OperationAhead',
             o'.st.rs \in RestoreStates \cup {NoState},
             onew'.rs \in RestoreStates \cup {NoState} \/ ProgressKnown(onew.rs)'
      PROVE  PromptInv'
  <2>1. UNCHANGED <<api, watch>> /\ Server BY <1>1 DEF apiVars, Server
  <2>2. processed' >= processed BY <1>1, <1>v
  <2>3. NotBehind(api, api') BY <2>1, NotBehindOrder
  <2>4. \A rs \in {o'.st.rs, onew'.rs, api'.st.rs} :
           rs \in RestoreStates \cup {NoState} \/ ProgressKnown(rs)'
    BY <1>1, <1>b, <2>1 DEF ProgressKnown
  <2> QED BY <1>1, <2>1, <2>2, <2>3, <2>4, OperationMoves
\* and leaves the copies alone
<1>2. ASSUME UNCHANGED <<apiVars, cache>> PROVE Copies' = Copies /\ api' = api
  BY <1>2 DEF Copies, Arriving, apiVars
<1>3. CASE OpTick
  <2>0. /\ UNCHANGED <<apiVars, processed, due>> /\ opc = "tick"
        /\ cache.rv = 0 \/ cache.rv >= due
    BY <1>3 DEF OpTick
  <2>1. CASE OpGoto("success", NoVRC, NoStatus) /\ (cache.rv = 0 \/ skipRestoreProgressProcessing(cache))
    <3>1. /\ opc' = "success" /\ o' = NoVRC /\ onew' = NoStatus
          /\ UNCHANGED <<cache, pc, w, wnew, starts, live, progress>>
      BY <2>1, OpGotoLeaves
    <3>2. ASSUME api.rv # 0 PROVE OperationAhead'
      <4>1. cache.rv # 0 BY <1>i, <2>0, <3>2 DEF VersionsInOrder
      <4>2. \A c \in Copies : cache.rv <= c.rv
        <5>1. \A i \in DOMAIN watch : cache.rv <= watch[i].rv
          <6>1. \A i \in DOMAIN watch : cache.rv < watch[i].rv BY <1>i, <3>2 DEF VersionsInOrder
          <6>2. \A i \in DOMAIN watch : watch[i].rv \in Nat BY <1>c DEF Copies, Arriving
          <6> QED BY <6>1, <6>2, <1>v
        <5>2. cache.rv <= api.rv BY <1>y, <3>2 DEF CopiesBehind, Arriving
        <5>3. cache.rv <= cache.rv BY <1>v
        <5> QED BY <5>1, <5>2, <5>3 DEF Copies, Arriving
      <4>3. \A c \in Copies : skipRestoreProgressProcessing(c)
        <5>1. CASE cache.del
          <6>1. \A c \in Copies : c.del
            BY <1>c, <1>i, <3>2, <4>1, <4>2, <5>1 DEF VersionsInOrder, NotBehind
          <6> QED BY <6>1 DEF skipRestoreProgressProcessing
        <5>2. CASE ~cache.del
          <6>1. cache.st.phase # "InProgress"
            BY <2>1, <4>1, <5>2 DEF skipRestoreProgressProcessing
          <6>2. due <= cache.rv BY <2>0, <4>1, <1>v, <1>y DEF TypeOK
          <6>3. \A c \in Copies : c.st.phase # "InProgress"
            BY <1>c, <1>i, <2>0, <3>2, <4>2, <6>1, <6>2 DEF OperationAhead
          <6> QED BY <6>3 DEF skipRestoreProgressProcessing
        <5> QED BY <5>1, <5>2
      <4>4. Copies' = Copies /\ api' = api BY <1>2, <2>0, <3>1
      <4> QED BY <1>i, <2>0, <3>1, <3>2, <4>3, <4>4
              DEF OperationAhead, skipRestoreProgressProcessing
    <3> QED BY <1>1, <1>n, <2>0, <3>1, <3>2
  <2>2. CASE /\ OpGoto("stat", cache, cache.st)
             /\ cache.rv # 0 /\ ~skipRestoreProgressProcessing(cache)
    <3>1. /\ opc' = "stat" /\ o' = cache /\ onew' = cache.st
          /\ UNCHANGED <<cache, pc, w, wnew, starts, live, progress>>
      BY <2>2, OpGotoLeaves
    <3>2. ASSUME api.rv # 0 PROVE OperationAhead'
      <4>1. cache.st.rs = api.st.rs /\ api.st.phase = "InProgress"
        BY <1>c, <1>i, <2>0, <2>2, <3>2 DEF OperationAhead
      <4>2. Copies' = Copies /\ api' = api BY <1>2, <2>0, <3>1
      <4> QED BY <1>i, <2>0, <3>1, <3>2, <4>1, <4>2 DEF OperationAhead
    <3> QED BY <1>1, <1>b, <2>0, <3>1, <3>2
  <2> QED BY <1>3, <2>1, <2>2 DEF OpTick
<1>4. CASE OpStat
  <2> DEFINE st == SyncRestoreStat(o.st)
  <2>0. /\ UNCHANGED <<apiVars, processed, due>> /\ opc = "stat"
        /\ OpGoto("update", o, st)
    BY <1>4 DEF OpStat
  <2>k. ProgressKnown(o.st.rs) BY <1>b DEF PromptInv, DriverKnows
  <2>1. /\ st \in Status /\ ProgressKnown(st.rs)
        /\ st.phase = "Completed" => ProgressCompleted(st.rs.prog)
    BY <1>h, <1>v, <1>y, <2>0, <2>k, SyncType, SyncKnown DEF OperationHolds
  <2> HIDE DEF st
  <2>2. /\ opc' = "update" /\ o' = o /\ onew' = st
        /\ UNCHANGED <<cache, pc, w, wnew, starts, live, progress>>
    BY <2>0, OpGotoLeaves
  <2>3. ASSUME api.rv # 0 PROVE OperationAhead'
    <3>1. Copies' = Copies /\ api' = api BY <1>2, <2>0, <2>2
    <3> QED BY <1>i, <2>0, <2>1, <2>2, <2>3, <3>1 DEF OperationAhead, ProgressCompleted
  <2>4. ProgressKnown(onew.rs)' BY <2>1, <2>2 DEF ProgressKnown
  <2> QED BY <1>1, <1>b, <2>0, <2>2, <2>3, <2>4
<1>5. CASE OpStatFails
  <2>0. UNCHANGED <<apiVars, processed>> /\ opc = "stat" BY <1>5 DEF OpStatFails
  <2>1. CASE OpGoto("failure", NoVRC, NoStatus) /\ UNCHANGED due
    <3>1. /\ opc' = "failure" /\ o' = NoVRC /\ onew' = NoStatus
          /\ UNCHANGED <<cache, pc, w, wnew, starts, live, progress>>
      BY <2>1, OpGotoLeaves
    <3>2. Copies' = Copies /\ api' = api BY <1>2, <2>0, <3>1
    <3>3. api.rv # 0 => OperationAhead' BY <1>i, <2>0, <2>1, <3>1, <3>2 DEF OperationAhead
    <3> QED BY <1>1, <1>n, <2>0, <3>1, <3>3
  <2>2. CASE OpGoto("tick", NoVRC, NoStatus) /\ due' = api.rv
    <3>1. /\ opc' = "tick" /\ o' = NoVRC /\ onew' = NoStatus /\ due' = api.rv
          /\ UNCHANGED <<cache, pc, w, wnew, starts, live, progress>>
      BY <2>2, OpGotoLeaves
    <3>2. ASSUME api.rv # 0 PROVE OperationAhead'
      <4>1. Server /\ api' = api BY <2>0, <3>1 DEF Server, apiVars
      <4>2. NotBehind(api, api') BY <4>1, NotBehindOrder
      <4>3. cache.rv # 0 BY <1>i, <2>0, <3>2 DEF VersionsInOrder
      <4>4. VersionsInOrder' BY <1>i, <1>y, <3>2, <4>1, <4>2, <4>3, VersionsKept
      <4> QED BY <1>y, <3>1, <3>2, <4>1, <4>4, TickerArmed
    <3> QED BY <1>1, <1>n, <2>0, <3>1, <3>2
  <2> QED BY <1>5, <2>1, <2>2 DEF OpStatFails
<1>6. ASSUME NEW at \in {"success", "failure"}, NEW next \in {"complete", "fail"},
             OpOutcome(at, next), at = "success" <=> next = "complete"
      PROVE  PromptInv'
  <2>0. UNCHANGED <<apiVars, processed, due>> /\ opc = at BY <1>6 DEF OpOutcome
  <2>1. CASE OpGoto("exit", NoVRC, NoStatus)
    <3>1. /\ opc' = "exit" /\ o' = NoVRC /\ onew' = NoStatus
          /\ UNCHANGED <<cache, pc, w, wnew, starts, live, progress>>
      BY <2>1, OpGotoLeaves
    <3>2. Copies' = Copies /\ api' = api BY <1>2, <2>0, <3>1
    <3>3. api.rv # 0 => OperationAhead' BY <1>6, <1>i, <2>0, <3>1, <3>2 DEF OperationAhead
    <3> QED BY <1>1, <1>6, <1>n, <2>0, <3>1, <3>3
  <2>2. CASE /\ OpGoto(next, cache, cache.st)
             /\ cache.rv # 0 /\ ~skipRestoreProgressProcessing(cache)
    <3>1. /\ opc' = next /\ o' = cache /\ onew' = cache.st
          /\ UNCHANGED <<cache, pc, w, wnew, starts, live, progress>>
      BY <2>2, OpGotoLeaves
    <3>2. ASSUME api.rv # 0 PROVE OperationAhead'
      <4>1. Copies' = Copies /\ api' = api BY <1>2, <2>0, <3>1
      <4>2. /\ at = "success" => api.st.phase = "Completed"
            /\ at = "failure" => api.st.phase = "InProgress"
        BY <1>c, <1>i, <2>0, <2>2, <3>2 DEF OperationAhead
      <4> QED BY <1>6, <1>i, <2>0, <3>1, <3>2, <4>1, <4>2 DEF OperationAhead
    <3> QED BY <1>1, <1>6, <1>b, <2>0, <3>1, <3>2
  <2> QED BY <1>6, <2>1, <2>2 DEF OpOutcome
<1>7. CASE OpExit
  <2>0. UNCHANGED <<apiVars, processed>> /\ opc = "exit" /\ OpGoto("none", NoVRC, NoStatus)
    BY <1>7 DEF OpExit
  <2>1. /\ opc' = "none" /\ o' = NoVRC /\ onew' = NoStatus
        /\ UNCHANGED <<cache, pc, w, wnew, starts, live, progress>>
    BY <2>0, OpGotoLeaves
  <2>2. OperationAhead' BY <2>1 DEF OperationAhead
  <2> QED BY <1>1, <1>n, <2>0, <2>1, <2>2
<1>8. CASE OpUpdate
  <2> DEFINE b == Patched(o.st, onew)
  <2>1. /\ b \in VRC /\ b.fin = api.fin /\ b.del = api.del /\ b.clean = api.clean
    BY <1>v, PatchedType
  <2>2. /\ opc = "update" /\ api.rv # 0 /\ Commit(b) /\ StoreRevisionUpdate(api'.rv)
        /\ IF onew.phase = "Completed"
           THEN OpGoto("success", NoVRC, NoStatus) /\ UNCHANGED due
           ELSE OpGoto("tick", NoVRC, NoStatus) /\ due' = api'.rv
    BY <1>8, Zenon DEF OpUpdate
  <2>t. /\ NotBehind(api, b) /\ b.st.rs = onew.rs /\ b.st.rs.run = api.st.rs.run
        /\ onew.phase = "Completed" => b.st.phase = "Completed"
        /\ b.st.phase = "Completed" /\ ~api.del =>
              /\ b.st.rs.run \in live
              /\ \A v \in Volumes : progress[b.st.rs.run][v] = Full
    BY <2>2, PolledTells
  <2> HIDE DEF b
  <2>3. /\ opc' \in {"tick", "success"} /\ o' = NoVRC /\ onew' = NoStatus
        /\ UNCHANGED <<cache, pc, w, wnew, starts, live, progress>>
        /\ opc' = "success" => onew.phase = "Completed" /\ due' = due
        /\ opc' = "tick" => due' = api'.rv
    BY <2>2, OpGotoLeaves
  <2>o. OperationAhead /\ VersionsInOrder /\ OneAtATime BY <1>i, <2>2
  <2>4. Stored(b) BY <1>v, <2>1, <2>2, CommitStores
  <2>5. Server /\ api'.rv # 0 /\ api'.st = b.st /\ api'.del = b.del
    BY <1>y, <2>1, <2>2, <2>3, <2>4, StoredServer
  <2>6. NotBehind(api, api') BY <2>1, <2>5, <2>t DEF NotBehind
  <2>7. processed' >= processed BY <1>v, <2>2, StoreRevisionType
  <2>8. OperationAhead'
    <3>1. CASE opc' = "tick"
      <4>1. cache.rv # 0 BY <2>2, <2>o DEF VersionsInOrder
      <4>2. VersionsInOrder' BY <1>y, <2>o, <2>5, <2>6, <4>1, VersionsKept
      <4> QED BY <1>y, <2>3, <2>5, <3>1, <4>2, TickerArmed
    <3>2. CASE opc' = "success"
      <4>1. api'.st.phase = "Completed" /\ due' = due BY <2>3, <2>5, <2>t, <3>2
      <4>2. \A c, d \in Copies' :
               due' <= c.rv /\ c.rv <= d.rv /\ c.st.phase # "InProgress" =>
                  d.st.phase # "InProgress"
        BY <1>y, <2>2, <2>o, <2>5, <4>1, EndedStays
      <4> QED BY <3>2, <4>1, <4>2 DEF OperationAhead
    <3> QED BY <2>3, <3>1, <3>2
  <2>9. api'.st.rs.run = api.st.rs.run BY <2>5, <2>t
  <2>10. api'.st.phase = "Completed" /\ ~api'.del =>
            /\ api'.st.rs.run \in live
            /\ \A v \in Volumes : progress[api'.st.rs.run][v] = Full
    BY <2>1, <2>5, <2>t
  <2>11. \A rs \in {o'.st.rs, onew'.rs, api'.st.rs} : rs \in RestoreStates \cup {NoState}
    BY <1>b, <1>n, <2>3, <2>5, <2>t
  <2> QED BY <2>2, <2>3, <2>5, <2>6, <2>7, <2>8, <2>9, <2>10, <2>11, OperationMoves
<1>9. ASSUME NEW at \in {"complete", "fail"}, NEW ph \in {"Completed", "Failed"},
             OpRecord(at, ph), at = "complete" <=> ph = "Completed"
      PROVE  PromptInv'
  <2> DEFINE b == Patched(o.st, [o.st EXCEPT !.phase = ph])
  <2>0. opc = at /\ OpGoto("exit", NoVRC, NoStatus) /\ due' = due BY <1>9 DEF OpRecord
  <2>h. o.st.phase = "InProgress" BY <1>9, <1>h, <2>0 DEF OperationHolds
  <2>1. /\ b \in VRC /\ b.fin = api.fin /\ b.del = api.del /\ b.clean = api.clean
        /\ b.st.phase = ph /\ b.st.rs = api.st.rs
    <3>1. ph \in Phases /\ ph # "InProgress" BY <1>9 DEF Phases
    <3> QED BY <3>1, <2>h, <1>v, PhaseWritable
  <2>2. \/ api.rv # 0 /\ Commit(b) /\ StoreRevisionUpdate(api'.rv)
        \/ UNCHANGED <<apiVars, processed>>
        \/ api.rv # 0 /\ Commit(b) /\ UNCHANGED processed
    BY <1>9, Zenon DEF OpRecord
  <2> HIDE DEF b
  <2>3. /\ opc' = "exit" /\ o' = NoVRC /\ onew' = NoStatus
        /\ UNCHANGED <<cache, pc, w, wnew, starts, live, progress>>
    BY <2>0, OpGotoLeaves
  <2>4. CASE UNCHANGED <<apiVars, processed>>
    <3>1. Copies' = Copies /\ api' = api BY <1>2, <2>3, <2>4
    <3>2. api.rv # 0 => OperationAhead' BY <1>9, <1>i, <2>0, <2>3, <3>1 DEF OperationAhead
    <3> QED BY <1>1, <1>9, <1>n, <2>0, <2>3, <2>4, <3>2
  <2>5. CASE /\ api.rv # 0 /\ Commit(b)
             /\ StoreRevisionUpdate(api'.rv) \/ UNCHANGED processed
    <3>o. OperationAhead BY <1>i, <2>5
    <3>1. Stored(b) BY <1>v, <2>1, <2>5, CommitStores
    <3>2. /\ Server /\ api'.rv # 0 /\ api'.st = b.st /\ api'.del = b.del
      BY <1>y, <2>1, <2>3, <2>5, <3>1, StoredServer
    <3>3. /\ at = "complete" => api.st.phase = "Completed"
          /\ at = "fail" => api.st.phase = "InProgress"
      BY <2>0, <3>o DEF OperationAhead
    <3>5. NotBehind(api, api') BY <1>9, <2>1, <3>2 DEF NotBehind, Begun
    <3>6. processed' >= processed
      <4>1. StoreRevisionUpdate(api'.rv) => processed' >= processed BY <1>v, StoreRevisionType
      <4>2. processed' = processed => processed' >= processed BY <1>v
      <4> QED BY <2>5, <4>1, <4>2
    <3>7. OperationAhead'
      <4>1. \A c, d \in Copies' :
               due' <= c.rv /\ c.rv <= d.rv /\ c.st.phase # "InProgress" =>
                  d.st.phase # "InProgress"
        <5>1. api'.st.phase # "InProgress" BY <1>9, <2>1, <3>2
        <5>2. opc # "none" BY <1>9, <2>0
        <5> QED BY <1>y, <2>0, <3>o, <3>2, <5>1, <5>2, EndedStays
      <4> QED BY <2>3, <4>1 DEF OperationAhead
    <3>8. /\ api'.st.rs = api.st.rs
          /\ api'.st.phase = "Completed" => api.st.phase = "Completed"
      BY <1>9, <2>1, <3>2, <3>3
    <3>9. \A rs \in {o'.st.rs, onew'.rs, api'.st.rs} : rs \in RestoreStates \cup {NoState}
      BY <1>b, <1>n, <2>3, <3>8
    <3>10. opc # "none" BY <1>9, <2>0
    <3> QED BY <2>3, <2>5, <3>2, <3>5, <3>6, <3>7, <3>8, <3>9, <3>10, OperationMoves
  <2> QED BY <2>2, <2>4, <2>5, Zenon
<1>10. CASE OpUpdatePanics BY <1>10, PanicPrompt
<1> QED BY <1>3, <1>4, <1>5, <1>6, <1>7, <1>8, <1>9, <1>10 DEF Operation

-----------------------------------------------------------------------------
(* The other steps, when events arrive within the poll interval *)

\* A step of the world around the two goroutines that leaves the status alone keeps the
\* invariant.
LEMMA WorldMoves ==
    ASSUME IInv, IInv', PromptInv, Server, api'.rv # 0, api'.st = api.st,
           UNCHANGED <<pc, w, wnew, opc, o, onew, due, processed, starts, live, progress>>
    PROVE  PromptInv'
<1>y. TypeOK /\ TypeOK' /\ CopiesBehind BY DEF IInv
<1>o. api.rv # 0 /\ (api.del => api'.del) BY <1>y, ServerOnward
<1>i. VersionsInOrder /\ WorkerBehind /\ OneAtATime /\ OperationAhead BY <1>o DEF PromptInv
<1>p. processed' >= processed
  <2>1. processed \in Nat BY <1>y DEF TypeOK
  <2> QED BY <2>1
<1>1. NotBehind(api, api') BY <1>o DEF NotBehind
<1>2. WorkerBehind' BY <1>1, <1>i, <1>p, <1>y, WorkerWaits
<1>3. OneAtATime' BY <1>1, <1>i, <1>p, <1>y, OneWaits
<1>4. OperationAhead' BY <1>i, <1>y, OperationWaits
<1>5. cache.rv = 0 => pc' = "idle" /\ opc' = "none" BY <1>i DEF VersionsInOrder
<1>6. \A rs \in {w'.st.rs, wnew'.rs, o'.st.rs, onew'.rs, api'.st.rs} : rs \in RestoreStates
  BY DEF RestoreStates, Copies
<1>7. pc' = "created" => starts' \in live' BY DEF PromptInv, DriverKnows
<1> QED BY <1>1, <1>2, <1>3, <1>4, <1>5, <1>6, <1>7, StepKeeps

\* So does one that leaves no object.
LEMMA WorldGone ==
    ASSUME IInv, IInv', PromptInv, Server, api' = NoVRC,
           UNCHANGED <<w, wnew, o, onew, progress>>
    PROVE  PromptInv'
<1>y. TypeOK /\ TypeOK' BY DEF IInv
<1>1. \A rs \in {w'.st.rs, wnew'.rs, o'.st.rs, onew'.rs} : rs \in RestoreStates
  BY DEF RestoreStates
<1>2. pc' # "created" BY NoVRCType DEF IInv, WorkerHolds
<1> QED BY <1>1, <1>2, <1>y, GoneKeeps

\* The driver's progress leaves what is recorded behind, and what is finished finished.
LEMMA ProgressPrompt ==
    ASSUME IInv, PromptInv, DriverProgress
    PROVE  PromptInv'
<1>y. TypeOK BY DEF IInv
<1>0. UNCHANGED <<api, watch, cache, processed, pc, w, wnew, opc, o, onew, due, starts, live>>
  BY DEF DriverProgress, EnvUnchanged, apiVars, queueVars, workerVars, opVars
<1>1. PICK r \in live, v \in Volumes :
         progress[r][v] < Full /\ progress' = [progress EXCEPT ![r][v] = @ + 1]
  BY DEF DriverProgress
<1>2. progress \in [Runs -> [Volumes -> 0..Full]] BY <1>y DEF TypeOK
<1>3. \A s \in Runs, u \in Volumes :
         /\ progress[s][u] \in Int /\ progress'[s][u] \in Int /\ progress[s][u] <= progress'[s][u]
         /\ progress[s][u] = Full => progress'[s][u] = Full
  <2> SUFFICES ASSUME NEW s \in Runs, NEW u \in Volumes
               PROVE  /\ progress[s][u] \in Int /\ progress'[s][u] \in Int
                      /\ progress[s][u] <= progress'[s][u]
                      /\ progress[s][u] = Full => progress'[s][u] = Full
    OBVIOUS
  <2>1. progress[s] \in [Volumes -> 0..Full] BY <1>2
  <2>2. progress[s][u] \in Int BY <2>1, ServiceAssumption
  <2>3. progress'[s][u] = IF s = r /\ u = v THEN progress[s][u] + 1 ELSE progress[s][u]
    BY <1>1, <1>2
  <2> QED BY <1>1, <2>2, <2>3, ServiceAssumption
<1>4. ASSUME NEW rs \in RestoreState, ProgressKnown(rs) PROVE ProgressKnown(rs)'
  <2>1. rs.run # 0 => rs.run \in Runs BY ServiceAssumption DEF RestoreState, Runs
  <2>2. rs.prog \in [Volumes -> 0..Full] BY DEF RestoreState
  <2>3. \A u \in Volumes : rs.prog[u] \in Int BY <2>2, ServiceAssumption
  <2> SUFFICES ASSUME NEW u \in Volumes
               PROVE  rs.prog[u] <= IF rs.run = 0 THEN 0 ELSE progress'[rs.run][u]
    BY DEF ProgressKnown
  <2>4. rs.prog[u] <= IF rs.run = 0 THEN 0 ELSE progress[rs.run][u] BY <1>4 DEF ProgressKnown
  <2> QED BY <1>3, <2>1, <2>3, <2>4
<1>5. RestoreStates' = RestoreStates BY <1>0 DEF RestoreStates, Copies, Arriving
<1>6. RestoreStates \subseteq RestoreState
  <2>1. \A c \in Copies : c.st.rs \in RestoreState BY <1>y, CopiesType, VRCFields
  <2>2. w.st.rs \in RestoreState /\ o.st.rs \in RestoreState BY <1>y, VRCFields DEF TypeOK
  <2>3. wnew.rs \in RestoreState /\ onew.rs \in RestoreState BY <1>y DEF TypeOK, Status
  <2> QED BY <2>1, <2>2, <2>3 DEF RestoreStates
<1>7. DriverKnows'
  <2>1. \A rs \in RestoreStates' : ProgressKnown(rs)'
    BY <1>4, <1>5, <1>6 DEF PromptInv, DriverKnows
  <2> QED BY <1>0, <2>1 DEF PromptInv, DriverKnows
<1>8. CompletedMeansDone'
  <2>1. live \subseteq Runs
    <3>1. starts \in 0..MaxStarts /\ live \subseteq 1..starts BY <1>y DEF TypeOK
    <3> QED BY <3>1, ServiceAssumption DEF Runs
  <2> QED BY <1>0, <1>3, <2>1 DEF PromptInv, CompletedMeansDone
<1>9. api.rv # 0 => VersionsInOrder' /\ OneAtATime' /\ OperationAhead'
  <2>1. api.rv # 0 => VersionsInOrder' BY <1>0 DEF PromptInv, VersionsInOrder, Copies, Arriving
  <2>2. api.rv # 0 => OneAtATime'
    BY <1>0 DEF PromptInv, OneAtATime, Copies, Arriving, Accessible
  <2>3. api.rv # 0 => OperationAhead' BY <1>0 DEF PromptInv, OperationAhead, Copies, Arriving
  <2> QED BY <2>1, <2>2, <2>3
<1>10. api.rv # 0 => WorkerBehind'
  BY <1>0 DEF PromptInv, WorkerBehind, Copies, Arriving, Accessible
<1> QED BY <1>0, <1>7, <1>8, <1>9, <1>10 DEF PromptInv

\* Every step of the informer, the resync loop, the other controllers, the driver and the
\* clock keeps the invariant.
LEMMA EnvironmentPrompt ==
    ASSUME IInv, IInv', PromptInv,
           Informer \/ ReSync \/ AnnotateVRC \/ DeleteVRC \/ DriverProgress \/ TimePasses
    PROVE  PromptInv'
<1>y. TypeOK BY DEF IInv
<1>v. api \in VRC /\ api.rv \in Nat /\ watch \in Seq(VRC) BY <1>y, VRCFields DEF TypeOK
<1>0. UNCHANGED <<pc, w, wnew, opc, o, onew, due, processed, starts, live>>
  BY DEF Informer, ReSync, AnnotateVRC, DeleteVRC, DriverProgress, TimePasses, EnvUnchanged,
         workerVars, opVars, driverVars
<1>1. CASE api' = api /\ Server /\ progress' = progress
  <2>1. api.rv = 0 => api' = NoVRC BY <1>1 DEF PromptInv, DriverKnows
  <2> QED BY <1>0, <1>1, <2>1, WorldGone, WorldMoves
<1>2. ASSUME NEW b \in VRC, Commit(b), api.rv # 0, b.st = api.st, cache' = cache,
             b.fin = api.fin, api.del => b.del /\ b.clean = api.clean, progress' = progress
      PROVE  PromptInv'
  <2>1. Stored(b) BY <1>2, <1>v, CommitStores
  <2>2. Server /\ api'.rv # 0 /\ api'.st = b.st BY <1>2, <2>1, <1>y, StoredServer
  <2> QED BY <1>0, <1>2, <2>2, WorldMoves
<1>3. CASE Informer
  <2>1. api' = api /\ Server BY <1>3 DEF Informer, Server
  <2>2. progress' = progress BY <1>3 DEF Informer, driverVars
  <2> QED BY <1>1, <2>1, <2>2
<1>4. CASE ReSync \/ TimePasses
  <2>1. UNCHANGED <<api, watch, cache, progress>>
    BY <1>4 DEF ReSync, TimePasses, EnvUnchanged, apiVars, driverVars
  <2> QED BY <1>1, <2>1 DEF Server
<1>5. CASE AnnotateVRC
  <2> DEFINE b == [api EXCEPT !.clean = TRUE]
  <2>1. /\ Commit(b) /\ api.rv # 0 /\ ~api.del /\ cache' = cache /\ progress' = progress
        /\ b \in VRC /\ b.st = api.st /\ b.fin = api.fin /\ b.del = api.del
    BY <1>5, <1>v DEF AnnotateVRC, EnvUnchanged, VRC, driverVars
  <2> HIDE DEF b
  <2> QED BY <1>2, <2>1
<1>6. CASE DeleteVRC
  <2>0. api.rv # 0 /\ cache' = cache /\ progress' = progress
    BY <1>6 DEF DeleteVRC, EnvUnchanged, driverVars
  <2>1. CASE Commit([api EXCEPT !.del = TRUE])
    <3> DEFINE b == [api EXCEPT !.del = TRUE]
    <3>1. Commit(b) /\ b \in VRC /\ b.st = api.st /\ b.fin = api.fin /\ b.del
          /\ b.clean = api.clean
      BY <2>1, <1>v DEF VRC
    <3> HIDE DEF b
    <3> QED BY <1>2, <2>0, <3>1
  <2>2. CASE Remove
    <3>1. Server /\ api' = NoVRC BY <2>0, <2>2 DEF Server, Remove
    <3> QED BY <1>0, <2>0, <3>1, WorldGone
  <2> QED BY <1>6, <2>1, <2>2 DEF DeleteVRC
<1>7. CASE DriverProgress BY <1>7, ProgressPrompt
<1> QED BY <1>3, <1>4, <1>5, <1>6, <1>7

\* After a crash nothing is known but the stored object.
LEMMA CrashPrompt ==
    ASSUME IInv, IInv', PromptInv, Crash
    PROVE  PromptInv'
<1>1. Restart /\ UNCHANGED <<api, starts, live, progress>> BY DEF Crash, driverVars
<1>2. NotBehind(api, api') BY <1>1, NotBehindOrder
<1>3. api'.st.rs \in RestoreStates BY <1>1 DEF RestoreStates, Copies
<1> QED BY <1>1, <1>2, <1>3, RestartPrompt DEF PromptInv, CompletedMeansDone

\* Every step keeps the invariant.
LEMMA NextPrompt ==
    ASSUME IInv, IInv', PromptInv, [Next]_vars, ~InformerLags
    PROVE  PromptInv'
<1>1. CASE UNCHANGED vars
  <2>0. UNCHANGED <<api, watch, cache, processed, pc, w, wnew, opc, o, onew, due, starts, live,
                    progress>>
    BY <1>1 DEF vars
  <2>1. api.rv = 0 => api' = NoVRC BY <2>0 DEF PromptInv, DriverKnows
  <2>2. Server BY <2>0 DEF Server
  <2> QED BY <2>0, <2>1, <2>2, WorldGone, WorldMoves
<1> QED BY <1>1, WorkerPrompt, OperationPrompt, EnvironmentPrompt, CrashPrompt DEF Next

\* The invariant holds initially.
LEMMA InitPrompt ==
    ASSUME Init
    PROVE  PromptInv
<1>n. /\ NoVRC.rv = 0 /\ NoVRC.st = NoStatus /\ ~NoVRC.del
      /\ NoStatus.rs = NoState /\ NoStatus.phase = "unset" /\ NoVRC \in VRC
      /\ NoState.run = 0
  BY NoVRCType
<1>0. /\ watch = <<api>> /\ cache = NoVRC /\ pc = "idle" /\ w = NoVRC /\ wnew = NoStatus
      /\ opc = "none" /\ o = NoVRC /\ onew = NoStatus
  BY DEF Init
<1>1. api.rv = 1 /\ api.st = NoStatus /\ ~api.del
  <2>1. api = [NoVRC EXCEPT !.rv = 1] BY DEF Init
  <2> QED BY <2>1, <1>n DEF VRC
<1>2. Arriving = {NoVRC, api} /\ Copies = {NoVRC, api}
  <2>1. {watch[i] : i \in DOMAIN watch} = {api} BY <1>0
  <2> QED BY <2>1, <1>0 DEF Copies, Arriving
<1>3. VersionsInOrder
  <2>1. DOMAIN watch = {1} /\ watch[1] = api BY <1>0
  <2>2. \A c, d \in Copies : c.st = d.st /\ ~c.del BY <1>1, <1>2, <1>n
  <2>3. \A c, d \in Copies : NotBehind(c, d) BY <2>2 DEF NotBehind
  <2> QED BY <1>0, <1>1, <1>2, <1>n, <2>1, <2>3 DEF VersionsInOrder
<1>4. WorkerBehind BY <1>0 DEF WorkerBehind
<1>5. OneAtATime /\ OperationAhead BY <1>0 DEF OneAtATime, OperationAhead
<1>6. DriverKnows
  <2>1. \A v \in Volumes : NoState.prog[v] = 0 BY DEF NoState, Untouched
  <2>2. ProgressKnown(NoState) BY <1>n, <2>1 DEF ProgressKnown
  <2>3. RestoreStates = {NoState}
    <3>1. \A c \in Copies : c.st.rs = NoState BY <1>1, <1>2, <1>n
    <3> QED BY <1>0, <1>n, <1>2, <3>1 DEF RestoreStates
  <2> QED BY <1>0, <1>1, <1>n, <2>2, <2>3 DEF DriverKnows
<1>7. CompletedMeansDone BY <1>1, <1>n DEF CompletedMeansDone
<1> QED BY <1>3, <1>4, <1>5, <1>6, <1>7 DEF PromptInv

\* The inductive invariant holds in every reachable state, when events arrive within the
\* poll interval.
LEMMA Prompt ==
    ASSUME ~InformerLags
    PROVE  Spec => []PromptInv
<1>1. Init => PromptInv BY InitPrompt
<1>2. IInv /\ IInv' /\ PromptInv /\ [Next]_vars => PromptInv' BY NextPrompt
<1> QED BY <1>1, <1>2, Inductive, PTL DEF Spec

\* A VRC is Completed only if its handles belong to volumes that exist at the driver and
\* every one of which is restored: for any number of volumes, retries, disturbances and
\* progress timeouts, when events arrive within the poll interval.
THEOREM CompletedIsDone ==
    ASSUME ~InformerLags
    PROVE  Spec => []CompletedMeansDone
<1>1. PromptInv => CompletedMeansDone BY DEF PromptInv
<1> QED BY <1>1, Prompt, PTL

-----------------------------------------------------------------------------
(* What the steps mean to the restore controller *)

\* The phases of which the contract says that the restore of the volumes has ended
Ended(st) == st.phase \in {"Completed", "Failed"}

\* What a write of b that leaves the deletion alone means
LEMMA WriteMeans ==
    ASSUME TypeOK, NEW b \in VRC, Stored(b), api.rv # 0, b.del = api.del
    PROVE  /\ b.st.phase = api.st.phase \/ (~Ended(api.st) /\ ~Ended(b.st)) =>
                 UNCHANGED Contract!vars
           /\ ~Ended(api.st) => Contract!Finish \/ UNCHANGED Contract!vars
<1>0. api'.rv # 0 /\ api'.st = b.st /\ api'.del = api.del
  <2>1. api.rv \in Nat BY VRCFields DEF TypeOK
  <2> QED BY <2>1 DEF Stored
<1>1. b.st.phase = api.st.phase \/ (~Ended(api.st) /\ ~Ended(b.st)) => UNCHANGED Contract!vars
  BY <1>0 DEF Ended, Contract!vars
<1>2. ~Ended(api.st) /\ Ended(b.st) => Contract!Finish
  BY <1>0 DEF Ended, Contract!Finish
<1> QED BY <1>1, <1>2

\* A step that leaves the object alone means nothing.
LEMMA NothingMeans ==
    ASSUME api' = api
    PROVE  UNCHANGED Contract!vars
BY DEF Contract!vars

\* What the worker's writes mean
LEMMA WorkerMeans ==
    ASSUME IInv, PromptInv, Worker
    PROVE  Contract!Next \/ UNCHANGED Contract!vars
<1>y. TypeOK BY DEF IInv
<1>v. /\ api \in VRC /\ watch \in Seq(VRC) /\ w.st \in Status /\ wnew \in Status
  BY <1>y, VRCFields DEF TypeOK
<1>i. api.rv # 0 => WorkerBehind BY DEF PromptInv
<1>h. WorkerHolds BY DEF IInv
<1>1. ASSUME NEW b \in VRC, NEW next \in Pcs \cup {"return"}, WorkerWrite(b, next), api' # api
      PROVE  Stored(b) /\ api.rv # 0
  BY <1>1, <1>y, WorkerWriteOutcomes, Zenon
\* of the two writes that follow a request to the driver
<1>s. ASSUME pc \in {"createFailed", "created"}
      PROVE  w.st.phase \in {"unset", "New"} /\ ~Ended(api.st)
  <2>1. api.rv # 0 /\ w.st.phase \in {"unset", "New"} BY <1>s, <1>h DEF WorkerHolds
  <2>2. ~Begun(api.st) BY <1>s, <1>i, <2>1 DEF WorkerBehind, Begun
  <2> QED BY <2>1, <2>2 DEF Begun, Ended
<1> SUFFICES ASSUME api' # api PROVE Contract!Next \/ UNCHANGED Contract!vars
  BY NothingMeans
<1>2. CASE SetFinalizer
  <2> DEFINE b == [api EXCEPT !.fin = TRUE]
  <2>1. WorkerWrite(b, "init") BY <1>2 DEF SetFinalizer
  <2>2. b \in VRC /\ b.del = api.del /\ b.st = api.st BY <1>v DEF VRC
  <2> HIDE DEF b
  <2>3. Stored(b) /\ api.rv # 0 BY <1>1, <2>1, <2>2 DEF Pcs
  <2> QED BY <1>y, <2>2, <2>3, WriteMeans
<1>3. CASE UpdateStatus
  <2> DEFINE ph == IF api.st.phase = "unset" THEN "New" ELSE api.st.phase
             b == [api EXCEPT !.st.phase = ph]
  <2>1. WorkerWrite(b, "switch") \/ Local("error") BY <1>3, Zenon DEF UpdateStatus
  <2>2. ~Local("error") BY DEF Local, apiVars
  <2>3. ph \in Phases /\ (ph = api.st.phase \/ (api.st.phase = "unset" /\ ph = "New"))
    BY <1>v, VRCFields DEF Phases
  <2> HIDE DEF ph
  <2>4. b \in VRC /\ b.del = api.del /\ b.st.phase = ph BY <1>v, <2>3 DEF VRC, Status
  <2> HIDE DEF b
  <2>5. Stored(b) /\ api.rv # 0 BY <1>1, <2>1, <2>2, <2>4 DEF Pcs
  <2>6. b.st.phase = api.st.phase \/ (~Ended(api.st) /\ ~Ended(b.st))
    BY <2>3, <2>4 DEF Ended
  <2> QED BY <1>y, <2>4, <2>5, <2>6, WriteMeans
<1>4. CASE CreateFailed
  <2> DEFINE b == Patched(w.st, [w.st EXCEPT !.phase = "Failed"])
  <2>1. pc = "createFailed" /\ WorkerWrite(b, "return") BY <1>4 DEF CreateFailed
  <2>2. b \in VRC /\ b.del = api.del
    <3>1. "Failed" \in Phases BY DEF Phases
    <3> QED BY <3>1, <1>v, PhaseType, PatchedType
  <2> HIDE DEF b
  <2>3. Stored(b) /\ api.rv # 0 BY <1>1, <2>1, <2>2
  <2> QED BY <1>s, <1>y, <2>1, <2>2, <2>3, WriteMeans DEF Contract!Next
<1>5. CASE Created
  <2> DEFINE b == Patched(w.st, wnew)
  <2>1. pc = "created" /\ WorkerWrite(b, "run") BY <1>5 DEF Created
  <2>2. b \in VRC /\ b.del = api.del BY <1>v, PatchedType
  <2> HIDE DEF b
  <2>3. Stored(b) /\ api.rv # 0 BY <1>1, <2>1, <2>2 DEF Pcs
  <2> QED BY <1>s, <1>y, <2>1, <2>2, <2>3, WriteMeans DEF Contract!Next
<1>6. CASE RemoveFinalizer
  <2>1. pc = "delFinalizer" /\ api.rv # 0 /\ Remove
    BY <1>6, Zenon DEF RemoveFinalizer, apiVars
  <2>2. api.del BY <2>1, <1>h DEF WorkerHolds
  <2>3. api' = NoVRC BY <2>1 DEF Remove
  <2>4. Contract!Release BY <2>2, <2>3, NoVRCType DEF Contract!Release
  <2> QED BY <2>4 DEF Contract!Next
<1>7. CASE \/ ProcessQueue \/ ProcessVolumeRestore \/ CreateVolumeFromBackup
           \/ CreateVolumeFails \/ RunOperation \/ CancelRestore
  BY <1>7 DEF ProcessQueue, ProcessVolumeRestore, Local, CreateVolumeFromBackup,
     CreateVolumeFails, RunOperation, CancelRestore, apiVars
<1> QED BY <1>2, <1>3, <1>4, <1>5, <1>6, <1>7 DEF Worker

\* What the operation's patches mean, those too over which the process panics
LEMMA OperationMeans ==
    ASSUME IInv, PromptInv, Operation
    PROVE  Contract!Next \/ UNCHANGED Contract!vars
<1>y. TypeOK BY DEF IInv
<1>v. /\ api \in VRC /\ watch \in Seq(VRC) /\ o.st \in Status /\ onew \in Status
  BY <1>y, VRCFields DEF TypeOK
<1>i. api.rv # 0 => OperationAhead BY DEF PromptInv
<1>h. OperationHolds BY DEF IInv
<1> SUFFICES ASSUME api' # api PROVE Contract!Next \/ UNCHANGED Contract!vars
  BY NothingMeans
<1>1. CASE OpUpdate \/ OpUpdatePanics
  <2> DEFINE b == Patched(o.st, onew)
  <2>1. opc = "update" /\ api.rv # 0 /\ (Commit(b) \/ api' = [b EXCEPT !.rv = @ + 1])
    BY <1>1 DEF OpUpdate, OpUpdatePanics, apiVars
  <2>2. b \in VRC /\ b.del = api.del BY <1>v, PatchedType
  <2> HIDE DEF b
  <2>3. ~Ended(api.st) BY <1>i, <2>1 DEF OperationAhead, Ended
  <2>4. CASE Commit(b)
    <3>1. Stored(b) BY <1>v, <2>2, <2>4, CommitStores
    <3> QED BY <1>y, <2>1, <2>2, <2>3, <3>1, WriteMeans DEF Contract!Next
  <2>5. CASE api' = [b EXCEPT !.rv = @ + 1]
    <3>1. b.rv \in Nat BY <2>2, VRCFields
    <3>2. api'.rv = b.rv + 1 /\ api'.st = b.st /\ api'.del = api.del BY <2>2, <2>5 DEF VRC
    <3>3. api'.rv # 0 BY <3>1, <3>2
    <3>4. Contract!Finish \/ UNCHANGED Contract!vars
      BY <2>1, <2>3, <3>2, <3>3 DEF Ended, Contract!Finish, Contract!vars
    <3> QED BY <3>4 DEF Contract!Next
  <2> QED BY <2>1, <2>4, <2>5
<1>2. ASSUME NEW at \in {"complete", "fail"}, NEW ph \in {"Completed", "Failed"},
             OpRecord(at, ph), at = "complete" <=> ph = "Completed"
      PROVE  Contract!Next \/ UNCHANGED Contract!vars
  <2> DEFINE b == Patched(o.st, [o.st EXCEPT !.phase = ph])
  <2>1. opc = at /\ api.rv # 0 /\ Commit(b) BY <1>2, Zenon DEF OpRecord, apiVars
  <2>2. o.st.phase = "InProgress" BY <1>2, <2>1, <1>h DEF OperationHolds
  <2>3. b \in VRC /\ b.del = api.del /\ b.st.phase = ph
    <3>1. ph \in Phases /\ ph # o.st.phase /\ ph # "InProgress" BY <1>2, <2>2 DEF Phases
    <3> QED BY <3>1, <2>2, <1>v, PhaseWritable
  <2> HIDE DEF b
  <2>4. Stored(b) BY <1>v, <2>1, <2>3, CommitStores
  <2>5. /\ at = "complete" => api.st.phase = "Completed"
        /\ at = "fail" => api.st.phase = "InProgress"
    BY <1>i, <2>1 DEF OperationAhead
  <2>6. ~Ended(api.st) \/ b.st.phase = api.st.phase BY <1>2, <2>3, <2>5 DEF Ended
  <2> QED BY <1>y, <2>1, <2>3, <2>4, <2>6, WriteMeans DEF Contract!Next
<1>3. CASE \/ OpTick \/ OpStat \/ OpStatFails \/ OpExit
           \/ OpOutcome("success", "complete") \/ OpOutcome("failure", "fail")
  BY <1>3 DEF OpTick, OpStat, OpStatFails, OpExit, OpOutcome, apiVars
<1> QED BY <1>1, <1>2, <1>3 DEF Operation

\* What the steps of the world around the two goroutines mean
LEMMA EnvironmentMeans ==
    ASSUME IInv, Informer \/ ReSync \/ AnnotateVRC \/ DeleteVRC \/ DriverProgress \/ TimePasses
    PROVE  Contract!Next \/ UNCHANGED Contract!vars
<1>y. TypeOK BY DEF IInv
<1>v. api \in VRC /\ watch \in Seq(VRC) BY <1>y DEF TypeOK
<1>n. Contract!Delete => Contract!Next BY DEF Contract!Next
<1>1. CASE Informer \/ ReSync \/ DriverProgress \/ TimePasses
  <2>1. api' = api BY <1>1 DEF Informer, ReSync, DriverProgress, TimePasses, apiVars
  <2> QED BY <2>1, NothingMeans
<1>2. CASE AnnotateVRC
  <2> DEFINE b == [api EXCEPT !.clean = TRUE]
  <2>1. Commit(b) /\ api.rv # 0 /\ b \in VRC /\ b.st = api.st /\ b.del = api.del
    BY <1>2, <1>v DEF AnnotateVRC, VRC
  <2> HIDE DEF b
  <2>2. Stored(b) BY <1>v, <2>1, CommitStores
  <2> QED BY <1>y, <2>1, <2>2, WriteMeans
<1>3. CASE DeleteVRC
  <2>0. api.rv # 0 /\ ~api.del BY <1>3 DEF DeleteVRC
  <2>1. CASE Commit([api EXCEPT !.del = TRUE])
    <3> DEFINE b == [api EXCEPT !.del = TRUE]
    <3>1. Commit(b) /\ b \in VRC /\ b.st = api.st /\ b.del = TRUE BY <2>1, <1>v DEF VRC
    <3> HIDE DEF b
    <3>2. Stored(b) BY <1>v, <3>1, CommitStores
    <3>3. api'.rv # 0 /\ api'.st = api.st /\ api'.del = TRUE
      <4>1. api.rv \in Nat BY <1>v, VRCFields
      <4> QED BY <2>0, <3>1, <3>2, <4>1 DEF Stored
    <3>4. Contract!Delete BY <2>0, <3>3 DEF Contract!Delete
    <3> QED BY <1>n, <3>4
  <2>2. CASE Remove
    <3>1. api' = NoVRC BY <2>2 DEF Remove
    <3>2. api.del = FALSE BY <2>0, <1>v DEF VRC
    <3>3. NoVRC.rv = 0 /\ NoVRC.del = FALSE BY DEF NoVRC
    <3>4. Contract!Delete BY <2>0, <3>1, <3>2, <3>3 DEF Contract!Delete
    <3> QED BY <1>n, <3>4
  <2> QED BY <1>3, <2>1, <2>2 DEF DeleteVRC
<1> QED BY <1>1, <1>2, <1>3

\* What any step means
LEMMA StepMeans ==
    ASSUME IInv, PromptInv, [Next]_vars
    PROVE  Contract!Next \/ UNCHANGED Contract!vars
<1>1. CASE UNCHANGED vars BY <1>1, NothingMeans DEF vars
<1>2. CASE Crash BY <1>2, NothingMeans DEF Crash
<1> QED BY <1>1, <1>2, WorkerMeans, OperationMeans, EnvironmentMeans DEF Next

\* The contract begins where the service does.
LEMMA InitMeans ==
    ASSUME Init
    PROVE  Contract!Init
<1>1. api = [NoVRC EXCEPT !.rv = 1] BY DEF Init
<1>2. api.rv = 1 /\ api.st.phase = "unset" /\ api.del = FALSE
  BY <1>1 DEF NoVRC, NoStatus
<1> QED BY <1>2 DEF Contract!Init

\* The service takes no step but those of its contract, for any number of volumes,
\* retries, failed calls, panics, crashes and progress timeouts, when events arrive within
\* the poll interval: the safety part of FulfilsContract.
THEOREM ServiceImplements ==
    ASSUME ~InformerLags
    PROVE  Spec => Contract!Spec
<1>1. Init => Contract!Init BY InitMeans
<1>2. IInv /\ PromptInv /\ [Next]_vars => [Contract!Next]_(Contract!vars) BY StepMeans
<1> QED BY <1>1, <1>2, Inductive, Prompt, PTL DEF Spec, Contract!Spec

=============================================================================
