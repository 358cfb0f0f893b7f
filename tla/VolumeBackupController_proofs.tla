--------------------- MODULE VolumeBackupController_proofs ---------------------
(***************************************************************************)
(* Proofs about VolumeBackupController, for every value of its constants:  *)
(* although UpdateStatus writes the whole status of the informer's copy,   *)
(* it never undoes a phase the volume service has recorded.                *)
(***************************************************************************)
EXTENDS VolumeBackupController, TLAPS

\* The empty object is a VBC.
LEMMA NoVBCType == NoVBC \in VBC /\ NoVBC.rv = 0 /\ NoVBC.phase = "unset"
BY DEF NoVBC, VBC, Phases

\* The order of the phases
LEMMA OrderValues ==
    /\ Order("unset") = 0
    /\ Order("New") = 1
    /\ Order("InProgress") = 2
    /\ Order("Completed") = 3
    /\ Order("Deleting") = 4
BY DEF Order

\* Every phase has a place in the order.
LEMMA OrderType == ASSUME NEW p \in Phases PROVE Order(p) \in 0..4
<1>1. Order(p) \in {0, 1, 2, 3, 4} BY OrderValues, Zenon DEF Phases
<1> QED BY <1>1

\* Deleting comes last.
LEMMA DeletingLast == ASSUME NEW p \in Phases PROVE Order("Deleting") >= Order(p)
BY OrderType, OrderValues

\* What a write of the server leaves: the old object, or a new revision of which the
\* informer will hear.
Stored ==
    \/ UNCHANGED <<api, watch>>
    \/ api'.rv = api.rv + 1 /\ watch' = Append(watch, api')

\* A write of b stores a VBC with the phase of b.
LEMMA CommitStores ==
    ASSUME api \in VBC, watch \in Seq(VBC), NEW b \in VBC, Commit(b)
    PROVE  /\ api' \in VBC /\ watch' \in Seq(VBC)
           /\ api'.phase = b.phase
           /\ Stored
<1> DEFINE new == [b EXCEPT !.rv = api.rv + 1]
<1>1. CASE b = api BY <1>1 DEF Commit, apiVars, Stored
<1>2. CASE b # api
  <2>1. new \in VBC /\ new.phase = b.phase /\ new.rv = api.rv + 1 BY DEF VBC
  <2>2. api' = new /\ watch' = Append(watch, new) BY <1>2 DEF Commit
  <2> QED BY <2>1, <2>2 DEF Stored
<1> QED BY <1>1, <1>2

\* A write that does not undo the phase keeps the copies in agreement.
LEMMA StoredKeeps ==
    ASSUME IInv, TypeOK', Stored, UNCHANGED cache, w' = w \/ w' = NoVBC, api.rv # 0
    PROVE  CopiesAgree' /\ WorkerHolds'
<1>t. /\ api \in VBC /\ cache \in VBC /\ w \in VBC /\ watch \in Seq(VBC) /\ api' \in VBC
      /\ api.rv \in Nat
  BY DEF IInv, TypeOK, VBC
<1>1. WorkerHolds' BY DEF IInv, WorkerHolds
<1>2. ASSUME NEW c \in VBC, Agrees(c) PROVE Agrees(c)'
  <2>1. CASE UNCHANGED <<api, watch>> BY <1>2, <2>1 DEF Agrees
  <2>2. CASE api'.rv = api.rv + 1
    <3>1. c.rv \in Nat BY DEF VBC
    <3> QED BY <1>t, <1>2, <2>2, <3>1 DEF Agrees
  <2> QED BY <2>1, <2>2 DEF Stored
<1>3. Copies' \subseteq Copies \cup {api'}
  <2>1. CASE UNCHANGED <<api, watch>> BY <2>1 DEF Copies
  <2>2. CASE watch' = Append(watch, api')
    <3> SUFFICES ASSUME NEW i \in DOMAIN watch' PROVE watch'[i] \in Copies \cup {api'}
      BY DEF Copies
    <3>1. i \in DOMAIN watch \/ watch'[i] = api' BY <1>t, <2>2
    <3>2. i \in DOMAIN watch => watch'[i] = watch[i] BY <1>t, <2>2
    <3> QED BY <3>1, <3>2 DEF Copies
  <2> QED BY <2>1, <2>2 DEF Stored
<1>4. \A c \in Copies \cup {w} : c \in VBC BY <1>t DEF Copies
<1>5. CopiesAgree'
  <2> SUFFICES ASSUME api'.rv # 0, NEW c \in Copies' \cup {w'} PROVE Agrees(c)'
    BY DEF CopiesAgree
  <2>1. CASE c \in Copies \cup {w} BY <1>2, <1>4, <2>1 DEF IInv, CopiesAgree
  <2>2. CASE c = api' BY <1>t, <2>2 DEF Agrees, VBC
  <2>3. CASE c = NoVBC
    <3>1. api'.rv \in Nat BY <1>t DEF VBC
    <3> QED BY <2>3, <3>1, NoVBCType DEF Agrees
  <2> QED BY <1>3, <2>1, <2>2, <2>3
<1> QED BY <1>1, <1>5

\* ReturnErr keeps the types of queue and worker.
LEMMA ReturnErrType ==
    ASSUME TypeOK, NEW again \in BOOLEAN, ReturnErr(again)
    PROVE  w' = NoVBC /\ queued' \in BOOLEAN /\ requeues' \in 0..MaxRetry
<1>1. CASE requeues < MaxRetry
  BY <1>1, ControllerAssumption DEF ReturnErr, TypeOK
<1>2. CASE ~(requeues < MaxRetry)
  BY <1>2, ControllerAssumption DEF ReturnErr, TypeOK
<1> QED BY <1>1, <1>2

\* Taking a key keeps the invariant: only the driver of the copy is written.
LEMMA ProcessKeeps ==
    ASSUME IInv, ProcessQueue
    PROVE  IInv' /\ PhaseNotUndone
<1>t. /\ api \in VBC /\ cache \in VBC /\ w \in VBC /\ watch \in Seq(VBC)
      /\ api.rv \in Nat /\ cache.rv \in Nat /\ api.phase \in Phases
  BY DEF IInv, TypeOK, VBC
<1>u. UNCHANGED <<api, watch, faults, crashes>>
  BY DEF ProcessQueue, apiVars
<1>m. /\ [cache EXCEPT !.prov = TRUE] \in VBC
      /\ [cache EXCEPT !.prov = TRUE].rv = cache.rv
      /\ [cache EXCEPT !.prov = TRUE].phase = cache.phase
  BY <1>t DEF VBC
<1>p. processed' \in Nat BY <1>t DEF ProcessQueue, IInv, TypeOK
<1>n. PhaseNotUndone BY <1>t, <1>u, OrderType DEF PhaseNotUndone
<1>1. CASE UNCHANGED cache /\ w' = NoVBC /\ queued' \in BOOLEAN /\ requeues' \in 0..MaxRetry
  <2>1. TypeOK' BY <1>1, <1>u, <1>p, NoVBCType DEF IInv, TypeOK
  <2>2. WorkerHolds' BY <1>1 DEF WorkerHolds
  <2>3. Stored /\ (api.rv = 0 \/ CopiesAgree') BY <1>1, <1>u, <2>1, StoredKeeps DEF Stored
  <2>4. CopiesAgree' BY <1>u, <2>3 DEF CopiesAgree
  <2> QED BY <1>n, <2>1, <2>2, <2>4 DEF IInv
<1>2. CASE /\ cache.rv # 0 /\ cache' = [cache EXCEPT !.prov = TRUE] /\ w' = cache'
           /\ queued' = FALSE /\ requeues' = requeues
  <2>1. TypeOK' BY <1>2, <1>u, <1>p, <1>m DEF IInv, TypeOK
  <2>2. WorkerHolds' BY <1>2, <1>m DEF WorkerHolds
  <2>3. CopiesAgree'
    <3> SUFFICES ASSUME api.rv # 0, NEW c \in Copies' \cup {w'} PROVE Agrees(c)
      BY <1>u DEF CopiesAgree, Agrees
    <3>1. Agrees(cache) BY DEF IInv, CopiesAgree, Copies
    <3>2. CASE c = cache' BY <1>2, <1>m, <3>1, <3>2 DEF Agrees
    <3>3. CASE c \in Copies BY <3>3 DEF IInv, CopiesAgree
    <3> QED BY <1>2, <1>u, <3>2, <3>3 DEF Copies
  <2> QED BY <1>n, <2>1, <2>2, <2>3 DEF IInv
<1>3. CASE cache.rv = 0 \/ processed > cache.rv \/ cache.del \/ ~needVolumeBackupDriver(cache)
  <2>1. 0 \in 0..MaxRetry BY ControllerAssumption
  <2> QED BY <1>1, <1>3, <2>1 DEF ProcessQueue, Return
<1>4. CASE /\ ~(cache.rv = 0 \/ processed > cache.rv \/ cache.del \/ ~needVolumeBackupDriver(cache))
           /\ ~cache.supported
  <2>1. ReturnErr(FALSE) /\ UNCHANGED cache BY <1>4 DEF ProcessQueue
  <2> QED BY <1>1, <2>1, ReturnErrType DEF IInv
<1>5. CASE /\ ~(cache.rv = 0 \/ processed > cache.rv \/ cache.del \/ ~needVolumeBackupDriver(cache))
           /\ cache.supported
  BY <1>2, <1>5 DEF ProcessQueue
<1> QED BY <1>3, <1>4, <1>5

\* UpdateStatus passes the optimistic lock only with the server's phase.
LEMMA UpdateKeeps ==
    ASSUME IInv, UpdateStatus
    PROVE  IInv' /\ PhaseNotUndone
<1> DEFINE b == [api EXCEPT !.phase = w.phase, !.prov = w.prov]
<1>t. /\ api \in VBC /\ cache \in VBC /\ w \in VBC /\ watch \in Seq(VBC)
      /\ api.rv \in Nat /\ w.rv \in Nat /\ api.phase \in Phases /\ w.rv # 0
  BY DEF IInv, TypeOK, VBC, WorkerHolds, UpdateStatus
<1>b. b \in VBC /\ b.phase = w.phase BY <1>t DEF VBC
<1> HIDE DEF b
<1>u. UNCHANGED <<cache, processed, crashes>> BY DEF UpdateStatus
<1>w. /\ w' = NoVBC /\ queued' \in BOOLEAN /\ requeues' \in 0..MaxRetry
      /\ faults' \in 0..MaxFaults
  <2>1. CASE Return /\ UNCHANGED <<queued, faults>>
    BY <2>1, ControllerAssumption DEF Return, IInv, TypeOK
  <2>2. CASE ReturnErr(queued) /\ (UNCHANGED faults \/ Fault)
    <3>1. queued \in BOOLEAN BY DEF IInv, TypeOK
    <3>2. faults' \in 0..MaxFaults
      BY <2>2, ControllerAssumption DEF Fault, IInv, TypeOK
    <3> QED BY <2>2, <3>1, <3>2, ReturnErrType DEF IInv
  <2> QED BY <2>1, <2>2 DEF UpdateStatus
<1>1. CASE UNCHANGED apiVars
  <2>1. TypeOK' BY <1>1, <1>u, <1>w, NoVBCType DEF IInv, TypeOK, apiVars
  <2>2. Stored BY <1>1 DEF Stored, apiVars
  <2>3. WorkerHolds' BY <1>w DEF WorkerHolds
  <2>4. CopiesAgree'
    <3>1. CASE api.rv = 0 BY <1>1, <3>1 DEF CopiesAgree, apiVars
    <3>2. CASE api.rv # 0 BY <1>u, <1>w, <2>1, <2>2, <3>2, StoredKeeps
    <3> QED BY <3>1, <3>2
  <2>5. PhaseNotUndone BY <1>t, <1>1, OrderType DEF PhaseNotUndone, apiVars
  <2> QED BY <2>1, <2>3, <2>4, <2>5 DEF IInv
<1>2. CASE api.rv = w.rv /\ Commit(b)
  <2>1. w.phase = api.phase BY <1>t, <1>2 DEF IInv, CopiesAgree, Agrees
  <2>2. /\ api' \in VBC /\ watch' \in Seq(VBC) /\ api'.phase = api.phase /\ Stored
    BY <1>t, <1>b, <1>2, <2>1, CommitStores
  <2>3. TypeOK' BY <1>u, <1>w, <2>2, NoVBCType DEF IInv, TypeOK
  <2>4. CopiesAgree' /\ WorkerHolds' BY <1>t, <1>2, <1>u, <1>w, <2>2, <2>3, StoredKeeps
  <2>5. PhaseNotUndone BY <1>t, <2>2, OrderType DEF PhaseNotUndone
  <2> QED BY <2>3, <2>4, <2>5 DEF IInv
<1> QED BY <1>1, <1>2 DEF UpdateStatus, b

\* The removal of the VBC keeps the invariant.
LEMMA RemoveKeeps ==
    ASSUME IInv, Remove, UNCHANGED <<cache, queued, requeues, processed, w, faults, crashes>>
    PROVE  IInv' /\ PhaseNotUndone
<1>1. api' = NoVBC /\ watch' = Append(watch, NoVBC) BY DEF Remove
<1>2. TypeOK' BY <1>1, NoVBCType DEF IInv, TypeOK
<1>3. CopiesAgree' /\ WorkerHolds' /\ PhaseNotUndone
  BY <1>1, NoVBCType DEF IInv, CopiesAgree, WorkerHolds, PhaseNotUndone
<1> QED BY <1>2, <1>3 DEF IInv

\* A write by others that advances the phase keeps the invariant.
LEMMA AdvanceKeeps ==
    ASSUME IInv, api.rv # 0, NEW b \in VBC, Commit(b), Order(b.phase) >= Order(api.phase),
           UNCHANGED <<cache, queued, requeues, processed, w, faults, crashes>>
    PROVE  IInv' /\ PhaseNotUndone
<1>1. /\ api' \in VBC /\ watch' \in Seq(VBC) /\ api'.phase = b.phase /\ Stored
  BY CommitStores DEF IInv, TypeOK
<1>2. TypeOK' BY <1>1 DEF IInv, TypeOK
<1>3. CopiesAgree' /\ WorkerHolds' BY <1>1, <1>2, StoredKeeps
<1> QED BY <1>1, <1>2, <1>3 DEF IInv, PhaseNotUndone

\* The informer, the resync, the other writers and crashes keep the invariant.
LEMMA EnvironmentKeeps ==
    ASSUME IInv, Informer \/ ReSync \/ ServiceWrites \/ DeleteVBC \/ Crash \/ UNCHANGED vars
    PROVE  IInv' /\ PhaseNotUndone
<1>t. /\ api \in VBC /\ watch \in Seq(VBC) /\ api.rv \in Nat /\ api.phase \in Phases
      /\ Order(api.phase) \in 0..4
  BY OrderType DEF IInv, TypeOK, VBC
<1>q. ASSUME UNCHANGED <<api, watch, cache, w>>, TypeOK' PROVE IInv' /\ PhaseNotUndone
  BY <1>t, <1>q DEF IInv, CopiesAgree, Copies, Agrees, WorkerHolds, PhaseNotUndone
<1>1. CASE Informer
  <2>u. UNCHANGED <<api, requeues, processed, w, faults, crashes>> BY <1>1 DEF Informer
  <2>0. watch # <<>> /\ cache' = Head(watch) /\ watch' = Tail(watch) BY <1>1 DEF Informer
  <2>1. Copies' \subseteq Copies
    <3> SUFFICES ASSUME NEW c \in Copies' PROVE \E i \in DOMAIN watch : c = watch[i]
      BY DEF Copies
    <3>1. CASE c = cache'
      <4>1. 1 \in DOMAIN watch /\ c = watch[1] BY <1>t, <2>0, <3>1
      <4> QED BY <4>1
    <3>2. ASSUME NEW i \in DOMAIN watch', c = watch'[i]
          PROVE  \E j \in DOMAIN watch : c = watch[j]
      <4>1. i + 1 \in DOMAIN watch /\ c = watch[i + 1] BY <1>t, <2>0, <3>2
      <4> QED BY <4>1
    <3> QED BY <3>1, <3>2 DEF Copies
  <2>2. queued' \in BOOLEAN BY <1>1 DEF Informer, IInv, TypeOK
  <2>3. TypeOK' BY <1>t, <2>u, <2>0, <2>2 DEF IInv, TypeOK
  <2>4. CopiesAgree' /\ WorkerHolds'
    BY <2>u, <2>1 DEF IInv, CopiesAgree, Agrees, WorkerHolds
  <2>5. PhaseNotUndone BY <1>t, <2>u DEF PhaseNotUndone
  <2> QED BY <2>3, <2>4, <2>5 DEF IInv
<1>2. CASE ReSync
  <2>1. TypeOK' BY <1>2 DEF ReSync, apiVars, IInv, TypeOK
  <2> QED BY <1>2, <1>q, <2>1 DEF ReSync, apiVars
<1>3. CASE ServiceWrites
  <2>u. UNCHANGED <<cache, queued, requeues, processed, w, faults, crashes>> /\ api.rv # 0
    BY <1>3 DEF ServiceWrites, EnvUnchanged, queueVars
  <2>1. CASE Remove BY <2>u, <2>1, RemoveKeeps
  <2>2. ASSUME NEW p \in Phases, Commit([api EXCEPT !.phase = p]), Order(p) >= Order(api.phase)
        PROVE  IInv' /\ PhaseNotUndone
    <3>1. [api EXCEPT !.phase = p] \in VBC /\ [api EXCEPT !.phase = p].phase = p
      BY <1>t DEF VBC
    <3> QED BY <2>u, <2>2, <3>1, AdvanceKeeps
  <2>3. CASE Commit([api EXCEPT !.fin = TRUE])
    <3> DEFINE b == [api EXCEPT !.fin = TRUE]
    <3>1. b \in VBC /\ b.phase = api.phase /\ Commit(b) BY <1>t, <2>3 DEF VBC
    <3> HIDE DEF b
    <3>2. Order(b.phase) >= Order(api.phase) BY <1>t, <3>1
    <3> QED BY <2>u, <3>1, <3>2, AdvanceKeeps
  <2>4. CASE api.phase = "unset" /\ Commit([api EXCEPT !.phase = "New"])
    BY <2>2, <2>4, OrderValues DEF Phases
  <2>5. CASE api.phase = "New" /\ Commit([api EXCEPT !.phase = "InProgress"])
    BY <2>2, <2>5, OrderValues DEF Phases
  <2>6. CASE api.phase = "InProgress" /\ Commit([api EXCEPT !.phase = "Completed"])
    BY <2>2, <2>6, OrderValues DEF Phases
  <2>7. CASE Commit([api EXCEPT !.phase = "Deleting"])
    BY <1>t, <2>2, <2>7, DeletingLast DEF Phases
  <2> QED BY <1>3, <2>1, <2>3, <2>4, <2>5, <2>6, <2>7 DEF ServiceWrites
<1>4. CASE DeleteVBC
  <2>u. UNCHANGED <<cache, queued, requeues, processed, w, faults, crashes>> /\ api.rv # 0
    BY <1>4 DEF DeleteVBC, EnvUnchanged, queueVars
  <2>1. CASE Remove BY <2>u, <2>1, RemoveKeeps
  <2>2. CASE Commit([api EXCEPT !.del = TRUE])
    <3> DEFINE b == [api EXCEPT !.del = TRUE]
    <3>1. b \in VBC /\ b.phase = api.phase /\ Commit(b) BY <1>t, <2>2 DEF VBC
    <3> HIDE DEF b
    <3>2. Order(b.phase) >= Order(api.phase) BY <1>t, <3>1
    <3> QED BY <2>u, <3>1, <3>2, AdvanceKeeps
  <2> QED BY <1>4, <2>1, <2>2 DEF DeleteVBC
<1>5. CASE Crash
  <2>1. /\ cache' = api /\ watch' = <<>> /\ w' = NoVBC /\ api' = api /\ faults' = faults
        /\ queued' \in BOOLEAN /\ requeues' = 0 /\ processed' = 0
        /\ crashes' = crashes + 1 /\ crashes < MaxCrashes
    BY <1>5 DEF Crash
  <2>2. TypeOK' BY <2>1, NoVBCType, ControllerAssumption DEF IInv, TypeOK
  <2>3. Copies' = {api} BY <2>1 DEF Copies
  <2>4. CopiesAgree' BY <1>t, <2>1, <2>3, NoVBCType DEF CopiesAgree, Agrees
  <2>5. WorkerHolds' /\ PhaseNotUndone BY <1>t, <2>1 DEF WorkerHolds, PhaseNotUndone
  <2> QED BY <2>2, <2>4, <2>5 DEF IInv
<1>6. CASE UNCHANGED vars
  <2>1. TypeOK' BY <1>6 DEF vars, IInv, TypeOK
  <2> QED BY <1>6, <1>q, <2>1 DEF vars
<1> QED BY <1>1, <1>2, <1>3, <1>4, <1>5, <1>6

\* Every step keeps the invariant and the phase.
LEMMA NextKeeps ==
    ASSUME IInv, [Next]_vars
    PROVE  IInv' /\ PhaseNotUndone
BY ProcessKeeps, UpdateKeeps, EnvironmentKeeps DEF Next, Worker

\* The invariant holds initially.
LEMMA InitKeeps ==
    ASSUME Init
    PROVE  IInv
<1>0. PICK known \in BOOLEAN : api = [NoVBC EXCEPT !.rv = 1, !.supported = known]
  BY DEF Init
<1>1. api \in VBC /\ api.rv = 1 BY <1>0 DEF NoVBC, VBC, Phases
<1>i. /\ watch = <<api>> /\ cache = NoVBC /\ w = NoVBC /\ queued = FALSE /\ requeues = 0
      /\ processed = 0 /\ faults = 0 /\ crashes = 0
  BY Zenon DEF Init
<1>a. watch \in Seq(VBC) /\ api \in VBC /\ cache \in VBC /\ w \in VBC BY <1>1, <1>i, NoVBCType
<1>b. queued \in BOOLEAN BY <1>i, Zenon
<1>2. TypeOK BY <1>a, <1>b, <1>i, ControllerAssumption DEF TypeOK
<1>3. Copies = {NoVBC, api} BY <1>i DEF Copies
<1>4. CopiesAgree BY <1>1, <1>i, <1>3, NoVBCType DEF CopiesAgree, Agrees
<1> QED BY <1>i, <1>2, <1>4 DEF IInv, WorkerHolds

\* Copies at the server's revision have the server's phase, for any number of failed
\* calls and crashes.
THEOREM CopiesInvariant == Spec => []IInv
<1>1. Init => IInv BY InitKeeps
<1>2. IInv /\ [Next]_vars => IInv' BY NextKeeps
<1> QED BY <1>1, <1>2, PTL DEF Spec

\* Naming the driver never undoes what the volume service wrote to the status, although
\* UpdateStatus replaces all of it.
THEOREM StatusSurvives == Spec => PhaseKept
<1>1. IInv /\ [Next]_vars => [PhaseNotUndone]_vars BY NextKeeps
<1> QED BY <1>1, CopiesInvariant, PTL DEF Spec, PhaseKept
=============================================================================
