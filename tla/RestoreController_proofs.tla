----------------------- MODULE RestoreController_proofs -----------------------
(***************************************************************************)
(* Proofs about RestoreController, for every value of its constants: the   *)
(* types are right, the Restore goes only after its last VRC, its stage    *)
(* never goes back, what the stages Resources and Finished promise is      *)
(* true, a failed restore stays failed while nothing disturbs it, and an   *)
(* unfinished one that goes takes along what it made if no call failed.    *)
(***************************************************************************)
EXTENDS RestoreController, TLAPS, FiniteSetTheorems

-----------------------------------------------------------------------------
(* Objects *)

\* The empty object is a Restore.
LEMMA NoRestoreType ==
    /\ NoRestore \in Restore /\ NoRestore.rv = 0 /\ ~NoRestore.fin /\ ~NoRestore.del
    /\ NoRestore.stage = "unset" /\ NoRestore.state = "unset"
BY DEF NoRestore, Restore, Stages, States

\* Stages and states, one by one
LEMMA Values ==
    /\ \A s \in {"unset", "Initial", "Volumes", "Resources", "PostHook", "Finished"} : s \in Stages
    /\ \A s \in {"unset", "New", "Processing", "Completed", "Failed"} : s \in States
BY DEF Stages, States

\* A status write stores the status of the object and keeps its metadata.
LEMMA StatusOfType ==
    ASSUME api \in Restore, NEW b \in Restore
    PROVE  /\ StatusOf(b) \in Restore
           /\ StatusOf(b).stage = b.stage /\ StatusOf(b).state = b.state
           /\ StatusOf(b).fin = api.fin /\ StatusOf(b).del = api.del
BY DEF StatusOf, Restore

\* What a write leaves in the server: the old object, or its next revision, of which the
\* informer will hear.
Kept == api' = api /\ watch' = watch
Stored == Kept \/ (api.rv # 0 /\ api'.rv = api.rv + 1 /\ watch' = Append(watch, api'))

\* The fields of the stored object
Is(b) == api'.stage = b.stage /\ api'.state = b.state /\ api'.fin = b.fin /\ api'.del = b.del

\* A commit stores the object at the same or at the next revision.
LEMMA CommitStores ==
    ASSUME api \in Restore, watch \in Seq(Restore), NEW b \in Restore, Commit(b), api.rv # 0
    PROVE  api' \in Restore /\ watch' \in Seq(Restore) /\ Stored /\ Is(b)
<1> DEFINE new == [b EXCEPT !.rv = api.rv + 1]
<1>1. CASE [b EXCEPT !.rv = api.rv] = api
  BY <1>1 DEF Commit, Restore, apiVars, Stored, Kept, Is
<1>2. CASE [b EXCEPT !.rv = api.rv] # api
  <2>0. api.rv + 1 \in Nat BY DEF Restore
  <2>1. /\ new \in Restore /\ new.stage = b.stage /\ new.state = b.state /\ new.fin = b.fin
        /\ new.del = b.del /\ new.rv = api.rv + 1
    BY <2>0 DEF Restore
  <2>2. api' = new /\ watch' = Append(watch, new)
    BY <1>2 DEF Commit
  <2> QED BY <2>1, <2>2 DEF Stored, Is
<1> QED BY <1>1, <1>2

\* So is an unchanged server.
LEMMA KeptStores ==
    ASSUME api \in Restore, watch \in Seq(Restore), UNCHANGED apiVars
    PROVE  api' \in Restore /\ watch' \in Seq(Restore) /\ Kept /\ Stored
BY DEF apiVars, Stored, Kept

-----------------------------------------------------------------------------
(* Types *)

\* The parts of the type invariant that a step of the worker may change
ServerType == api' \in Restore /\ watch' \in Seq(Restore) /\ processed' \in Nat
WorkerType ==
    pc' \in Pcs /\ w' \in Restore /\ queued' \in BOOLEAN /\ requeues' \in 0..MaxRetry
CountType == faults' \in Nat /\ touches' \in Nat /\ crashes' \in Nat /\ disturbed' <= MaxDisturbed
Nexts == Pcs \cup {"return", "error"}

\* The values a returning handler leaves behind
LEMMA ReturnValues == "idle" \in Pcs /\ NoRestore \in Restore /\ 0 \in 0..MaxRetry
<1>1. "idle" \in Pcs BY DEF Pcs
<1>2. 0 \in 0..MaxRetry BY RestoreAssumption
<1> QED BY <1>1, <1>2, NoRestoreType

\* A handler that returns keeps the types.
LEMMA ReturnType ==
    ASSUME TypeOK, Return
    PROVE  WorkerType /\ pc' = "idle" /\ w' = NoRestore
BY ReturnValues, Zenon DEF TypeOK, Return, WorkerType

\* So does one that returns an error: the key is retried at most MaxRetry times.
LEMMA ReturnErrType ==
    ASSUME TypeOK, ReturnErr
    PROVE  WorkerType /\ pc' = "idle" /\ w' = NoRestore
<1>1. pc' = "idle" /\ w' = NoRestore /\ pc' \in Pcs /\ w' \in Restore
  BY ReturnValues, Zenon DEF ReturnErr
<1>2. CASE requeues < MaxRetry
  <2>1. queued' = TRUE /\ requeues' = requeues + 1 BY <1>2 DEF ReturnErr
  <2>2. requeues' \in 0..MaxRetry BY <1>2, <2>1, RestoreAssumption DEF TypeOK
  <2> QED BY <1>1, <2>1, <2>2, Zenon DEF WorkerType
<1>3. CASE ~(requeues < MaxRetry)
  BY <1>1, <1>3, ReturnValues, Zenon DEF ReturnErr, TypeOK, WorkerType
<1> QED BY <1>2, <1>3

\* Where a call leads: to the next one with the copy given, or back to the queue.
Leads(next, b) ==
    \/ next \in Pcs /\ pc' = next /\ w' = b
    \/ next \in {"return", "error"} /\ pc' = "idle" /\ w' = NoRestore

\* Leaving a call for the next one keeps the types.
LEMMA ContinueType ==
    ASSUME TypeOK, NEW next \in Nexts, NEW b \in Restore, Continue(next, b)
    PROVE  WorkerType /\ Leads(next, b)
<1>1. CASE next = "return"
  BY <1>1, ReturnType DEF Continue, Leads
<1>2. CASE next = "error"
  BY <1>2, ReturnErrType DEF Continue, Leads
<1>3. CASE next \notin {"return", "error"}
  BY <1>3 DEF TypeOK, Continue, Goto, queueVars, WorkerType, Leads, Nexts
<1> QED BY <1>1, <1>2, <1>3

\* A failed call stays within the bound.
LEMMA FaultType ==
    ASSUME TypeOK, Fault
    PROVE  CountType
BY RestoreAssumption DEF TypeOK, Fault, disturbed, CountType

\* No call failed: the counters stay.
LEMMA CountKept ==
    ASSUME TypeOK, UNCHANGED countVars
    PROVE  CountType
BY DEF TypeOK, countVars, disturbed, CountType

\* The types, put together for a step of the worker
LEMMA TypeFrame ==
    ASSUME TypeOK, ServerType, WorkerType, CountType, UNCHANGED <<cache, rcVars>>,
           wanted' = wanted, backed' = backed, bound' = bound,
           vrc' \in [VRCs -> VRCPhases], vdel' \in SUBSET VRCs, vclean' \in SUBSET VRCs,
           attempt' \in 0..MaxAttempts,
           applied' \in {"none", "kept", "some", "all"}, hooked' \in BOOLEAN
    PROVE  TypeOK'
BY DEF TypeOK, ServerType, WorkerType, CountType, rcVars

-----------------------------------------------------------------------------
(* What the client calls of the worker do *)

\* The status of b was stored over the revision b was made from.
Wrote(b) ==
    /\ Stored /\ api.rv # 0 /\ b.rv = api.rv
    /\ api'.stage = b.stage /\ api'.state = b.state
    /\ api'.fin = api.fin /\ api'.del = api.del
Stopped == pc' = "idle" /\ w' = NoRestore

\* A status write is carried out, or refused, or its reply is lost; a caller that only
\* logs the error goes on with its own copy.
StatusOutcome(b, next) ==
    \/ Wrote(b) /\ processed' = (IF processed > api'.rv THEN processed ELSE api'.rv) /\ Leads(next, api')
    \/ (Kept \/ Wrote(b)) /\ processed' = processed /\ Stopped
IgnoredOutcome(b, next) ==
    \/ StatusOutcome(b, next)
    \/ (Kept \/ Wrote(b)) /\ processed' = processed /\ Leads(next, b)

\* What a step of the worker leaves alone
WorkerFrame == UNCHANGED <<cache, rcVars>>
WriteFrame == WorkerFrame /\ UNCHANGED <<volVars, envVars>>

\* updateRestoreStatus keeps the types and has one of these outcomes.
LEMMA UpdateStatusOutcome ==
    ASSUME TypeOK, NEW b \in Restore, b.rv # 0, NEW next \in Nexts, NEW onError,
           UpdateRestoreStatus(b, next, onError)
    PROVE  /\ TypeOK' /\ WriteFrame
           /\ IgnoredOutcome(b, next)
           /\ onError # "ignore" => StatusOutcome(b, next)
<1> USE DEF StatusOutcome, IgnoredOutcome
<1>0. api \in Restore /\ watch \in Seq(Restore) /\ processed \in Nat BY DEF TypeOK
<1>f. WriteFrame BY DEF UpdateRestoreStatus, WriteFrame, WorkerFrame
<1>w. ASSUME b.rv = api.rv, Commit(StatusOf(b))
      PROVE  api' \in Restore /\ watch' \in Seq(Restore) /\ Wrote(b)
  BY <1>w, <1>0, StatusOfType, CommitStores DEF Wrote, Is
<1>1. CASE /\ b.rv = api.rv /\ Commit(StatusOf(b)) /\ StoreRevisionUpdate(api'.rv)
           /\ Continue(next, api') /\ UNCHANGED countVars
  <2>1. ServerType BY <1>1, <1>w, <1>0 DEF ServerType, StoreRevisionUpdate, Restore
  <2>2. WorkerType /\ Leads(next, api') BY <1>1, <1>w, ContinueType
  <2>3. CountType BY <1>1, CountKept
  <2>4. TypeOK' BY <1>f, <2>1, <2>2, <2>3, TypeFrame DEF WriteFrame, WorkerFrame, volVars, envVars, TypeOK
  <2> QED BY <1>1, <1>w, <1>f, <2>2, <2>4 DEF StoreRevisionUpdate
<1>2. CASE /\ b.rv # api.rv
           /\ IF onError = "ignore" THEN Continue(next, b)
              ELSE IF api.rv = 0 THEN ReturnErr ELSE Return
           /\ UNCHANGED <<apiVars, processed, countVars>>
  <2>1. ServerType /\ Kept BY <1>2, <1>0, KeptStores DEF ServerType
  <2>2. /\ WorkerType
        /\ (onError = "ignore" /\ Leads(next, b)) \/ (onError # "ignore" /\ Stopped)
    BY <1>2, ContinueType, ReturnErrType, ReturnType DEF Stopped
  <2>3. CountType BY <1>2, CountKept
  <2>4. TypeOK' BY <1>f, <2>1, <2>2, <2>3, TypeFrame DEF WriteFrame, WorkerFrame, volVars, envVars, TypeOK
  <2> QED BY <1>2, <1>f, <2>1, <2>2, <2>4
<1>3. CASE /\ b.rv = api.rv
           /\ Fault /\ (UNCHANGED apiVars \/ Commit(StatusOf(b)))
           /\ IF onError = "ignore" THEN Continue(next, b) ELSE ReturnErr
           /\ UNCHANGED processed
  <2>1. ServerType /\ (Kept \/ Wrote(b)) BY <1>3, <1>0, <1>w, KeptStores DEF ServerType
  <2>2. /\ WorkerType
        /\ (onError = "ignore" /\ Leads(next, b)) \/ (onError # "ignore" /\ Stopped)
    BY <1>3, ContinueType, ReturnErrType DEF Stopped
  <2>3. CountType BY <1>3, FaultType
  <2>4. TypeOK' BY <1>f, <2>1, <2>2, <2>3, TypeFrame DEF WriteFrame, WorkerFrame, volVars, envVars, TypeOK
  <2> QED BY <1>3, <1>f, <2>1, <2>2, <2>4
<1> QED BY <1>1, <1>2, <1>3 DEF UpdateRestoreStatus

\* A patch changes only what it names, whatever the revision: here the fields of b.
Patched(b) == Stored /\ api.rv # 0 /\ Is(b)
PatchOutcome(b, next) ==
    \/ /\ Patched(b) /\ processed' = (IF processed > api'.rv THEN processed ELSE api'.rv)
       /\ Leads(next, api')
    \/ (Kept \/ Patched(b)) /\ processed' = processed /\ Stopped

\* patchRestore keeps the types and has one of these outcomes.
LEMMA PatchRestoreOutcome ==
    ASSUME TypeOK, NEW b \in Restore, NEW next \in Nexts, PatchRestore(b, next)
    PROVE  TypeOK' /\ WriteFrame /\ PatchOutcome(b, next)
<1>0. api \in Restore /\ watch \in Seq(Restore) /\ processed \in Nat BY DEF TypeOK
<1>f. WriteFrame BY DEF PatchRestore, WriteFrame, WorkerFrame
<1>w. ASSUME api.rv # 0, Commit(b)
      PROVE  api' \in Restore /\ watch' \in Seq(Restore) /\ Patched(b)
  BY <1>w, <1>0, CommitStores DEF Patched
<1>1. CASE /\ api.rv # 0 /\ Commit(b) /\ StoreRevisionUpdate(api'.rv)
           /\ Continue(next, api') /\ UNCHANGED countVars
  <2>1. ServerType BY <1>1, <1>w, <1>0 DEF ServerType, StoreRevisionUpdate, Restore
  <2>2. WorkerType /\ Leads(next, api') BY <1>1, <1>w, ContinueType
  <2>3. CountType BY <1>1, CountKept
  <2>4. TypeOK' BY <1>f, <2>1, <2>2, <2>3, TypeFrame DEF WriteFrame, WorkerFrame, volVars, envVars, TypeOK
  <2> QED BY <1>1, <1>w, <1>f, <2>2, <2>4 DEF StoreRevisionUpdate, PatchOutcome
<1>2. CASE /\ \/ api.rv = 0 /\ UNCHANGED <<apiVars, countVars>>
              \/ api.rv # 0 /\ Fault /\ (UNCHANGED apiVars \/ Commit(b))
           /\ ReturnErr /\ UNCHANGED processed
  <2>1. ServerType /\ (Kept \/ Patched(b)) BY <1>2, <1>0, <1>w, KeptStores DEF ServerType
  <2>2. WorkerType /\ Stopped BY <1>2, ReturnErrType DEF Stopped
  <2>3. CountType BY <1>2, FaultType, CountKept
  <2>4. TypeOK' BY <1>f, <2>1, <2>2, <2>3, TypeFrame DEF WriteFrame, WorkerFrame, volVars, envVars, TypeOK
  <2> QED BY <1>2, <1>f, <2>1, <2>2, <2>4 DEF PatchOutcome
<1> QED BY <1>1, <1>2 DEF PatchRestore

\* A step without a write of the object
LocalOutcome(next) == Kept /\ processed' = processed /\ Leads(next, w)

\* A step of the handler that writes nothing, and one whose call fails, keep the types.
LEMMA LocalStep ==
    ASSUME TypeOK, NEW next \in Nexts, Local(next) \/ CallFails(next)
    PROVE  TypeOK' /\ WriteFrame /\ LocalOutcome(next)
<1>0. api \in Restore /\ watch \in Seq(Restore) /\ processed \in Nat /\ w \in Restore BY DEF TypeOK
<1>1. WriteFrame /\ processed' = processed BY DEF Local, CallFails, WriteFrame, WorkerFrame
<1>2. ServerType /\ Kept BY <1>0, <1>1, KeptStores DEF Local, CallFails, ServerType
<1>3. WorkerType /\ Leads(next, w) BY <1>0, ContinueType DEF Local, CallFails
<1>4. CountType BY CountKept, FaultType DEF Local, CallFails
<1>5. TypeOK' BY <1>1, <1>2, <1>3, <1>4, TypeFrame DEF WriteFrame, WorkerFrame, volVars, envVars, TypeOK
<1> QED BY <1>1, <1>2, <1>3, <1>5 DEF LocalOutcome

-----------------------------------------------------------------------------
(* The Restore goes only after its last VRC *)

\* Nobody takes the finalizer or the deletion mark away.
MarksStay == api.rv # 0 => (api.fin => api'.fin) /\ (api.del => api'.del)

\* A copy, by place
LEMMA CopyCases ==
    /\ cache \in Copies
    /\ \A i \in DOMAIN watch : watch[i] \in Copies
    /\ \A c \in Copies : c = cache \/ \E i \in DOMAIN watch : c = watch[i]
BY DEF Copies

\* After a write the informer has what it had and will be told of the new revision.
LEMMA StoredCopies ==
    ASSUME TypeOK, TypeOK', Stored, cache' = cache
    PROVE  /\ \A c \in Copies' : c \in Copies \/ (c = api' /\ api.rv # 0)
           /\ Kept => Copies' = Copies
           /\ \A i \in DOMAIN watch' :
                 (i \in DOMAIN watch /\ watch'[i] = watch[i]) \/ (watch'[i] = api' /\ api.rv # 0)
           /\ api.rv = 0 => api' = api
           /\ api.rv # 0 => api'.rv # 0 /\ api'.rv >= api.rv
<1>0. watch \in Seq(Restore) /\ api.rv \in Nat /\ api' \in Restore BY DEF TypeOK, Restore
<1>1. CASE Kept
  <2>1. Copies' = Copies BY <1>1 DEF Kept, Copies
  <2> QED BY <1>0, <1>1, <2>1 DEF Kept
<1>2. CASE api.rv # 0 /\ api'.rv = api.rv + 1 /\ watch' = Append(watch, api')
  <2>1. \A i \in DOMAIN watch' :
           (i \in DOMAIN watch /\ watch'[i] = watch[i]) \/ watch'[i] = api'
    BY <1>0, <1>2
  <2>2. \A c \in Copies' : c \in Copies \/ c = api'
    BY <2>1 DEF Copies
  <2>3. ~Kept BY <1>0, <1>2 DEF Kept
  <2> QED BY <1>0, <1>2, <2>1, <2>2, <2>3
<1> QED BY <1>1, <1>2 DEF Stored

\* A write that keeps the marks keeps what the informer will learn of the deletion.
LEMMA StoredKeeps ==
    ASSUME DeletionInv, TypeOK', Stored, MarksStay, cache' = cache
    PROVE  RemovedIsEmpty' /\ MarksKept' /\ RemovalSeen' /\ DeletionOrdered'
<1>0. TypeOK /\ RemovedIsEmpty /\ MarksKept /\ RemovalSeen /\ DeletionOrdered BY DEF DeletionInv
<1>1. CASE Kept
  <2>1. Copies' = Copies BY <1>0, <1>1, StoredCopies
  <2> QED BY <1>0, <1>1, <2>1 DEF Kept, RemovedIsEmpty, MarksKept, RemovalSeen, DeletionOrdered, Gone
<1>2. CASE api.rv # 0 /\ api'.rv = api.rv + 1 /\ watch' = Append(watch, api')
  <2>0. watch \in Seq(Restore) /\ api'.rv # 0 BY <1>0, <1>2, StoredCopies DEF TypeOK
  <2>1. RemovedIsEmpty' BY <2>0 DEF RemovedIsEmpty
  <2>2. MarksKept'
    BY <1>0, <1>2, StoredCopies, Zenon DEF MarksKept, MarksStay
  <2>3. RemovalSeen'
    <3>1. \A i \in DOMAIN watch : watch[i].rv # 0 BY <1>0, <1>2 DEF RemovalSeen
    <3>2. \A i \in DOMAIN watch' : watch'[i].rv # 0 BY <1>0, <2>0, <3>1, StoredCopies
    <3> QED BY <2>0, <3>2 DEF RemovalSeen
  <2>4. DeletionOrdered'
    <3>1. \A i \in DOMAIN watch : Gone(watch[i]) => Gone(api')
      BY <1>0, <1>2, CopyCases DEF RemovalSeen, MarksKept, MarksStay, Gone
    <3>2. cache.del => Gone(api')
      BY <1>0, <1>2, CopyCases DEF MarksKept, MarksStay, Gone
    <3>3. /\ DOMAIN watch' = 1..(Len(watch) + 1) /\ DOMAIN watch = 1..Len(watch)
          /\ Len(watch) \in Nat
          /\ \A i \in DOMAIN watch : watch'[i] = watch[i]
          /\ watch'[Len(watch) + 1] = api'
      BY <1>2, <2>0
    <3>4. \A i \in DOMAIN watch' : i \in DOMAIN watch \/ i = Len(watch) + 1 BY <3>3
    <3>5. cache'.del => \A i \in DOMAIN watch' : Gone(watch'[i])
      BY <1>0, <3>2, <3>3, <3>4 DEF DeletionOrdered
    <3>6. ASSUME NEW i \in DOMAIN watch', NEW j \in DOMAIN watch', i <= j, Gone(watch'[i])
          PROVE  Gone(watch'[j])
      BY <1>0, <3>1, <3>3, <3>4, <3>6 DEF DeletionOrdered
    <3> QED BY <3>5, <3>6 DEF DeletionOrdered, Gone
  <2> QED BY <2>1, <2>2, <2>3, <2>4
<1> QED BY <1>1, <1>2 DEF Stored

\* The pcs of the two paths
LEMMA PathPcs ==
    /\ SyncPcs \subseteq Pcs /\ DeletePcs \subseteq Pcs
    /\ "idle" \notin SyncPcs /\ "finalizer" \notin SyncPcs
    /\ "idle" \notin DeletePcs /\ "finalizer" \notin DeletePcs /\ SyncPcs \cap DeletePcs = {}
    /\ "delFinalizer" \notin SyncPcs /\ "return" \notin Pcs /\ "error" \notin Pcs
BY DEF SyncPcs, DeletePcs, Pcs

\* A step of syncRestore leads on, or back to the queue.
SyncMove == pc' \in SyncPcs \cup {"idle"} /\ (pc' # "idle" => w'.rv # 0)

\* A step of syncRestore behind the finalizer keeps the deletion in order, whatever it
\* does to the VRCs.
LEMMA SyncKeeps ==
    ASSUME DeletionInv, TypeOK', pc \in SyncPcs, Stored, MarksStay, WorkerFrame, SyncMove
    PROVE  DeletionInv'
<1>0. cache' = cache /\ rpc' = rpc /\ rc' = rc BY DEF WorkerFrame, rcVars
<1>1. RemovedIsEmpty' /\ MarksKept' /\ RemovalSeen' /\ DeletionOrdered' BY <1>0, StoredKeeps
<1>2. HandlersHold' BY <1>0 DEF DeletionInv, HandlersHold, SyncMove
<1>3. api.rv # 0 /\ api.fin BY DEF DeletionInv, FinalizerHeld
<1>4. api'.rv # 0 /\ api'.fin BY <1>0, <1>3, StoredCopies DEF MarksStay, DeletionInv
<1>5. DeleterKnows' /\ NothingLeft' BY PathPcs DEF SyncMove, DeleterKnows, NothingLeft
<1>6. FinalizerHeld' BY <1>4 DEF FinalizerHeld
<1> QED BY <1>1, <1>2, <1>5, <1>6 DEF DeletionInv

\* So does a step of deleteRestore that removes nothing.
LEMMA DeleteKeeps ==
    ASSUME DeletionInv, TypeOK', pc \in DeletePcs, Stored, MarksStay, WorkerFrame, vrc' = vrc,
           pc' \in DeletePcs \cup {"idle"}, pc' # "idle" => w'.rv # 0,
           pc' = "delFinalizer" => LiveVRCs = {}
    PROVE  DeletionInv'
<1>0. cache' = cache /\ rpc' = rpc /\ rc' = rc BY DEF WorkerFrame, rcVars
<1>1. RemovedIsEmpty' /\ MarksKept' /\ RemovalSeen' /\ DeletionOrdered' BY <1>0, StoredKeeps
<1>2. HandlersHold' BY <1>0 DEF DeletionInv, HandlersHold
<1>3. LiveVRCs' = LiveVRCs BY DEF LiveVRCs, VRCs
<1>4. TypeOK /\ DeleterKnows /\ FinalizerHeld BY DEF DeletionInv
<1>5. DeleterKnows' BY <1>0, <1>4, StoredCopies, PathPcs DEF DeleterKnows
<1>6. FinalizerHeld'
  BY <1>0, <1>3, <1>4, StoredCopies, PathPcs, Zenon DEF FinalizerHeld, MarksStay
<1>7. NothingLeft' BY <1>3 DEF NothingLeft
<1> QED BY <1>1, <1>2, <1>5, <1>6, <1>7 DEF DeletionInv

SyncNexts == SyncPcs \cup {"return", "error"}

\* A status write of syncRestore keeps the deletion in order.
LEMMA StatusCall ==
    ASSUME DeletionInv, pc \in SyncPcs, NEW b \in Restore, b.rv = w.rv, NEW next \in SyncNexts,
           NEW onError, UpdateRestoreStatus(b, next, onError)
    PROVE  DeletionInv'
<1>0. TypeOK /\ b.rv # 0 /\ next \in Nexts
  BY PathPcs DEF DeletionInv, HandlersHold, SyncNexts, Nexts
<1>1. TypeOK' /\ WriteFrame /\ IgnoredOutcome(b, next) BY <1>0, UpdateStatusOutcome
<1>2. Stored /\ MarksStay
  BY <1>1 DEF IgnoredOutcome, StatusOutcome, Wrote, Stored, Kept, MarksStay
<1>3. SyncMove
  <2>1. Wrote(b) => api'.rv # 0 BY <1>0, <1>1, <1>2, StoredCopies DEF Wrote, WriteFrame, WorkerFrame
  <2> QED
    BY <1>0, <1>1, <2>1, PathPcs DEF IgnoredOutcome, StatusOutcome, Leads, Stopped, SyncMove, SyncNexts
<1> QED BY <1>1, <1>2, <1>3, SyncKeeps DEF WriteFrame

\* So does a step of syncRestore without a write.
LEMMA LocalCall ==
    ASSUME DeletionInv, pc \in SyncPcs, NEW next \in SyncNexts, Local(next) \/ CallFails(next)
    PROVE  DeletionInv'
<1>0. TypeOK /\ next \in Nexts /\ w.rv # 0
  BY PathPcs DEF DeletionInv, HandlersHold, SyncNexts, Nexts
<1>1. TypeOK' /\ WriteFrame /\ LocalOutcome(next) BY <1>0, LocalStep
<1>2. Stored /\ MarksStay BY <1>1 DEF LocalOutcome, Stored, Kept, MarksStay
<1>3. SyncMove BY <1>0, <1>1, PathPcs DEF LocalOutcome, Leads, SyncMove, SyncNexts
<1> QED BY <1>1, <1>2, <1>3, SyncKeeps DEF WriteFrame

\* A copy of w with another status is a Restore at the same revision.
LEMMA Copied ==
    ASSUME TypeOK, NEW stage \in Stages, NEW state \in States
    PROVE  /\ [w EXCEPT !.stage = stage] \in Restore /\ [w EXCEPT !.stage = stage].rv = w.rv
           /\ [w EXCEPT !.stage = stage, !.state = state] \in Restore
           /\ [w EXCEPT !.stage = stage, !.state = state].rv = w.rv
           /\ [w EXCEPT !.state = state, !.stage = stage] \in Restore
           /\ [w EXCEPT !.state = state, !.stage = stage].rv = w.rv
           /\ WithState(state) \in Restore /\ WithState(state).rv = w.rv
           /\ [w EXCEPT !.res = TRUE] \in Restore /\ [w EXCEPT !.res = TRUE].rv = w.rv
BY DEF TypeOK, Restore, WithState

\* The status writes of syncRestore
LEMMA WritersKeep ==
    ASSUME DeletionInv,
           \/ InitRestore \/ ValidationFailed \/ Validated \/ PopulateFailed
           \/ PatchRestoreObjects \/ VolumeRestoreFailed \/ VolumeRestoreCompleted
           \/ VolumeRestoreProcessing \/ ToResources \/ ApplyCompleted \/ ToPostHook
           \/ HooksCompleted \/ MetadataCompleted \/ MetadataFailed \/ ToFinished
    PROVE  DeletionInv'
<1>0. TypeOK BY DEF DeletionInv
<1>1. {"init", "invalid", "validated", "popFailed", "popFailed2", "record", "volFailed",
       "volCompleted", "processing", "toResources", "appliedAll", "toPostHook", "hooksDone",
       "resCompleted", "resFailed", "toFinished"} \subseteq SyncPcs
  BY DEF SyncPcs, DeletePcs, Pcs
<1>2. {"validate", "error", "populate", "popFailed2", "return", "dispatch", "toResources", "apply",
       "toPostHook", "hooks", "resCompleted", "toFinished", "finished"} \subseteq SyncNexts
  BY DEF SyncNexts, SyncPcs, DeletePcs, Pcs
<1>3. CASE InitRestore
  <2> DEFINE stage == IF w.stage = "unset" THEN "Initial" ELSE w.stage
             state == IF w.state = "unset" THEN "New" ELSE w.state
  <2>1. stage \in Stages /\ state \in States BY <1>0, Values DEF TypeOK, Restore
  <2>2. UpdateRestoreStatus([w EXCEPT !.stage = stage, !.state = state], "validate", "return")
    BY <1>3 DEF InitRestore
  <2> HIDE DEF stage, state
  <2> QED BY <1>0, <1>1, <1>2, <1>3, <2>1, <2>2, Copied, StatusCall DEF InitRestore
<1>4. CASE ValidationFailed \/ VolumeRestoreFailed \/ MetadataFailed \/ PopulateFailed
  BY <1>0, <1>1, <1>2, <1>4, Copied, StatusCall, Values
     DEF ValidationFailed, VolumeRestoreFailed, MetadataFailed, PopulateFailed
<1>5. CASE Validated \/ ToResources \/ ToPostHook \/ ToFinished
  BY <1>0, <1>1, <1>2, <1>5, Copied, StatusCall, Values
     DEF Validated, ToResources, ToPostHook, ToFinished
<1>6. CASE \/ VolumeRestoreCompleted \/ ApplyCompleted \/ HooksCompleted \/ MetadataCompleted
           \/ VolumeRestoreProcessing
  BY <1>0, <1>1, <1>2, <1>6, Copied, StatusCall, Values
     DEF VolumeRestoreCompleted, ApplyCompleted, HooksCompleted, MetadataCompleted,
         VolumeRestoreProcessing
<1>7. CASE PatchRestoreObjects
  BY <1>0, <1>1, <1>2, <1>7, Copied, StatusCall, Values DEF PatchRestoreObjects
<1> QED BY <1>3, <1>4, <1>5, <1>6, <1>7

\* A patch of syncRestore that keeps the marks keeps the deletion in order.
LEMMA PatchCall ==
    ASSUME DeletionInv, pc \in SyncPcs, NEW b \in Restore, b.fin = api.fin, b.del = api.del,
           NEW next \in SyncNexts, PatchRestore(b, next)
    PROVE  DeletionInv'
<1>0. TypeOK /\ next \in Nexts BY PathPcs DEF DeletionInv, SyncNexts, Nexts
<1>1. TypeOK' /\ WriteFrame /\ PatchOutcome(b, next) BY <1>0, PatchRestoreOutcome
<1>2. Stored /\ MarksStay
  BY <1>1 DEF PatchOutcome, Patched, Is, Stored, Kept, MarksStay
<1>3. Patched(b) => api'.rv # 0
  BY <1>0, <1>1, <1>2, StoredCopies DEF Patched, WriteFrame, WorkerFrame
<1>4. SyncMove
  BY <1>0, <1>1, <1>3, PathPcs DEF PatchOutcome, Leads, Stopped, SyncMove, SyncNexts
<1> QED BY <1>1, <1>2, <1>4, SyncKeeps DEF WriteFrame

\* A new annotation changes no mark.
LEMMA Annotated ==
    ASSUME TypeOK, NEW a \in Annotations
    PROVE  /\ [api EXCEPT !.ann = @ \cup {a}] \in Restore
           /\ [api EXCEPT !.ann = @ \cup {a}].fin = api.fin
           /\ [api EXCEPT !.ann = @ \cup {a}].del = api.del
           /\ [api EXCEPT !.ann = @ \cup {a}].stage = api.stage
           /\ [api EXCEPT !.ann = @ \cup {a}].state = api.state
BY DEF TypeOK, Restore

\* A step of the worker on VRCs or resources, without a write of the object
LEMMA OtherStep ==
    ASSUME TypeOK, NEW next \in Nexts, Continue(next, w), UNCHANGED <<apiVars, cache, processed, rcVars>>,
           CountType, wanted' = wanted, backed' = backed, bound' = bound,
           vrc' \in [VRCs -> VRCPhases], vdel' \in SUBSET VRCs, vclean' \in SUBSET VRCs,
           attempt' \in 0..MaxAttempts,
           applied' \in {"none", "kept", "some", "all"}, hooked' \in BOOLEAN
    PROVE  TypeOK' /\ WorkerFrame /\ LocalOutcome(next)
<1>0. api \in Restore /\ watch \in Seq(Restore) /\ processed \in Nat /\ w \in Restore BY DEF TypeOK
<1>1. WorkerFrame /\ processed' = processed BY DEF WorkerFrame
<1>2. ServerType /\ Kept BY <1>0, <1>1, KeptStores DEF ServerType
<1>3. WorkerType /\ Leads(next, w) BY <1>0, ContinueType
<1>5. TypeOK' BY <1>1, <1>2, <1>3, TypeFrame DEF WorkerFrame
<1> QED BY <1>1, <1>2, <1>3, <1>5 DEF LocalOutcome

\* Such a step of syncRestore keeps the deletion in order.
LEMMA OtherCall ==
    ASSUME DeletionInv, TypeOK', WorkerFrame, pc \in SyncPcs, NEW next \in SyncNexts, LocalOutcome(next)
    PROVE  DeletionInv'
<1>0. TypeOK /\ w.rv # 0 BY PathPcs DEF DeletionInv, HandlersHold
<1>2. Stored /\ MarksStay BY DEF LocalOutcome, Stored, Kept, MarksStay
<1>3. SyncMove BY <1>0, PathPcs DEF LocalOutcome, Leads, SyncMove, SyncNexts
<1> QED BY <1>2, <1>3, SyncKeeps

\* An error with the rest of a step as in OtherStep
LEMMA ErrIsContinue == ReturnErr => Continue("error", w)
BY DEF Continue

\* The creation of the VRCs keeps types and frame.
LEMMA CreateVRCStep ==
    ASSUME DeletionInv, CreateVRC
    PROVE  /\ TypeOK' /\ WorkerFrame
           /\ \E next \in {"processing", "createVRC", "error"} : LocalOutcome(next)
<1>0. TypeOK BY DEF DeletionInv
<1>1. {"processing", "createVRC", "error"} \subseteq Nexts BY DEF Nexts, Pcs
<1>2. CASE CallFails("error")
  BY <1>0, <1>1, <1>2, LocalStep DEF WriteFrame
<1>3. ASSUME NEW p \in backed,
             /\ vrc[<<attempt, p>>] = "absent"
             /\ vrc' = [vrc EXCEPT ![<<attempt, p>>] = "New"]
             /\ \/ /\ Continue(IF \A q \in backed : vrc'[<<attempt, q>>] # "absent"
                               THEN "processing" ELSE "createVRC", w)
                   /\ UNCHANGED countVars
                \/ Fault /\ ReturnErr
             /\ UNCHANGED <<apiVars, cache, processed, rcVars, wanted, backed, vdel, vclean,
                            attempt, bound, envVars>>
      PROVE  /\ TypeOK' /\ WorkerFrame
             /\ \E next \in {"processing", "createVRC", "error"} : LocalOutcome(next)
  <2>1. vrc' \in [VRCs -> VRCPhases] BY <1>0, <1>3 DEF TypeOK, VRCPhases
  <2>2. CountType BY <1>0, <1>3, CountKept, FaultType
  <2>3. PICK next \in {"processing", "createVRC", "error"} : Continue(next, w)
    BY <1>3, ErrIsContinue
  <2> QED BY <1>0, <1>1, <1>3, <2>1, <2>2, <2>3, OtherStep DEF TypeOK, envVars
<1> QED BY <1>2, <1>3 DEF CreateVRC

\* The other steps of syncRestore
LEMMA SyncersKeep ==
    ASSUME DeletionInv,
           \/ ValidateRestore \/ PopulateRestoreResources \/ SyncRestore \/ SyncVolumeRestore
           \/ CheckPVCRestored \/ CheckVolumeRestoreStatus \/ AnnotateVolumeRestore
           \/ PrepareVolumeRestore \/ CreateVRC \/ ApplyResources \/ RunPostHooks \/ Finish
    PROVE  DeletionInv'
<1>0. TypeOK BY DEF DeletionInv
<1>1. {"validate", "populate", "dispatch", "volumes", "checkPVC", "count", "annVolume", "prepare",
       "createVRC", "apply", "hooks", "finished"} \subseteq SyncPcs
  BY DEF SyncPcs, DeletePcs, Pcs
<1>2. {"validated", "invalid", "record", "popFailed", "volumes", "apply", "toFinished", "finished",
       "return", "error", "toResources", "checkPVC", "annVolume", "count", "prepare", "volCompleted",
       "volFailed", "processing", "createVRC", "appliedAll", "resFailed", "hooksDone"}
         \subseteq SyncNexts
  BY DEF SyncNexts, SyncPcs, DeletePcs, Pcs
<1>3. SyncNexts \subseteq Nexts BY PathPcs DEF SyncNexts, Nexts
<1>4. CASE ValidateRestore \/ PopulateRestoreResources \/ CheckPVCRestored
  BY <1>1, <1>2, <1>4, LocalCall DEF ValidateRestore, PopulateRestoreResources, CheckPVCRestored
<1>5. CASE SyncRestore
  <2>1. PICK next \in {"volumes", "apply", "toFinished", "finished", "return"} : Local(next)
    BY <1>5 DEF SyncRestore
  <2> QED BY <1>1, <1>2, <1>5, <2>1, LocalCall DEF SyncRestore
<1>6. CASE SyncVolumeRestore
  <2>1. PICK next \in {"toResources", "checkPVC", "annVolume", "count", "prepare"} : Local(next)
    BY <1>6 DEF SyncVolumeRestore
  <2> QED BY <1>1, <1>2, <1>6, <2>1, LocalCall DEF SyncVolumeRestore
<1>7. CASE CheckVolumeRestoreStatus
  <2>1. PICK next \in {"annVolume", "return", "error"} : Local(next) \/ CallFails(next)
    BY <1>7 DEF CheckVolumeRestoreStatus
  <2> QED BY <1>1, <1>2, <1>7, <2>1, LocalCall DEF CheckVolumeRestoreStatus
<1>8. CASE AnnotateVolumeRestore
  <2>1. "volume-restore-completed" \in Annotations BY DEF Annotations
  <2>2. CASE Continue("volCompleted", w) /\ UNCHANGED <<apiVars, cache, processed, rcVars, volVars, envVars, countVars>>
    <3>1. Local("volCompleted") BY <2>2 DEF Local
    <3> QED BY <1>1, <1>2, <1>8, <3>1, LocalCall DEF AnnotateVolumeRestore
  <2>3. CASE PatchRestore([api EXCEPT !.ann = @ \cup {"volume-restore-completed"}], "volCompleted")
    BY <1>0, <1>1, <1>2, <1>8, <2>1, <2>3, Annotated, PatchCall DEF AnnotateVolumeRestore
  <2> QED BY <1>8, <2>2, <2>3 DEF AnnotateVolumeRestore, AnnotateRestore
<1>9. CASE PrepareVolumeRestore
  <2>1. CASE CallFails("error") \/ Local("error")
    BY <1>1, <1>2, <1>9, <2>1, LocalCall DEF PrepareVolumeRestore
  <2>2. CASE /\ attempt < MaxAttempts
             /\ attempt' = attempt + 1
             /\ Continue(IF backed = {} THEN "processing" ELSE "createVRC", w)
             /\ UNCHANGED <<apiVars, cache, processed, rcVars, wanted, backed, vrc, vdel, vclean,
                            bound, envVars, countVars>>
    <3>1. attempt' \in 0..MaxAttempts BY <1>0, <2>2, RestoreAssumption DEF TypeOK
    <3>2. PICK next \in {"processing", "createVRC"} : Continue(next, w) BY <2>2
    <3>3. CountType BY <1>0, <2>2, CountKept
    <3>4. TypeOK' /\ WorkerFrame /\ LocalOutcome(next)
      BY <1>0, <1>2, <1>3, <2>2, <3>1, <3>2, <3>3, OtherStep DEF TypeOK, envVars
    <3> QED BY <1>1, <1>2, <1>9, <3>2, <3>4, OtherCall DEF PrepareVolumeRestore
  <2> QED BY <1>9, <2>1, <2>2 DEF PrepareVolumeRestore
<1>10. CASE CreateVRC
  <2>1. PICK next \in {"processing", "createVRC", "error"} : TypeOK' /\ WorkerFrame /\ LocalOutcome(next)
    BY <1>10, CreateVRCStep
  <2> QED BY <1>1, <1>2, <1>10, <2>1, OtherCall DEF CreateVRC
<1>11. CASE ApplyResources \/ RunPostHooks
  <2>1. PICK next \in {"appliedAll", "resFailed", "hooksDone"} : EnvStep(next)
    BY <1>11 DEF ApplyResources, RunPostHooks
  <2>2. applied' \in {"none", "kept", "some", "all"} /\ hooked' \in BOOLEAN
    BY <1>0, <1>11, Zenon DEF ApplyResources, RunPostHooks, TypeOK
  <2>3. CountType BY <1>0, <2>1, CountKept DEF EnvStep
  <2>4. TypeOK' /\ WorkerFrame /\ LocalOutcome(next)
    BY <1>0, <1>2, <1>3, <2>1, <2>2, <2>3, OtherStep DEF EnvStep, TypeOK, volVars
  <2> QED BY <1>1, <1>2, <1>11, <2>1, <2>4, OtherCall DEF ApplyResources, RunPostHooks
<1>12. CASE Finish
  BY <1>0, <1>1, <1>2, <1>12, Copied, StatusCall, LocalCall, Values DEF Finish
<1> QED BY <1>4, <1>5, <1>6, <1>7, <1>8, <1>9, <1>10, <1>11, <1>12

\* A call that does not return leads on.
LEMMA LeadsOn ==
    ASSUME NEW next, next \notin {"return", "error"}, NEW b, Leads(next, b)
    PROVE  pc' = next /\ w' = b
BY DEF Leads

\* What taking the key does: nothing, or the worker starts on the path its copy asks for.
QueueOutcome ==
    /\ Kept /\ UNCHANGED <<cache, rcVars, volVars, envVars, countVars>>
    /\ \/ pc' = pc /\ w' = w /\ processed' = processed
       \/ /\ cache.rv # 0 /\ processed <= cache.rv /\ processed' = cache.rv
          /\ \/ pc' = pc /\ w' = w
             \/ w' = cache /\ pc' = IF cache.del THEN "delVRC" ELSE "finalizer"

\* Taking the key keeps the types.
LEMMA ProcessQueueStep ==
    ASSUME TypeOK, ProcessQueue
    PROVE  TypeOK' /\ QueueOutcome
<1>0. cache.rv \in Nat /\ processed \in Nat /\ cache \in Restore BY DEF TypeOK, Restore
<1>1. "delVRC" \in Pcs /\ "finalizer" \in Pcs /\ 0 \in 0..MaxRetry
  BY ReturnValues DEF Pcs
<1>2. QueueOutcome
  BY <1>0 DEF ProcessQueue, QueueOutcome, Kept, apiVars, workerVars
<1>3. processed' \in Nat /\ pc' \in Pcs /\ w' \in Restore
  BY <1>0, <1>1, <1>2 DEF QueueOutcome, TypeOK
<1>4. queued' \in BOOLEAN /\ requeues' \in 0..MaxRetry
  BY <1>1, Zenon DEF ProcessQueue, TypeOK
<1>5. ServerType /\ WorkerType /\ CountType
  BY <1>2, <1>3, <1>4, CountKept DEF QueueOutcome, ServerType, WorkerType, Kept, TypeOK
<1> QED BY <1>2, <1>5, TypeFrame DEF QueueOutcome, volVars, envVars, TypeOK

\* Taking the key keeps the deletion in order.
LEMMA ProcessQueueKeeps ==
    ASSUME DeletionInv, ProcessQueue
    PROVE  DeletionInv'
<1>0. /\ TypeOK /\ RemovedIsEmpty /\ HandlersHold /\ MarksKept /\ RemovalSeen /\ DeletionOrdered
      /\ FinalizerHeld
  BY DEF DeletionInv
<1>1. TypeOK' /\ QueueOutcome BY <1>0, ProcessQueueStep
<1>2. Stored /\ MarksStay /\ cache' = cache /\ api' = api
  BY <1>1 DEF QueueOutcome, Kept, Stored, MarksStay
<1>3. RemovedIsEmpty' /\ MarksKept' /\ RemovalSeen' /\ DeletionOrdered' BY <1>1, <1>2, StoredKeeps
<1>4. LiveVRCs' = LiveVRCs BY <1>1 DEF QueueOutcome, volVars, LiveVRCs, VRCs
<1>5. pc = "idle" BY DEF ProcessQueue
<1>6. HandlersHold' BY <1>0, <1>1, <1>5 DEF QueueOutcome, rcVars, HandlersHold
<1>7. DeleterKnows' /\ NothingLeft'
  BY <1>1, <1>2, <1>5, PathPcs DEF QueueOutcome, DeleterKnows, NothingLeft
<1>8. FinalizerHeld'
  <2>1. cache \in Copies BY CopyCases
  <2>2. pc' = "finalizer" /\ w'.fin => api.rv # 0 /\ api.fin
    BY <1>0, <1>1, <1>5, <2>1 DEF QueueOutcome, RemovalSeen, MarksKept, Gone
  <2>3. pc' \notin SyncPcs BY <1>1, <1>5 DEF QueueOutcome, SyncPcs, DeletePcs
  <2> QED BY <1>0, <1>2, <1>4, <2>2, <2>3 DEF FinalizerHeld
<1> QED BY <1>1, <1>3, <1>6, <1>7, <1>8 DEF DeletionInv

\* The call that sets the finalizer: a copy that has it is right, or the patch sets it.
LEMMA EnsureFinalizerStep ==
    ASSUME TypeOK, EnsureFinalizer
    PROVE  /\ TypeOK' /\ WriteFrame
           /\ \E next \in {"init", "populate"} :
                 /\ next = "init" <=> w.stage \in {"unset", "Initial"}
                 /\ \/ w.fin /\ LocalOutcome(next)
                    \/ ~w.fin /\ PatchOutcome([api EXCEPT !.fin = TRUE], next)
           /\ [api EXCEPT !.fin = TRUE].fin /\ [api EXCEPT !.fin = TRUE].del = api.del
           /\ [api EXCEPT !.fin = TRUE].stage = api.stage
           /\ [api EXCEPT !.fin = TRUE].state = api.state
<1> DEFINE b == [api EXCEPT !.fin = TRUE]
           next == IF w.stage \in {"unset", "Initial"} THEN "init" ELSE "populate"
<1>1. b \in Restore /\ b.fin /\ b.del = api.del /\ b.stage = api.stage /\ b.state = api.state
  BY DEF TypeOK, Restore
<1>2. next \in Nexts /\ next \in {"init", "populate"} /\ (next = "init" <=> w.stage \in {"unset", "Initial"})
  BY DEF Nexts, Pcs
<1>3. IF w.fin THEN Local(next) ELSE PatchRestore(b, next) BY DEF EnsureFinalizer
<1> HIDE DEF b, next
<1>4. /\ TypeOK' /\ WriteFrame
      /\ (w.fin /\ LocalOutcome(next)) \/ (~w.fin /\ PatchOutcome(b, next))
  BY <1>1, <1>2, <1>3, LocalStep, PatchRestoreOutcome
<1> QED BY <1>1, <1>2, <1>4 DEF b

\* Setting the finalizer keeps the deletion in order.
LEMMA EnsureFinalizerKeeps ==
    ASSUME DeletionInv, EnsureFinalizer
    PROVE  DeletionInv'
<1> DEFINE b == [api EXCEPT !.fin = TRUE]
<1>0. TypeOK /\ HandlersHold /\ FinalizerHeld /\ pc = "finalizer" /\ w.rv # 0
  BY DEF DeletionInv, EnsureFinalizer, HandlersHold
<1>1. PICK next \in {"init", "populate"} :
         (w.fin /\ LocalOutcome(next)) \/ (~w.fin /\ PatchOutcome(b, next))
  BY <1>0, EnsureFinalizerStep
<1>2. TypeOK' /\ WriteFrame /\ b.fin /\ b.del = api.del BY <1>0, EnsureFinalizerStep
<1> HIDE DEF b
<1>3. Stored /\ MarksStay
  BY <1>1, <1>2 DEF LocalOutcome, PatchOutcome, Patched, Is, Stored, Kept, MarksStay
<1>4. cache' = cache /\ rpc' = rpc /\ rc' = rc BY <1>2 DEF WriteFrame, WorkerFrame, rcVars
<1>5. RemovedIsEmpty' /\ MarksKept' /\ RemovalSeen' /\ DeletionOrdered' BY <1>2, <1>3, <1>4, StoredKeeps
<1>6. LiveVRCs' = LiveVRCs BY <1>2 DEF WriteFrame, volVars, LiveVRCs, VRCs
<1>7. next \in SyncPcs /\ next \notin {"return", "error", "finalizer", "idle"}
  BY DEF SyncPcs, DeletePcs, Pcs
<1>8. pc' \in SyncPcs \cup {"idle"} /\ (pc' # "idle" => pc' = next /\ (w' = w \/ (w' = api' /\ Patched(b))))
  <2>1. CASE LocalOutcome(next) BY <1>7, <2>1, LeadsOn DEF LocalOutcome
  <2>2. CASE PatchOutcome(b, next)
    <3>1. CASE Patched(b) /\ Leads(next, api') BY <1>7, <3>1, LeadsOn
    <3>2. CASE Stopped BY <3>2 DEF Stopped
    <3> QED BY <2>2, <3>1, <3>2, Zenon DEF PatchOutcome
  <2> QED BY <1>1, <2>1, <2>2
<1>9. pc' # "idle" => api'.rv # 0 /\ api'.fin
  <2>1. CASE w.fin
    BY <1>0, <1>1, <2>1 DEF FinalizerHeld, LocalOutcome, Kept
  <2>2. CASE ~w.fin
    <3>1. pc' # "idle" => Patched(b) BY <1>1, <1>7, <2>2 DEF PatchOutcome, Stopped
    <3> QED BY <1>0, <1>2, <1>3, <1>4, <3>1, StoredCopies DEF Patched, Is
  <2> QED BY <2>1, <2>2
<1>10. HandlersHold'
  BY <1>0, <1>4, <1>8, <1>9 DEF HandlersHold
<1>11. DeleterKnows' /\ NothingLeft' BY <1>8, PathPcs DEF DeleterKnows, NothingLeft
<1>12. FinalizerHeld'
  <2>1. pc' = "idle" => pc' \notin SyncPcs /\ pc' # "finalizer" BY PathPcs
  <2>2. LiveVRCs # {} => api'.rv # 0 /\ api'.fin
    BY <1>0, <1>2, <1>3, <1>4, StoredCopies DEF FinalizerHeld, MarksStay
  <2> QED BY <1>6, <1>9, <2>1, <2>2 DEF FinalizerHeld
<1> QED BY <1>2, <1>5, <1>10, <1>11, <1>12 DEF DeletionInv

\* The deletion of the VRCs and the cleanup of the resources keep the types.
LEMMA RemoveVolumeRestoreStep ==
    ASSUME TypeOK, RemoveVolumeRestore
    PROVE  /\ TypeOK' /\ WorkerFrame /\ UNCHANGED <<vrc, attempt, bound, applied, hooked>>
           /\ LocalOutcome("cleanup") \/ LocalOutcome("error")
<1>0. "cleanup" \in Nexts /\ "error" \in Nexts /\ "cleanup" \notin {"return", "error"}
  BY DEF Nexts, Pcs
<1>1. vdel' \in SUBSET VRCs /\ vclean' \in SUBSET VRCs
  BY DEF RemoveVolumeRestore, TypeOK, LiveVRCs
<1>2. CountType BY CountKept, FaultType DEF RemoveVolumeRestore
<1>3. Continue("cleanup", w) \/ Continue("error", w)
  BY <1>0, ErrIsContinue DEF RemoveVolumeRestore, Continue
<1>4. UNCHANGED <<apiVars, cache, processed, rcVars, wanted, backed, vrc, attempt, bound, envVars>>
  BY DEF RemoveVolumeRestore
<1> QED BY <1>0, <1>1, <1>2, <1>3, <1>4, OtherStep DEF TypeOK, envVars

\* The cleanup of the resources keeps the types.
LEMMA CleanupStep ==
    ASSUME TypeOK, CleanupRestoredMetadata
    PROVE  /\ TypeOK' /\ WorkerFrame /\ UNCHANGED <<volVars, hooked>>
           /\ LocalOutcome("delList") \/ LocalOutcome("annCleaned")
<1>0. "delList" \in Nexts /\ "annCleaned" \in Nexts /\ "delList" \notin {"return", "error"}
  BY DEF Nexts, Pcs
<1>1. applied' \in {"none", "kept", "some", "all"}
  BY DEF CleanupRestoredMetadata, Leftovers, TypeOK, Local, envVars
<1>2. CountType BY CountKept, FaultType DEF CleanupRestoredMetadata, Local, EnvStep
<1>3. Continue("delList", w) \/ Continue("annCleaned", w)
  BY <1>0 DEF CleanupRestoredMetadata, Local, EnvStep, Continue
<1>4. UNCHANGED <<apiVars, cache, processed, rcVars, volVars, hooked>>
  BY DEF CleanupRestoredMetadata, Local, EnvStep, envVars
<1> QED BY <1>0, <1>1, <1>2, <1>3, <1>4, OtherStep DEF TypeOK, volVars

\* The steps of deleteRestore before the last keep the deletion in order.
LEMMA DeletersKeep ==
    ASSUME DeletionInv,
           RemoveVolumeRestore \/ CleanupRestoredMetadata \/ AnnotateCleaned \/ ListVolumeRestore
    PROVE  DeletionInv'
<1>0. TypeOK /\ HandlersHold BY DEF DeletionInv
<1>1. /\ {"delVRC", "cleanup", "annCleaned", "delList", "delFinalizer"} \subseteq Nexts
      /\ "return" \in Nexts /\ "error" \in Nexts
  BY DEF Nexts, Pcs
<1>2. pc \in DeletePcs /\ w.rv # 0
  BY <1>0 DEF RemoveVolumeRestore, CleanupRestoredMetadata, AnnotateCleaned, ListVolumeRestore,
              DeletePcs, HandlersHold
<1>3. ASSUME NEW next \in DeletePcs \cup {"return", "error"}, LocalOutcome(next), TypeOK', WorkerFrame,
             vrc' = vrc, next = "delFinalizer" => LiveVRCs = {}
      PROVE  DeletionInv'
  <2>1. Stored /\ MarksStay BY <1>3 DEF LocalOutcome, Stored, Kept, MarksStay
  <2>2. \/ pc' = next /\ w' = w /\ next \in DeletePcs
        \/ pc' = "idle"
    BY <1>3, PathPcs DEF LocalOutcome, Leads
  <2>3. pc' \in DeletePcs \cup {"idle"} /\ (pc' # "idle" => w'.rv # 0)
    BY <1>2, <2>2
  <2>4. pc' = "delFinalizer" => LiveVRCs = {} BY <1>3, <2>2
  <2> QED BY <1>2, <1>3, <2>1, <2>3, <2>4, DeleteKeeps
<1>4. CASE RemoveVolumeRestore
  BY <1>0, <1>3, <1>4, RemoveVolumeRestoreStep DEF DeletePcs
<1>5. CASE CleanupRestoredMetadata
  BY <1>0, <1>3, <1>5, CleanupStep DEF DeletePcs, volVars
<1>6. CASE ListVolumeRestore
  <2>1. PICK next \in {"delFinalizer", "return", "error"} :
           /\ Local(next) \/ CallFails(next)
           /\ next = "delFinalizer" => LiveVRCs = {}
    BY <1>6 DEF ListVolumeRestore
  <2> QED BY <1>0, <1>1, <1>3, <2>1, LocalStep DEF DeletePcs, WriteFrame, volVars
<1>7. CASE AnnotateCleaned
  <2> DEFINE b == [api EXCEPT !.ann = @ \cup {"restore-cleanup-done"}]
  <2>1. b \in Restore /\ b.fin = api.fin /\ b.del = api.del BY <1>0, Annotated DEF Annotations
  <2>2. PatchRestore(b, "delList") BY <1>7 DEF AnnotateCleaned
  <2> HIDE DEF b
  <2>3. TypeOK' /\ WriteFrame /\ PatchOutcome(b, "delList") BY <1>0, <1>1, <2>1, <2>2, PatchRestoreOutcome
  <2>4. Stored /\ MarksStay
    BY <2>1, <2>3 DEF PatchOutcome, Patched, Is, Stored, Kept, MarksStay
  <2>5. Patched(b) => api'.rv # 0
    BY <1>0, <2>3, <2>4, StoredCopies DEF Patched, WriteFrame, WorkerFrame
  <2>6. (pc' = "delList" /\ w'.rv # 0) \/ pc' = "idle"
    BY <2>3, <2>5, LeadsOn DEF PatchOutcome, Stopped
  <2>7. vrc' = vrc /\ WorkerFrame BY <2>3 DEF WriteFrame, volVars
  <2> QED BY <1>2, <2>3, <2>4, <2>6, <2>7, DeleteKeeps DEF DeletePcs
<1> QED BY <1>4, <1>5, <1>6, <1>7

\* The removal of the object: nothing follows it, and what the informer still has is
\* gone, marked or without finalizer.
LEMMA RemoveKeeps ==
    ASSUME DeletionInv, TypeOK', api.rv # 0, Remove, cache' = cache,
           \A c \in Copies : Gone(c) \/ ~c.fin
    PROVE  RemovedIsEmpty' /\ MarksKept' /\ RemovalSeen' /\ DeletionOrdered'
<1>0. /\ TypeOK /\ DeletionOrdered /\ watch \in Seq(Restore)
  BY DEF DeletionInv, TypeOK
<1>1. api' = NoRestore /\ api'.rv = 0 /\ watch' = Append(watch, NoRestore) /\ Gone(NoRestore)
  BY NoRestoreType DEF Remove, Gone
<1>2. /\ DOMAIN watch' = 1..(Len(watch) + 1) /\ DOMAIN watch = 1..Len(watch)
      /\ Len(watch) \in Nat
      /\ \A i \in DOMAIN watch : watch'[i] = watch[i]
      /\ watch'[Len(watch) + 1] = NoRestore
      /\ \A i \in DOMAIN watch' : i \in DOMAIN watch \/ i = Len(watch) + 1
  BY <1>0, <1>1, NoRestoreType
<1>3. RemovedIsEmpty' /\ MarksKept' BY <1>1 DEF RemovedIsEmpty, MarksKept
<1>4. \A c \in Copies' : c \in Copies \/ c = NoRestore BY <1>2 DEF Copies
<1>5. RemovalSeen' BY <1>1, <1>4 DEF RemovalSeen, Gone
<1>6. cache'.del => \A i \in DOMAIN watch' : Gone(watch'[i])
  BY <1>0, <1>1, <1>2 DEF DeletionOrdered
<1>7. ASSUME NEW i \in DOMAIN watch', NEW j \in DOMAIN watch', i <= j, Gone(watch'[i])
      PROVE  Gone(watch'[j])
  BY <1>0, <1>1, <1>2, <1>7 DEF DeletionOrdered
<1>8. DeletionOrdered' BY <1>6, <1>7 DEF DeletionOrdered, Gone
<1> QED BY <1>3, <1>5, <1>8

\* The removal of the finalizer, the last step of a deletion
LEMMA RemoveFinalizerStep ==
    ASSUME TypeOK, RemoveFinalizer
    PROVE  /\ TypeOK' /\ WriteFrame /\ Stopped /\ processed' = 0
           /\ Kept \/ (api.rv # 0 /\ Remove)
<1>1. WriteFrame /\ processed' = 0 BY DEF RemoveFinalizer, WriteFrame, WorkerFrame
<1>2. api' \in Restore /\ watch' \in Seq(Restore) /\ (Kept \/ (api.rv # 0 /\ Remove))
  <2>1. Kept \/ (api.rv # 0 /\ Remove) BY DEF RemoveFinalizer, Kept, apiVars
  <2>2. NoRestore \in Restore BY NoRestoreType
  <2>3. Kept => api' \in Restore /\ watch' \in Seq(Restore) BY DEF Kept, apiVars, TypeOK
  <2>4. Remove => api' \in Restore /\ watch' \in Seq(Restore) BY <2>2 DEF Remove, TypeOK
  <2> QED BY <2>1, <2>3, <2>4
<1>3. ServerType BY <1>1, <1>2 DEF ServerType
<1>4. WorkerType /\ Stopped BY ReturnType DEF RemoveFinalizer, Stopped
<1>5. CountType BY CountKept, FaultType DEF RemoveFinalizer
<1>6. TypeOK' BY <1>1, <1>3, <1>4, <1>5, TypeFrame DEF WriteFrame, WorkerFrame, volVars, envVars, TypeOK
<1> QED BY <1>1, <1>2, <1>4, <1>6

\* It keeps the deletion in order.
LEMMA RemoveFinalizerKeeps ==
    ASSUME DeletionInv, RemoveFinalizer
    PROVE  DeletionInv'
<1>0. /\ TypeOK /\ HandlersHold /\ DeletionOrdered /\ DeleterKnows /\ FinalizerHeld /\ NothingLeft
      /\ RemovalSeen /\ pc = "delFinalizer"
  BY DEF DeletionInv, RemoveFinalizer
<1>1. TypeOK' /\ WriteFrame /\ Stopped /\ (Kept \/ (api.rv # 0 /\ Remove))
  BY <1>0, RemoveFinalizerStep
<1>2. cache' = cache /\ rpc' = rpc /\ rc' = rc /\ vrc' = vrc /\ pc' = "idle"
  BY <1>1 DEF WriteFrame, WorkerFrame, rcVars, volVars, Stopped
<1>3. LiveVRCs = {} /\ LiveVRCs' = {} BY <1>0, <1>2 DEF NothingLeft, LiveVRCs, VRCs
<1>4. RemovedIsEmpty' /\ MarksKept' /\ RemovalSeen' /\ DeletionOrdered'
  <2>1. CASE Kept
    BY <1>1, <1>2, <2>1, StoredKeeps DEF Stored, MarksStay, Kept
  <2>2. CASE api.rv # 0 /\ Remove
    <3>1. cache.del BY <1>0, <2>2 DEF DeleterKnows, DeletePcs
    <3>2. \A c \in Copies : Gone(c)
      BY <1>0, <3>1, CopyCases DEF DeletionOrdered, Gone
    <3> QED BY <1>1, <1>2, <2>2, <3>2, RemoveKeeps
  <2> QED BY <1>1, <2>1, <2>2
<1>5. HandlersHold' BY <1>0, <1>2 DEF HandlersHold
<1>6. DeleterKnows' /\ FinalizerHeld' /\ NothingLeft'
  BY <1>2, <1>3, PathPcs DEF DeleterKnows, FinalizerHeld, NothingLeft
<1> QED BY <1>1, <1>4, <1>5, <1>6 DEF DeletionInv

\* Every step of the worker keeps the deletion in order.
LEMMA WorkerKeeps ==
    ASSUME DeletionInv, Worker
    PROVE  DeletionInv'
BY ProcessQueueKeeps, EnsureFinalizerKeeps, WritersKeep, SyncersKeep, DeletersKeep,
   RemoveFinalizerKeeps, Zenon DEF Worker

\* A step of somebody else that makes no VRC keeps the deletion in order.
LEMMA OthersKeep ==
    ASSUME DeletionInv, TypeOK', Stored, MarksStay, UNCHANGED <<cache, workerVars>>,
           LiveVRCs' \subseteq LiveVRCs,
           rpc' \in {"checkDeleted", "list", "fail"} => rc'.rv # 0
    PROVE  DeletionInv'
<1>0. cache' = cache /\ pc' = pc /\ w' = w BY DEF workerVars
<1>1. RemovedIsEmpty' /\ MarksKept' /\ RemovalSeen' /\ DeletionOrdered' BY <1>0, StoredKeeps
<1>2. TypeOK /\ HandlersHold /\ DeleterKnows /\ FinalizerHeld /\ NothingLeft BY DEF DeletionInv
<1>3. api.rv # 0 => api'.rv # 0 BY <1>0, <1>2, StoredCopies
<1>4. api.rv = 0 => api' = api BY <1>0, <1>2, StoredCopies
<1>5. HandlersHold' /\ NothingLeft' BY <1>0, <1>2 DEF HandlersHold, NothingLeft
<1>6. DeleterKnows' BY <1>0, <1>2, <1>4 DEF DeleterKnows
<1>7. FinalizerHeld' BY <1>0, <1>2, <1>3 DEF FinalizerHeld, MarksStay
<1> QED BY <1>1, <1>5, <1>6, <1>7 DEF DeletionInv

\* What the reconciler does: at most it marks the object it read as failed, or annotates
\* the object whatever its revision.
ReconcilerOutcome ==
    /\ UNCHANGED <<cache, queueVars, processed, workerVars, volVars, envVars>>
    /\ \/ Kept
       \/ /\ Stored /\ rc.rv = api.rv /\ api'.stage = rc.stage /\ api'.state = "Failed"
          /\ api'.fin = api.fin /\ api'.del = api.del
       \/ Stored /\ Is(api)
    /\ rc' = NoRestore \/ rc' = rc \/ rc' = cache
    /\ rpc' \in {"checkDeleted", "list", "fail"} =>
          (rc' = cache /\ cache.rv # 0) \/ (rc' = rc /\ rpc \in {"checkDeleted", "list", "fail"})

\* The annotation keeps the types.
LEMMA RcAnnotateStep ==
    ASSUME TypeOK, NEW at, NEW a \in Annotations, RcAnnotate(at, a)
    PROVE  TypeOK' /\ ReconcilerOutcome
<1>1. CASE /\ cache.rv # 0 /\ a \notin cache.ann /\ api.rv # 0
           /\ Commit([api EXCEPT !.ann = @ \cup {a}])
           /\ UNCHANGED countVars
  <2> DEFINE b == [api EXCEPT !.ann = @ \cup {a}]
  <2>1. b \in Restore /\ b.stage = api.stage /\ b.state = api.state /\ b.fin = api.fin /\ b.del = api.del
    BY Annotated
  <2>2. Commit(b) /\ api.rv # 0 BY <1>1
  <2> HIDE DEF b
  <2>3. api' \in Restore /\ watch' \in Seq(Restore) /\ Stored /\ Is(b)
    BY <2>1, <2>2, CommitStores DEF TypeOK
  <2>4. Is(api) BY <2>1, <2>3 DEF Is
  <2>5. CountType BY <1>1, CountKept
  <2>6. ReconcilerOutcome
    BY <2>3, <2>4 DEF RcAnnotate, RcGoto, ReconcilerOutcome
  <2> QED
    BY <2>3, <2>5, <2>6, NoRestoreType
       DEF RcAnnotate, RcGoto, TypeOK, CountType, queueVars, workerVars, volVars, envVars, RPcs
<1>2. CASE UNCHANGED apiVars /\ CountType
  <2>1. Kept BY <1>2 DEF Kept, apiVars
  <2> QED
    BY <1>2, <2>1, NoRestoreType
       DEF RcAnnotate, RcGoto, ReconcilerOutcome, TypeOK, CountType, Kept, queueVars, workerVars,
           volVars, envVars, RPcs
<1> QED BY <1>1, <1>2, CountKept, FaultType DEF RcAnnotate

\* Every step of the reconciler keeps the types and has such an outcome.
LEMMA ReconcilerStep ==
    ASSUME TypeOK, HandlersHold, Reconciler
    PROVE  TypeOK' /\ ReconcilerOutcome
<1> USE DEF ReconcilerOutcome
<1>0. rc \in Restore /\ cache \in Restore /\ api \in Restore /\ watch \in Seq(Restore) BY DEF TypeOK
<1>1. ASSUME NEW next \in RPcs, NEW b \in {NoRestore, rc, cache}, RcGoto(next, b), CountType,
             api' \in Restore, watch' \in Seq(Restore)
      PROVE  TypeOK'
  BY <1>0, <1>1, NoRestoreType
     DEF RcGoto, TypeOK, CountType, queueVars, workerVars, volVars, envVars
<1>2. {"idle", "checkDeleted", "list", "fail", "annCompleted", "annDeleted"} \subseteq RPcs BY DEF RPcs
<1>3. CASE RcStart
  <2>1. PICK next \in {"checkDeleted", "list"} : RcGoto(next, cache) BY <1>3 DEF RcStart
  <2>2. Kept /\ CountType BY <1>3, CountKept DEF RcStart, Kept, apiVars
  <2>3. TypeOK' BY <1>0, <1>1, <1>2, <2>1, <2>2 DEF Kept
  <2> QED BY <1>3, <2>1, <2>2, <2>3 DEF RcStart, RcGoto
<1>4. CASE RcCheckDeleted
  <2>1. PICK next \in {"annDeleted", "list"}, b \in {NoRestore, rc} :
           RcGoto(next, b) /\ (next = "list" => b = rc)
    BY <1>4 DEF RcCheckDeleted
  <2>2. Kept /\ CountType BY <1>4, CountKept, FaultType DEF RcCheckDeleted, Kept, apiVars
  <2>3. TypeOK' BY <1>0, <1>1, <1>2, <2>1, <2>2 DEF Kept
  <2> QED BY <1>4, <2>1, <2>2, <2>3 DEF RcCheckDeleted, RcGoto
<1>5. CASE RcList
  <2>1. PICK next \in {"idle", "fail", "annCompleted"}, b \in {NoRestore, rc} :
           RcGoto(next, b) /\ (next = "fail" => b = rc)
    BY <1>5 DEF RcList, RcVerdicts
  <2>2. Kept /\ CountType BY <1>5, CountKept, FaultType DEF RcList, Kept, apiVars
  <2>3. TypeOK' BY <1>0, <1>1, <1>2, <2>1, <2>2 DEF Kept
  <2> QED BY <1>5, <2>1, <2>2, <2>3 DEF RcList, RcGoto
<1>6. CASE RcUpdateFailure
  <2>1. RcGoto("idle", NoRestore) BY <1>6 DEF RcUpdateFailure
  <2>2. CASE rc.rv = api.rv /\ Commit([StatusOf(rc) EXCEPT !.state = "Failed"]) /\ UNCHANGED countVars
    <3> DEFINE b == [StatusOf(rc) EXCEPT !.state = "Failed"]
    <3>1. /\ b \in Restore /\ b.stage = rc.stage /\ b.state = "Failed" /\ b.fin = api.fin
          /\ b.del = api.del
      BY <1>0, Values DEF StatusOf, Restore
    <3>2. Commit(b) /\ api.rv # 0 BY <1>6, <2>2 DEF HandlersHold, RcUpdateFailure
    <3> HIDE DEF b
    <3>3. api' \in Restore /\ watch' \in Seq(Restore) /\ Stored /\ Is(b)
      BY <1>0, <3>1, <3>2, CommitStores
    <3>4. CountType BY <2>2, CountKept
    <3>5. TypeOK' BY <1>1, <1>2, <2>1, <3>3, <3>4
    <3> QED BY <2>1, <2>2, <3>1, <3>3, <3>5 DEF RcGoto, Is
  <2>3. CASE UNCHANGED apiVars /\ CountType
    <3>1. Kept BY <2>3 DEF Kept, apiVars
    <3>2. TypeOK' BY <1>0, <1>1, <1>2, <2>1, <2>3, <3>1 DEF Kept
    <3> QED BY <2>1, <3>1, <3>2 DEF RcGoto
  <2> QED BY <1>6, <2>2, <2>3, CountKept, FaultType DEF RcUpdateFailure
<1>7. CASE \/ RcAnnotate("annCompleted", "volume-restore-completed")
           \/ RcAnnotate("annDeleted", "volume-restore-delete-completed")
  BY <1>7, RcAnnotateStep DEF Annotations
<1> QED BY <1>3, <1>4, <1>5, <1>6, <1>7 DEF Reconciler

\* Every step of the reconciler keeps the deletion in order.
LEMMA ReconcilerKeeps ==
    ASSUME DeletionInv, Reconciler
    PROVE  DeletionInv'
<1>0. TypeOK /\ HandlersHold BY DEF DeletionInv
<1>1. TypeOK' /\ ReconcilerOutcome BY <1>0, ReconcilerStep
<1>2. Stored /\ MarksStay
  BY <1>1 DEF ReconcilerOutcome, Stored, Kept, MarksStay, Is
<1>3. LiveVRCs' = LiveVRCs BY <1>1 DEF ReconcilerOutcome, volVars, LiveVRCs, VRCs
<1>4. rpc' \in {"checkDeleted", "list", "fail"} => rc'.rv # 0
  BY <1>0, <1>1 DEF ReconcilerOutcome, HandlersHold
<1> QED BY <1>1, <1>2, <1>3, <1>4, OthersKeep DEF ReconcilerOutcome

\* What is delivered was on its way, and the rest keeps its order.
LEMMA Delivered ==
    ASSUME TypeOK, Informer
    PROVE  /\ Len(watch) \in Nat /\ Len(watch) # 0 /\ 1 \in DOMAIN watch
           /\ cache' = watch[1] /\ watch' \in Seq(Restore)
           /\ \A i \in DOMAIN watch' : i + 1 \in DOMAIN watch /\ watch'[i] = watch[i + 1]
           /\ Copies' \subseteq Copies
           /\ DOMAIN watch' \subseteq Nat
<1>1. watch \in Seq(Restore) /\ watch # <<>> BY DEF TypeOK, Informer
<1>2. cache' = Head(watch) /\ watch' = Tail(watch) BY DEF Informer
<1>3. Len(watch) \in Nat /\ Len(watch) # 0 /\ 1 \in DOMAIN watch /\ cache' = watch[1] BY <1>1, <1>2
<1>4. watch' \in Seq(Restore) /\ Len(watch') = Len(watch) - 1 BY <1>1, <1>2
<1>5. \A i \in DOMAIN watch' : i + 1 \in DOMAIN watch /\ watch'[i] = watch[i + 1] BY <1>1, <1>2
<1>6. Copies' \subseteq Copies BY <1>3, <1>5 DEF Copies
<1> QED BY <1>3, <1>4, <1>5, <1>6

\* A delivery keeps the types.
LEMMA InformerType ==
    ASSUME TypeOK, Informer
    PROVE  TypeOK'
<1>1. watch' \in Seq(Restore) /\ cache' \in Restore
  BY Delivered DEF TypeOK
<1>2. queued' \in BOOLEAN BY DEF Informer, TypeOK
<1> QED BY <1>1, <1>2 DEF Informer, TypeOK, workerVars, rcVars, volVars, envVars, countVars, disturbed

\* A delivery keeps the deletion in order.
LEMMA InformerKeeps ==
    ASSUME DeletionInv, Informer
    PROVE  DeletionInv'
<1>0. /\ TypeOK /\ RemovedIsEmpty /\ HandlersHold /\ MarksKept /\ RemovalSeen /\ DeletionOrdered
      /\ DeleterKnows /\ FinalizerHeld /\ NothingLeft
  BY DEF DeletionInv
<1>1. TypeOK' BY <1>0, InformerType
<1>2. /\ api' = api /\ pc' = pc /\ w' = w /\ rpc' = rpc /\ rc' = rc /\ LiveVRCs' = LiveVRCs
  BY DEF Informer, workerVars, rcVars, volVars, LiveVRCs, VRCs
<1>3. RemovedIsEmpty' /\ HandlersHold' /\ FinalizerHeld' /\ NothingLeft'
  BY <1>0, <1>2 DEF RemovedIsEmpty, HandlersHold, FinalizerHeld, NothingLeft
<1>4. MarksKept' BY <1>0, <1>2, Delivered DEF MarksKept
<1>5. RemovalSeen'
  <2>1. \A i \in DOMAIN watch' : watch'[i].rv = 0 => api.rv = 0
    BY <1>0, Delivered DEF RemovalSeen
  <2> QED BY <1>0, <1>2, <2>1, Delivered DEF RemovalSeen, Gone
<1>6. DeletionOrdered'
  <2>1. ASSUME cache'.del, NEW i \in DOMAIN watch' PROVE Gone(watch'[i])
    <3>1. Gone(watch[1]) /\ 1 <= i + 1 /\ i + 1 \in DOMAIN watch /\ 1 \in DOMAIN watch
      BY <1>0, <2>1, Delivered DEF Gone
    <3> QED BY <1>0, <3>1, Delivered DEF DeletionOrdered
  <2>2. ASSUME NEW i \in DOMAIN watch', NEW j \in DOMAIN watch', i <= j, Gone(watch'[i])
        PROVE  Gone(watch'[j])
    <3>1. i + 1 \in DOMAIN watch /\ j + 1 \in DOMAIN watch /\ i + 1 <= j + 1
      BY <1>0, <2>2, Delivered
    <3> QED BY <1>0, <2>2, <3>1, Delivered DEF DeletionOrdered
  <2> QED BY <2>1, <2>2 DEF DeletionOrdered, Gone
<1>7. DeleterKnows'
  <2>1. cache.del => Gone(cache') BY <1>0, Delivered DEF DeletionOrdered
  <2>2. Gone(cache') => cache'.del \/ api.rv = 0 BY <1>0, Delivered DEF Gone, RemovalSeen
  <2> QED BY <1>0, <1>2, <2>1, <2>2 DEF DeleterKnows
<1> QED BY <1>1, <1>3, <1>4, <1>5, <1>6, <1>7 DEF DeletionInv

\* The user's deletion marks the object, or removes one that never had the finalizer.
LEMMA UserDeleteKeeps ==
    ASSUME DeletionInv, UserDelete
    PROVE  DeletionInv'
<1> DEFINE b == [api EXCEPT !.del = TRUE]
<1>0. /\ TypeOK /\ HandlersHold /\ MarksKept /\ FinalizerHeld /\ DeleterKnows /\ NothingLeft
      /\ api.rv # 0
  BY DEF DeletionInv, UserDelete
<1>1. b \in Restore /\ b.fin = api.fin /\ b.del BY <1>0 DEF TypeOK, Restore
<1>2. UNCHANGED <<cache, queueVars, processed, workerVars, rcVars, envVars, volVars, countVars>>
  BY DEF UserDelete, EnvUnchanged
<1>3. LiveVRCs' = LiveVRCs BY <1>2 DEF volVars, LiveVRCs, VRCs
<1>4. CASE api.fin
  <2>1. Commit(b) BY <1>4 DEF UserDelete
  <2> HIDE DEF b
  <2>2. api' \in Restore /\ watch' \in Seq(Restore) /\ Stored /\ Is(b)
    BY <1>0, <1>1, <2>1, CommitStores DEF TypeOK
  <2>3. TypeOK'
    BY <1>0, <1>2, <2>2 DEF TypeOK, queueVars, workerVars, rcVars, envVars, volVars, countVars, disturbed
  <2>4. MarksStay BY <1>1, <2>2 DEF MarksStay, Is
  <2> QED BY <1>0, <1>2, <1>3, <2>2, <2>3, <2>4, OthersKeep DEF HandlersHold, rcVars
<1>5. CASE ~api.fin
  <2>1. Remove BY <1>5 DEF UserDelete
  <2>2. api' \in Restore /\ watch' \in Seq(Restore) BY <1>0, <2>1, NoRestoreType DEF Remove, TypeOK
  <2>3. TypeOK'
    BY <1>0, <1>2, <2>2 DEF TypeOK, queueVars, workerVars, rcVars, envVars, volVars, countVars, disturbed
  <2>4. \A c \in Copies : Gone(c) \/ ~c.fin BY <1>0, <1>5 DEF MarksKept
  <2>5. RemovedIsEmpty' /\ MarksKept' /\ RemovalSeen' /\ DeletionOrdered'
    BY <1>0, <1>2, <2>1, <2>3, <2>4, RemoveKeeps
  <2>6. api'.rv = 0 BY <2>1, NoRestoreType DEF Remove
  <2>7. HandlersHold' /\ DeleterKnows' /\ FinalizerHeld' /\ NothingLeft'
    BY <1>0, <1>2, <1>3, <1>5, <2>6
       DEF HandlersHold, DeleterKnows, FinalizerHeld, NothingLeft, workerVars, rcVars
  <2> QED BY <2>3, <2>5, <2>7 DEF DeletionInv
<1> QED BY <1>4, <1>5

\* Other writers and the volume restore service keep the deletion in order.
LEMMA EnvironmentKeeps ==
    ASSUME DeletionInv, UserTouch \/ ServiceFinishes \/ ServiceRemoves
    PROVE  DeletionInv'
<1>0. TypeOK /\ HandlersHold BY DEF DeletionInv
<1>1. CASE UserTouch
  <2> DEFINE b == [api EXCEPT !.rv = @ + 1]
  <2>1. /\ b \in Restore /\ b.rv = api.rv + 1 /\ b.fin = api.fin /\ b.del = api.del
        /\ api.rv # 0
    <3>1. api \in Restore /\ api.rv # 0 BY <1>0, <1>1 DEF TypeOK, UserTouch
    <3>2. api.rv + 1 \in Nat BY <3>1 DEF Restore
    <3> QED BY <3>1, <3>2 DEF Restore
  <2>2. api' = b /\ watch' = Append(watch, b) BY <1>1 DEF UserTouch
  <2> HIDE DEF b
  <2>3. Stored /\ MarksStay BY <2>1, <2>2 DEF Stored, MarksStay
  <2>4. api' \in Restore /\ watch' \in Seq(Restore) BY <1>0, <2>1, <2>2 DEF TypeOK
  <2>5. /\ UNCHANGED <<cache, queueVars, processed, workerVars, rcVars, envVars, volVars>>
        /\ CountType
    BY <1>0, <1>1, RestoreAssumption DEF UserTouch, EnvUnchanged, CountType, TypeOK, disturbed
  <2>6. TypeOK'
    BY <1>0, <2>4, <2>5 DEF TypeOK, queueVars, workerVars, rcVars, envVars, volVars, CountType
  <2>7. LiveVRCs' = LiveVRCs BY <2>5 DEF volVars, LiveVRCs, VRCs
  <2> QED BY <1>0, <2>3, <2>5, <2>6, <2>7, OthersKeep DEF HandlersHold, rcVars
<1>2. CASE ServiceFinishes \/ ServiceRemoves
  <2>1. Kept /\ UNCHANGED <<cache, queueVars, processed, workerVars, rcVars, envVars, countVars,
                            wanted, backed, vclean, attempt>>
    BY <1>2 DEF ServiceFinishes, ServiceRemoves, EnvUnchanged, apiVars, Kept
  <2>2. /\ vrc' \in [VRCs -> VRCPhases] /\ vdel' \in SUBSET VRCs /\ bound' \in SUBSET PVCs
        /\ LiveVRCs' \subseteq LiveVRCs
    <3>1. CASE ServiceFinishes
      <4>1. PICK v \in VRCs, phase \in {"Completed", "Failed"} :
               /\ vrc[v] = "New" /\ v \notin vdel
               /\ vrc' = [vrc EXCEPT ![v] = phase]
               /\ bound' = IF phase = "Completed" THEN bound \cup {v[2]} ELSE bound
        BY <3>1 DEF ServiceFinishes
      <4>2. v[2] \in PVCs BY DEF VRCs
      <4>3. phase \in VRCPhases /\ vdel' = vdel BY <3>1 DEF VRCPhases, ServiceFinishes
      <4>4. VRCs' = VRCs BY DEF VRCs
      <4> QED BY <1>0, <4>1, <4>2, <4>3, <4>4 DEF TypeOK, LiveVRCs
    <3>2. CASE ServiceRemoves
      <4>1. PICK v \in vdel :
               /\ vrc' = [vrc EXCEPT ![v] = "absent"] /\ vdel' = vdel \ {v}
               /\ bound' = IF v \in vclean THEN bound \ {v[2]} ELSE bound
        BY <3>2 DEF ServiceRemoves
      <4>2. "absent" \in VRCPhases BY DEF VRCPhases
      <4>3. VRCs' = VRCs BY DEF VRCs
      <4> QED BY <1>0, <4>1, <4>2, <4>3 DEF TypeOK, LiveVRCs
    <3> QED BY <1>2, <3>1, <3>2
  <2>3. TypeOK'
    BY <1>0, <2>1, <2>2 DEF TypeOK, Kept, queueVars, workerVars, rcVars, envVars, countVars, disturbed
  <2>4. Stored /\ MarksStay BY <2>1 DEF Stored, Kept, MarksStay
  <2> QED BY <1>0, <2>1, <2>2, <2>3, <2>4, OthersKeep DEF HandlersHold, rcVars
<1> QED BY <1>1, <1>2

\* After a crash the informer lists the object anew.
LEMMA CrashKeeps ==
    ASSUME DeletionInv, Crash
    PROVE  DeletionInv'
<1>0. TypeOK /\ RemovedIsEmpty /\ FinalizerHeld BY DEF DeletionInv
<1>1. /\ api' = api /\ cache' = api /\ watch' = <<>> /\ pc' = "idle" /\ rpc' = "idle"
      /\ LiveVRCs' = LiveVRCs
  BY DEF Crash, volVars, LiveVRCs, VRCs
<1>2. watch' \in Seq(Restore) /\ DOMAIN watch' = {} /\ Copies' = {api} BY <1>1 DEF Copies
<1>3. CountType BY <1>0, RestoreAssumption DEF Crash, CountType, TypeOK, disturbed
<1>4. TypeOK'
  <2>1. /\ pc' \in Pcs /\ w' \in Restore /\ rpc' \in RPcs /\ rc' \in Restore /\ requeues' \in 0..MaxRetry
        /\ processed' \in Nat
    BY ReturnValues DEF Crash, RPcs
  <2>2. queued' \in BOOLEAN BY DEF Crash
  <2> QED BY <1>0, <1>1, <1>2, <1>3, <2>1, <2>2 DEF TypeOK, Crash, CountType, volVars, envVars
<1>5. RemovedIsEmpty' /\ HandlersHold' /\ MarksKept'
  BY <1>0, <1>1, <1>2 DEF RemovedIsEmpty, HandlersHold, MarksKept
<1>6. RemovalSeen' /\ DeletionOrdered' BY <1>1, <1>2 DEF RemovalSeen, DeletionOrdered, Gone
<1>7. DeleterKnows' /\ FinalizerHeld' /\ NothingLeft'
  BY <1>0, <1>1, PathPcs DEF DeleterKnows, FinalizerHeld, NothingLeft
<1> QED BY <1>4, <1>5, <1>6, <1>7 DEF DeletionInv

\* The initial states satisfy the invariant.
LEMMA InitDeletion == Init => DeletionInv
<1> SUFFICES ASSUME Init PROVE DeletionInv
  OBVIOUS
<1>1. /\ api \in Restore /\ api.rv = 1 /\ ~api.fin /\ ~api.del /\ api = [NoRestore EXCEPT !.rv = 1]
  BY NoRestoreType DEF Init, Restore, NoRestore
<1>2. watch = <<api>> /\ watch \in Seq(Restore) /\ DOMAIN watch = {1} /\ watch[1] = api
  BY <1>1 DEF Init
<1>3. cache = NoRestore /\ w = NoRestore /\ rc = NoRestore /\ pc = "idle" /\ rpc = "idle" BY DEF Init
<1>4. LiveVRCs = {} BY DEF Init, LiveVRCs
<1>5. TypeOK
  <2>1. pc \in Pcs /\ rpc \in RPcs BY <1>3 DEF Pcs, RPcs
  <2>2. queued \in BOOLEAN /\ requeues \in 0..MaxRetry /\ processed \in Nat /\ attempt \in 0..MaxAttempts
    <3>1. queued = FALSE /\ requeues = 0 /\ processed = 0 /\ attempt = 0 BY DEF Init
    <3>2. queued \in BOOLEAN BY <3>1, Zenon
    <3>3. requeues \in 0..MaxRetry /\ processed \in Nat /\ attempt \in 0..MaxAttempts
      BY <3>1, RestoreAssumption
    <3> QED BY <3>2, <3>3
  <2>3. vrc \in [VRCs -> VRCPhases] /\ vdel \in SUBSET VRCs /\ vclean \in SUBSET VRCs
    BY DEF Init, VRCPhases
  <2>4. wanted \in SUBSET PVCs /\ backed \in SUBSET wanted /\ bound \in SUBSET PVCs BY DEF Init
  <2>5. faults \in Nat /\ touches \in Nat /\ crashes \in Nat /\ disturbed <= MaxDisturbed
    BY RestoreAssumption DEF Init, disturbed
  <2>6. applied \in {"none", "kept", "some", "all"} /\ hooked \in BOOLEAN BY DEF Init
  <2> QED BY <1>1, <1>2, <1>3, <2>1, <2>2, <2>3, <2>4, <2>5, <2>6, NoRestoreType DEF TypeOK
<1>6. RemovedIsEmpty /\ HandlersHold BY <1>1, <1>3 DEF RemovedIsEmpty, HandlersHold
<1>7. MarksKept /\ RemovalSeen /\ DeletionOrdered
  <2>1. Copies = {NoRestore, api} BY <1>2, <1>3 DEF Copies
  <2>2. MarksKept /\ RemovalSeen BY <1>1, <1>2, <2>1, NoRestoreType DEF MarksKept, RemovalSeen
  <2>3. DeletionOrdered BY <1>2, <1>3, NoRestoreType DEF DeletionOrdered
  <2> QED BY <2>2, <2>3
<1>8. DeleterKnows /\ FinalizerHeld /\ NothingLeft
  BY <1>3, <1>4, PathPcs DEF DeleterKnows, FinalizerHeld, NothingLeft
<1> QED BY <1>5, <1>6, <1>7, <1>8 DEF DeletionInv

\* Every step keeps the deletion in order.
LEMMA NextKeepsDeletion ==
    ASSUME DeletionInv, [Next]_vars
    PROVE  DeletionInv'
<1>1. CASE UNCHANGED vars
  <2>1. /\ api' = api /\ watch' = watch /\ cache' = cache /\ queued' = queued /\ requeues' = requeues
        /\ processed' = processed /\ pc' = pc /\ w' = w /\ rpc' = rpc /\ rc' = rc
        /\ wanted' = wanted /\ backed' = backed /\ vrc' = vrc /\ vdel' = vdel /\ vclean' = vclean
        /\ attempt' = attempt /\ bound' = bound /\ applied' = applied /\ hooked' = hooked
        /\ faults' = faults /\ touches' = touches /\ crashes' = crashes
    BY <1>1 DEF vars
  <2>2. TypeOK' BY <2>1 DEF DeletionInv, TypeOK, disturbed
  <2>3. LiveVRCs' = LiveVRCs BY <2>1 DEF LiveVRCs, VRCs
  <2>4. Stored /\ MarksStay BY <2>1 DEF Stored, Kept, MarksStay
  <2> QED BY <2>1, <2>2, <2>3, <2>4, OthersKeep DEF workerVars, DeletionInv, HandlersHold
<1>2. CASE Next
  BY <1>2, WorkerKeeps, ReconcilerKeeps, InformerKeeps, UserDeleteKeeps, EnvironmentKeeps, CrashKeeps
     DEF Next, PrepareVolumePanics
<1> QED BY <1>1, <1>2

\* What the deletion of a Restore relies on holds in every state: finalizer and deletion
\* mark stay, the informer learns of the deletion before the removal, and nobody works on
\* the Restore, and no VRC exists, without the finalizer.
THEOREM DeletionInOrder == Spec => []DeletionInv
<1>1. Init => DeletionInv BY InitDeletion
<1>2. DeletionInv /\ [Next]_vars => DeletionInv' BY NextKeepsDeletion
<1> QED BY <1>1, <1>2, PTL DEF Spec

\* Every reachable state has the types of the model.
THEOREM TypeCorrect == Spec => []TypeOK
<1>1. DeletionInv => TypeOK BY DEF DeletionInv
<1> QED BY <1>1, DeletionInOrder, PTL

\* deleteRestore lets the Restore go only after its last VRC is gone, for any number of
\* claims, retries, failed calls, foreign writes and crashes.
THEOREM NothingOrphaned == Spec => []NoOrphanVRC
<1>1. DeletionInv => NoOrphanVRC BY DEF DeletionInv, FinalizerHeld, NoOrphanVRC
<1> QED BY <1>1, DeletionInOrder, PTL

-----------------------------------------------------------------------------
(* The stage never goes back: the server's object and its copies *)

\* The rank of an object, by its stage
LEMMA RankOf ==
    ASSUME NEW b
    PROVE  /\ b.stage \in {"unset", "Initial"} => Rank(b) = 0
           /\ b.stage = "Volumes" => Rank(b) = 1
           /\ b.stage = "Resources" => Rank(b) = 2
           /\ b.stage = "PostHook" => Rank(b) = 3
           /\ b.stage = "Finished" => Rank(b) = 4
BY DEF Rank

\* The rank of a Restore is a number, and it tells the stage.
LEMMA RankType ==
    ASSUME NEW b \in Restore
    PROVE  /\ Rank(b) \in 0..4
           /\ Rank(b) = 0 <=> b.stage \in {"unset", "Initial"}
           /\ Rank(b) = 1 <=> b.stage = "Volumes"
           /\ Rank(b) = 2 <=> b.stage = "Resources"
           /\ Rank(b) = 3 <=> b.stage = "PostHook"
           /\ Rank(b) = 4 <=> b.stage = "Finished"
<1>1. b.stage \in {"unset", "Initial", "Volumes", "Resources", "PostHook", "Finished"}
  BY DEF Restore, Stages
<1> QED BY <1>1, RankOf

\* Objects of one stage have one rank.
LEMMA SameRank ==
    ASSUME NEW b \in Restore, NEW c \in Restore, b.stage = c.stage
    PROVE  /\ Rank(b) = Rank(c)
           /\ b.state = c.state => (Unfinished(b) <=> Unfinished(c))
<1>1. Rank(b) = Rank(c) BY RankType
<1> QED BY <1>1 DEF Unfinished

\* An unfinished object has not passed the stage Volumes.
LEMMA UnfinishedRank ==
    ASSUME NEW b \in Restore, Unfinished(b)
    PROVE  Rank(b) <= 1
BY RankType DEF Unfinished

\* WorkerStage, for any call and copy
StageAt(at, b) ==
    /\ at \in {"init", "validate", "invalid", "validated"} => Rank(b) = 0
    /\ at \in {"volumes", "checkPVC", "count", "annVolume", "volCompleted", "volFailed",
               "prepare", "createVRC", "processing", "toResources"} => b.stage = "Volumes"
    /\ at \in {"count", "annVolume"} => b.state # "Completed"
    /\ at = "toResources" => b.state = "Completed"
    /\ at \in {"apply", "appliedAll", "toPostHook"} => b.stage = "Resources"
    /\ at \in {"hooks", "hooksDone", "resCompleted", "toFinished"} => b.stage = "PostHook"
    /\ at = "toFinished" => b.state = "Completed"
    /\ at = "finished" => b.stage = "Finished"

\* The stage of the worker's copy, as an instance of it
LEMMA WorkerStageAt == (WorkerStage <=> StageAt(pc, w)) /\ (WorkerStage' <=> StageAt(pc', w'))
BY DEF WorkerStage, StageAt, Rank

\* The parts of BoundedLag
FinFirst == api.rv # 0 => (Rank(api) # 0 => api.fin)
CopiesLag ==
    api.rv # 0 => \A c \in Copies : c.rv # 0 /\ c.rv >= processed /\ ~c.del =>
                      (Unfinished(c) => Rank(api) <= 1) /\ (~c.fin => Rank(api) = 0)
WorkerLag ==
    api.rv # 0 =>
        /\ pc = "finalizer" /\ ~w.fin => Rank(api) = 0
        /\ pc \notin DeletePcs \cup Ahead \cup {"idle"} /\ Unfinished(w) => Rank(api) <= 1

\* BoundedLag speaks of the server's object, of the informer's copies and of the worker.
LEMMA LagParts == BoundedLag <=> FinFirst /\ CopiesLag /\ WorkerLag
BY DEF BoundedLag, FinFirst, CopiesLag, WorkerLag

\* The same, in the next state
LEMMA LagPartsNext == FinFirst' /\ CopiesLag' /\ WorkerLag' => BoundedLag'
BY LagParts, PTL

\* The stage moves on only by a write over the newest copy the store lets through.
Forward ==
    api.rv # 0 =>
        /\ Rank(api') >= Rank(api)
        /\ Rank(api') # Rank(api) =>
              processed = api.rv /\ api.fin /\ (Rank(api') >= 2 => ~Unfinished(api))

\* Such a write keeps server, store and informer in agreement.
LEMMA ForwardKeeps ==
    ASSUME StatusInv, TypeOK', Stored, MarksStay, cache' = cache, Forward,
           rc' \in {rc, cache, NoRestore}, processed' >= processed, processed' <= api'.rv \/ api.rv = 0
    PROVE  CopiesAgree' /\ FinFirst' /\ CopiesLag'
<1>0. /\ TypeOK /\ RemovedIsEmpty /\ CopiesAgree /\ ProcessedBounds /\ BoundedLag
      /\ api \in Restore /\ api' \in Restore /\ processed \in Nat /\ processed' \in Nat
  BY DEF StatusInv, DeletionInv, TypeOK
<1>l. FinFirst /\ CopiesLag BY <1>0, LagParts
<1>r. ASSUME NEW b \in Restore PROVE b.rv \in Nat /\ Rank(b) \in 0..4
  BY RankType DEF Restore
<1>c. \A c \in Copies \cup {rc} : c \in Restore
  BY <1>0 DEF Copies, TypeOK
<1>1. CASE api.rv = 0
  <2>1. api'.rv = 0 BY <1>0, <1>1, StoredCopies
  <2> QED BY <2>1 DEF CopiesAgree, FinFirst, CopiesLag
<1>2. CASE api.rv # 0
  <2>1. api'.rv # 0 /\ api'.rv >= api.rv /\ (api'.rv = api.rv => api' = api)
    BY <1>0, <1>2, <1>r, StoredCopies DEF Stored, Kept
  <2>2. Rank(api') >= Rank(api) BY <1>2 DEF Forward
  <2>3. CopiesAgree'
    <3>1. ASSUME NEW c \in Copies \cup {rc} PROVE c.rv <= api'.rv /\ (c.rv = api'.rv => c = api')
      <4>1. c.rv <= api.rv /\ (c.rv = api.rv => c = api) BY <1>0, <1>2 DEF CopiesAgree
      <4> QED BY <1>0, <1>c, <1>r, <2>1, <4>1
    <3>2. ASSUME NEW c \in Copies PROVE Rank(c) <= Rank(api')
      <4>1. Rank(c) <= Rank(api) BY <1>0, <1>2 DEF CopiesAgree
      <4>2. c \in Restore BY <1>c
      <4> QED BY <1>0, <1>r, <2>2, <4>1, <4>2
    <3>3. rc' \in Copies \cup {rc} \/ rc' = NoRestore BY CopyCases
    <3>4. NoRestore.rv = 0 BY NoRestoreType
    <3>5. \A c \in Copies' : c \in Copies \/ c = api' BY <1>0, StoredCopies
    <3>6. \A c \in Copies' \cup {rc'} : c.rv <= api'.rv /\ (c.rv = api'.rv => c = api')
      BY <1>0, <1>r, <2>1, <3>1, <3>3, <3>4, <3>5
    <3>7. \A c \in Copies' : Rank(c) <= Rank(api') BY <1>0, <1>r, <3>2, <3>5
    <3> QED BY <3>6, <3>7 DEF CopiesAgree, Rank
  <2>4. Rank(api') # 0 => api'.fin
    BY <1>2, <1>l, <1>r, <1>0 DEF FinFirst, Forward, MarksStay
  <2>5. FinFirst' BY <2>4 DEF FinFirst, Rank
  <2>6. ASSUME NEW c \in Copies', c.rv # 0, c.rv >= processed', ~c.del
        PROVE  (Unfinished(c) => Rank(api') <= 1) /\ (~c.fin => Rank(api') = 0)
    <3>1. CASE c = api' BY <1>0, <2>4, <3>1, UnfinishedRank
    <3>2. CASE c \in Copies
      <4>1. c \in Restore /\ c.rv >= processed BY <1>0, <1>c, <1>r, <2>6, <3>2
      <4>2. (Unfinished(c) => Rank(api) <= 1) /\ (~c.fin => Rank(api) = 0)
        BY <1>2, <1>l, <2>6, <3>2, <4>1 DEF CopiesLag
      <4>3. CASE Rank(api') = Rank(api) BY <4>2, <4>3
      <4>4. CASE Rank(api') # Rank(api)
        <5>1. processed = api.rv /\ api.fin /\ (Rank(api') >= 2 => ~Unfinished(api))
          BY <1>2, <4>4 DEF Forward
        <5>2. c.rv <= api.rv /\ (c.rv = api.rv => c = api) BY <1>0, <1>2, <3>2 DEF CopiesAgree
        <5>3. c = api BY <1>0, <1>r, <4>1, <5>1, <5>2
        <5> QED BY <1>0, <1>r, <5>1, <5>3
      <4> QED BY <4>3, <4>4
    <3> QED BY <1>0, <3>1, <3>2, StoredCopies
  <2>7. CopiesLag' BY <2>6 DEF CopiesLag, Rank, Unfinished
  <2> QED BY <2>3, <2>5, <2>7
<1> QED BY <1>1, <1>2

-----------------------------------------------------------------------------
(* The stage never goes back: the worker *)

\* WorkerAgrees and WorkerLag, for any call and copy
Agrees(at, b, a) ==
    /\ b.rv = a.rv /\ at \notin Ahead => b.stage = a.stage /\ b.state = a.state
    /\ b.rv = a.rv => Rank(a) <= Rank(b) /\ (Rank(a) = Rank(b) \/ Rank(a) >= 2)
    /\ at \notin Ahead => Rank(b) <= Rank(a)
Lags(at, b, a) ==
    /\ at = "finalizer" /\ ~b.fin => Rank(a) = 0
    /\ at \notin DeletePcs \cup Ahead \cup {"idle"} /\ Unfinished(b) => Rank(a) <= 1

\* The worker, as instances of them
LEMMA WorkerParts ==
    /\ WorkerAgrees <=> (api.rv # 0 /\ pc # "idle" => Agrees(pc, w, api))
    /\ WorkerAgrees' <=> (api'.rv # 0 /\ pc' # "idle" => Agrees(pc', w', api'))
    /\ WorkerLag <=> (api.rv # 0 => Lags(pc, w, api))
    /\ WorkerLag' <=> (api'.rv # 0 => Lags(pc', w', api'))
BY DEF WorkerAgrees, WorkerLag, Agrees, Lags, Rank, Unfinished

\* The calls of the two paths do not overlap.
LEMMA AheadPcs ==
    /\ Ahead \subseteq SyncPcs /\ Ahead \cap DeletePcs = {}
    /\ "idle" \notin Ahead /\ "finalizer" \notin Ahead
    /\ "return" \notin Ahead /\ "error" \notin Ahead
BY DEF Ahead, SyncPcs, DeletePcs, Pcs

\* Copies of one stage and state are at the same place.
LEMMA StageOf ==
    ASSUME NEW at, NEW b \in Restore, NEW c \in Restore, b.stage = c.stage, b.state = c.state,
           StageAt(at, b)
    PROVE  StageAt(at, c)
BY SameRank DEF StageAt

\* A worker back at the queue has nothing to agree with.
LEMMA IdleFits == \A b, a : StageAt("idle", b) /\ Lags("idle", b, a)
BY DEF StageAt, Lags

\* What a step of the worker that writes at most the object has to bring about
LEMMA WorkerMoves ==
    ASSUME StatusInv, DeletionInv', WorkerFrame, Stored, MarksStay, Forward,
           processed' >= processed, processed' <= api'.rv \/ api.rv = 0,
           \/ pc' = "idle"
           \/ /\ StageAt(pc', w')
              /\ api.rv # 0 => w'.rv <= processed' /\ Agrees(pc', w', api') /\ Lags(pc', w', api')
    PROVE  StatusInv'
<1>0. TypeOK /\ TypeOK' /\ cache' = cache /\ rc' = rc
  BY DEF StatusInv, DeletionInv, WorkerFrame, rcVars
<1>1. CopiesAgree' /\ FinFirst' /\ CopiesLag' BY <1>0, ForwardKeeps
<1>2. api'.rv # 0 => api.rv # 0 BY <1>0, StoredCopies
<1>3. ProcessedBounds' BY <1>2 DEF ProcessedBounds
<1>4. WorkerAgrees' /\ WorkerLag' BY <1>2, WorkerParts, IdleFits
<1>5. WorkerStage' BY WorkerStageAt, IdleFits
<1>6. BoundedLag' BY <1>1, <1>4, LagPartsNext
<1> QED BY <1>1, <1>3, <1>4, <1>5, <1>6 DEF StatusInv

\* What holds for a worker on its way
LEMMA OnTheWay ==
    ASSUME StatusInv, pc # "idle"
    PROVE  /\ TypeOK /\ api \in Restore /\ w \in Restore /\ processed \in Nat
           /\ api.rv \in Nat /\ w.rv \in Nat
           /\ StageAt(pc, w)
           /\ api.rv # 0 =>
                 /\ Agrees(pc, w, api) /\ Lags(pc, w, api)
                 /\ w.rv <= processed /\ processed <= api.rv
                 /\ Rank(api) # 0 => api.fin
           /\ pc \in SyncPcs => api.rv # 0 /\ api.fin
BY WorkerParts, LagParts, WorkerStageAt
   DEF StatusInv, DeletionInv, FinalizerHeld, ProcessedBounds, TypeOK, Restore, FinFirst

\* A step without a write of the object keeps worker and object together.
LEMMA LocalKeeps ==
    ASSUME StatusInv, DeletionInv', WorkerFrame, pc # "idle",
           NEW next \in SyncNexts \cup DeletePcs, LocalOutcome(next),
           next \notin Ahead \cup {"return", "error"} => pc \notin Ahead,
           next \notin DeletePcs \cup {"return", "error"} => pc \notin DeletePcs,
           StageAt(next, w)
    PROVE  StatusInv'
<1>0. Kept /\ api' = api /\ processed' = processed /\ Leads(next, w) BY DEF LocalOutcome, Kept
<1>1. next # "idle" /\ next # "finalizer" BY PathPcs DEF SyncNexts
<1>2. Stored /\ MarksStay BY <1>0 DEF Stored, MarksStay
<1>3. Forward BY <1>0, OnTheWay, RankType DEF Forward
<1>4. CASE pc' = "idle" BY <1>0, <1>2, <1>3, <1>4, OnTheWay, WorkerMoves
<1>5. CASE pc' # "idle"
  <2>1. pc' = next /\ w' = w /\ next \notin {"return", "error"} BY <1>0, <1>5, PathPcs DEF Leads
  <2>2. api.rv # 0 => Agrees(next, w, api) BY <2>1, OnTheWay DEF Agrees
  <2>3. api.rv # 0 => Lags(next, w, api) BY <1>1, <2>1, OnTheWay DEF Lags
  <2> QED BY <1>0, <1>2, <1>3, <2>1, <2>2, <2>3, OnTheWay, WorkerMoves
<1> QED BY <1>4, <1>5

\* A patch keeps stage and state, and the worker goes on with the object itself.
LEMMA PatchKeeps ==
    ASSUME StatusInv, DeletionInv', WriteFrame, pc # "idle",
           NEW next \in SyncNexts \cup DeletePcs, NEW b \in Restore, PatchOutcome(b, next), MarksStay,
           b.stage = api.stage, b.state = api.state,
           api.rv # 0 => StageAt(next, api)
    PROVE  StatusInv'
<1>0. WorkerFrame /\ api' \in Restore /\ TypeOK /\ TypeOK' /\ cache' = cache /\ next # "finalizer"
  BY PathPcs DEF WriteFrame, WorkerFrame, StatusInv, DeletionInv, TypeOK, SyncNexts
<1>1. Stored BY DEF PatchOutcome, Patched, Stored
<1>2. api.rv # 0 => Rank(api') = Rank(api) /\ api'.stage = api.stage /\ api'.state = api.state
  BY <1>0, OnTheWay, SameRank DEF PatchOutcome, Patched, Kept, Is
<1>3. Forward BY <1>2, OnTheWay, RankType DEF Forward
<1>4. api.rv # 0 => api'.rv >= api.rv /\ api'.rv \in Nat
  BY <1>0, <1>1, StoredCopies DEF Restore
<1>5. processed' >= processed /\ (processed' <= api'.rv \/ api.rv = 0)
  BY <1>0, <1>4, OnTheWay DEF PatchOutcome, Patched
<1>6. CASE pc' = "idle" BY <1>0, <1>1, <1>3, <1>5, <1>6, WorkerMoves
<1>7. CASE pc' # "idle"
  <2>1. /\ Patched(b) /\ pc' = next /\ w' = api'
        /\ processed' = IF processed > api'.rv THEN processed ELSE api'.rv
    BY <1>7 DEF PatchOutcome, Stopped, Leads
  <2>2. api.rv # 0 BY <2>1 DEF Patched
  <2>3. StageAt(next, api') BY <1>0, <1>2, <2>2, OnTheWay, StageOf
  <2>4. w'.rv <= processed' BY <1>4, <1>0, <2>1, <2>2, OnTheWay
  <2>5. Agrees(next, api', api') /\ Lags(next, api', api')
    <3>1. Rank(api') \in 0..4 BY <1>0, RankType
    <3>2. Unfinished(api') => Rank(api') <= 1 BY <1>0, UnfinishedRank
    <3> QED BY <1>0, <3>1, <3>2 DEF Agrees, Lags
  <2> QED BY <1>0, <1>1, <1>3, <1>5, <2>1, <2>3, <2>4, <2>5, WorkerMoves
<1> QED BY <1>6, <1>7

\* A status write from a copy at least as far as the worker's, which passes the stage
\* Volumes only when the volumes are done. Where the error is only logged the worker may
\* go on with its own copy.
LEMMA StatusKeeps ==
    ASSUME StatusInv, DeletionInv', WriteFrame, pc \in SyncPcs,
           NEW next \in SyncNexts, NEW b \in Restore, b.rv = w.rv, IgnoredOutcome(b, next),
           Rank(b) >= Rank(w),
           Rank(b) = Rank(w) \/ Rank(w) >= 2 \/ Rank(b) <= 1 \/ (pc \notin Ahead /\ ~Unfinished(w)),
           StageAt(next, b),
           \/ StatusOutcome(b, next)
           \/ next \in Ahead /\ (Rank(b) = Rank(w) \/ Rank(w) >= 2)
           \/ b.stage = w.stage /\ b.state = w.state /\ pc \notin Ahead
    PROVE  StatusInv'
<1>0. /\ WorkerFrame /\ api' \in Restore /\ TypeOK /\ TypeOK' /\ cache' = cache /\ pc # "idle"
      /\ next # "finalizer" /\ pc \notin DeletePcs
  BY PathPcs DEF WriteFrame, WorkerFrame, StatusInv, DeletionInv, TypeOK, SyncNexts
<1>1. Stored /\ MarksStay
  BY DEF IgnoredOutcome, StatusOutcome, Wrote, Stored, Kept, MarksStay
<1>2. /\ api.rv # 0 /\ api'.rv \in Nat /\ api'.rv >= api.rv /\ api.fin
      /\ w.rv <= processed /\ processed <= api.rv
      /\ Agrees(pc, w, api) /\ Lags(pc, w, api)
      /\ Rank(w) \in 0..4 /\ Rank(b) \in 0..4 /\ Rank(api) \in 0..4 /\ Rank(api') \in 0..4
      /\ processed \in Nat /\ w.rv \in Nat /\ api.rv \in Nat /\ w \in Restore /\ api \in Restore
  <2>1. api.rv # 0 BY <1>0, OnTheWay
  <2>2. api'.rv \in Nat /\ api'.rv >= api.rv BY <1>0, <1>1, <2>1, StoredCopies DEF Restore
  <2> QED BY <1>0, <2>1, <2>2, OnTheWay, RankType
<1>3. Wrote(b) => processed = api.rv /\ Rank(api') = Rank(b) /\ Rank(api) <= Rank(w)
  BY <1>0, <1>2, SameRank DEF Wrote, Agrees
<1>4. Forward
  <2>1. CASE Kept BY <1>2, <2>1 DEF Forward, Kept
  <2>2. CASE Wrote(b)
    <3>1. Unfinished(api) => Rank(api) <= 1 BY <1>2, UnfinishedRank
    <3>2. pc \notin Ahead => (Unfinished(api) <=> Unfinished(w))
      BY <1>2, <2>2, SameRank DEF Wrote, Agrees
    <3>3. Rank(b) # Rank(api) /\ Rank(b) >= 2 => ~Unfinished(api)
      BY <1>2, <2>2, <3>1, <3>2 DEF Wrote, Agrees
    <3> QED BY <1>2, <1>3, <2>2, <3>3 DEF Forward, Wrote
  <2> QED BY <2>1, <2>2 DEF IgnoredOutcome, StatusOutcome
<1>5. processed' >= processed /\ processed' <= api'.rv
  BY <1>2 DEF IgnoredOutcome, StatusOutcome
<1>6. CASE pc' = "idle" BY <1>0, <1>1, <1>4, <1>5, <1>6, WorkerMoves
<1>7. CASE /\ pc' # "idle" /\ Wrote(b) /\ Leads(next, api')
           /\ processed' = (IF processed > api'.rv THEN processed ELSE api'.rv)
  <2>1. pc' = next /\ w' = api' BY <1>7 DEF Leads
  <2>2. StageAt(next, api') BY <1>0, <1>7, StageOf DEF Wrote
  <2>3. w'.rv <= processed' BY <1>2, <1>7, <2>1
  <2>4. Agrees(next, api', api') /\ Lags(next, api', api')
    <3>1. Unfinished(api') => Rank(api') <= 1 BY <1>0, UnfinishedRank
    <3> QED BY <1>0, <1>2, <3>1 DEF Agrees, Lags
  <2> QED BY <1>0, <1>1, <1>4, <1>5, <2>1, <2>2, <2>3, <2>4, WorkerMoves
<1>8. CASE /\ pc' # "idle" /\ (Kept \/ Wrote(b)) /\ processed' = processed /\ Leads(next, b)
           /\ ~StatusOutcome(b, next)
  <2>1. pc' = next /\ w' = b /\ next \notin {"return", "error"} BY <1>8, PathPcs DEF Leads
  <2>2. w'.rv <= processed' BY <1>2, <1>8, <2>1
  <2>3. \/ next \in Ahead
        \/ next \notin Ahead /\ b.stage = w.stage /\ b.state = w.state /\ pc \notin Ahead
    BY <1>8, <2>1
  <2>4. b.rv = api'.rv => Kept /\ api' = api
    <3>1. api.rv \in Nat BY <1>2
    <3>2. CASE Kept BY <3>2 DEF Kept
    <3>3. CASE ~Kept BY <1>8, <3>1, <3>3 DEF Wrote, Stored
    <3> QED BY <3>2, <3>3
  <2>5. CASE next \in Ahead
    <3>0. Rank(b) = Rank(w) \/ Rank(w) >= 2 BY <1>2, <1>8, SameRank
    <3>1. Agrees(next, b, api') BY <1>2, <2>4, <2>5, <3>0 DEF Agrees
    <3>2. Lags(next, b, api') BY <2>5, AheadPcs DEF Lags
    <3> QED BY <1>0, <1>1, <1>4, <1>5, <2>1, <2>2, <3>1, <3>2, WorkerMoves
  <2>6. CASE next \notin Ahead /\ b.stage = w.stage /\ b.state = w.state /\ pc \notin Ahead
    <3>1. Rank(b) = Rank(w) /\ (Unfinished(b) <=> Unfinished(w)) BY <1>2, <2>6, SameRank
    <3>2. Rank(api') = Rank(api) \/ Rank(api') = Rank(b)
      BY <1>3, <1>8 DEF Kept
    <3>3. Agrees(next, b, api') BY <1>2, <2>4, <2>6, <3>1, <3>2 DEF Agrees
    <3>4. Unfinished(b) => Rank(b) <= 1 BY UnfinishedRank
    <3>5. Lags(next, b, api')
      BY <1>0, <1>2, <2>6, <3>1, <3>2, <3>4 DEF Lags
    <3> QED BY <1>0, <1>1, <1>4, <1>5, <2>1, <2>2, <3>3, <3>5, WorkerMoves
  <2> QED BY <2>3, <2>5, <2>6
<1> QED BY <1>6, <1>7, <1>8 DEF IgnoredOutcome, StatusOutcome, Stopped

\* updateRestoreStatus, for a copy such as StatusKeeps asks for
LEMMA StatusCallKeeps ==
    ASSUME StatusInv, pc \in SyncPcs, NEW next \in SyncNexts, NEW b \in Restore, b.rv = w.rv,
           NEW onError, UpdateRestoreStatus(b, next, onError),
           Rank(b) >= Rank(w),
           Rank(b) = Rank(w) \/ Rank(w) >= 2 \/ Rank(b) <= 1 \/ (pc \notin Ahead /\ ~Unfinished(w)),
           StageAt(next, b),
           \/ onError # "ignore"
           \/ next \in Ahead /\ (Rank(b) = Rank(w) \/ Rank(w) >= 2)
           \/ b.stage = w.stage /\ b.state = w.state /\ pc \notin Ahead
    PROVE  StatusInv'
<1>0. DeletionInv /\ TypeOK /\ b.rv # 0 /\ next \in Nexts
  BY PathPcs DEF StatusInv, DeletionInv, HandlersHold, SyncNexts, Nexts
<1>1. /\ WriteFrame /\ IgnoredOutcome(b, next)
      /\ onError # "ignore" => StatusOutcome(b, next)
  BY <1>0, UpdateStatusOutcome
<1>2. DeletionInv' BY <1>0, StatusCall
<1> QED BY <1>1, <1>2, StatusKeeps

\* The stage of a copy whose state was changed
LEMMA StateChanged ==
    ASSUME w \in Restore, NEW state \in States
    PROVE  /\ WithState(state) \in Restore /\ WithState(state).rv = w.rv
           /\ WithState(state).stage = w.stage /\ WithState(state).state = state
           /\ Rank(WithState(state)) = Rank(w) /\ Rank(w) \in 0..4
<1>1. /\ WithState(state) \in Restore /\ WithState(state).rv = w.rv
      /\ WithState(state).stage = w.stage /\ WithState(state).state = state
  BY DEF WithState, Restore
<1> QED BY <1>1, SameRank, RankType

\* Every status write of syncRestore keeps the objects in agreement.
LEMMA WritersKeepStatus ==
    ASSUME StatusInv,
           \/ InitRestore \/ ValidationFailed \/ Validated \/ PopulateFailed
           \/ PatchRestoreObjects \/ VolumeRestoreFailed \/ VolumeRestoreCompleted
           \/ VolumeRestoreProcessing \/ ToResources \/ ApplyCompleted \/ ToPostHook
           \/ HooksCompleted \/ MetadataCompleted \/ MetadataFailed \/ ToFinished
    PROVE  StatusInv'
<1>0. TypeOK /\ w \in Restore /\ StageAt(pc, w) BY WorkerStageAt DEF StatusInv, DeletionInv, TypeOK
<1>1. {"init", "invalid", "validated", "popFailed", "popFailed2", "record", "volFailed",
       "volCompleted", "processing", "toResources", "appliedAll", "toPostHook", "hooksDone",
       "resCompleted", "resFailed", "toFinished"} \subseteq SyncPcs
  BY DEF SyncPcs, DeletePcs, Pcs
<1>2. {"validate", "error", "populate", "popFailed2", "return", "dispatch", "toResources", "apply",
       "toPostHook", "hooks", "resCompleted", "toFinished", "finished"} \subseteq SyncNexts
  BY DEF SyncNexts, SyncPcs, DeletePcs, Pcs
<1>3. CASE InitRestore
  <2> DEFINE stage == IF w.stage = "unset" THEN "Initial" ELSE w.stage
             state == IF w.state = "unset" THEN "New" ELSE w.state
             b == [w EXCEPT !.stage = stage, !.state = state]
  <2>1. stage \in Stages /\ state \in States BY <1>0, Values DEF Restore
  <2>2. pc = "init" /\ UpdateRestoreStatus(b, "validate", "return") BY <1>3 DEF InitRestore
  <2>3. Rank(w) = 0 /\ w.stage \in {"unset", "Initial"} BY <1>0, <2>2, RankType DEF StageAt
  <2>4. stage \in {"unset", "Initial"} BY <2>3
  <2> HIDE DEF stage, state
  <2>5. b \in Restore /\ b.rv = w.rv /\ b.stage = stage BY <1>0, <2>1 DEF Restore
  <2> HIDE DEF b
  <2>6. Rank(b) = 0 BY <2>4, <2>5, RankType
  <2>7. StageAt("validate", b) BY <2>6 DEF StageAt
  <2> QED BY <1>1, <1>2, <2>2, <2>3, <2>5, <2>6, <2>7, StatusCallKeeps
<1>4. ASSUME NEW state \in States, NEW next \in {"return", "error"}, NEW onError,
             pc \in SyncPcs, onError # "ignore", UpdateRestoreStatus(WithState(state), next, onError)
      PROVE  StatusInv'
  <2>1. StageAt(next, WithState(state)) BY DEF StageAt
  <2> QED BY <1>0, <1>2, <1>4, <2>1, StateChanged, StatusCallKeeps
<1>5. CASE ValidationFailed \/ VolumeRestoreFailed \/ MetadataFailed \/ VolumeRestoreProcessing
  BY <1>1, <1>4, <1>5, Values
     DEF ValidationFailed, VolumeRestoreFailed, MetadataFailed, VolumeRestoreProcessing
<1>6. CASE PopulateFailed
  <2>1. CASE pc = "popFailed" /\ UpdateRestoreStatus(WithState("Failed"), "popFailed2", "ignore")
    <3>1. StageAt("popFailed2", WithState("Failed")) BY DEF StageAt
    <3>2. "popFailed2" \in Ahead /\ "Failed" \in States BY Values DEF Ahead
    <3> QED BY <1>0, <1>1, <1>2, <2>1, <3>1, <3>2, StateChanged, StatusCallKeeps
  <2>2. CASE pc = "popFailed2" /\ UpdateRestoreStatus(WithState("Failed"), "return", "return")
    BY <1>1, <1>4, <2>2, Values
  <2> QED BY <1>6, <2>1, <2>2 DEF PopulateFailed
<1>7. CASE Validated
  <2> DEFINE b == [w EXCEPT !.stage = "Volumes", !.state = "New"]
  <2>1. pc = "validated" /\ UpdateRestoreStatus(b, "populate", "return") BY <1>7 DEF Validated
  <2>2. b \in Restore /\ b.rv = w.rv /\ b.stage = "Volumes" BY <1>0, Values DEF Restore
  <2> HIDE DEF b
  <2>3. Rank(w) = 0 /\ Rank(b) = 1 /\ StageAt("populate", b)
    BY <1>0, <2>1, <2>2, RankType DEF StageAt
  <2> QED BY <1>1, <1>2, <2>1, <2>2, <2>3, StatusCallKeeps
<1>8. CASE PatchRestoreObjects
  <2> DEFINE b == [w EXCEPT !.res = TRUE]
  <2>1. pc = "record" /\ UpdateRestoreStatus(b, "dispatch", "ignore") BY <1>8 DEF PatchRestoreObjects
  <2>2. b \in Restore /\ b.rv = w.rv /\ b.stage = w.stage /\ b.state = w.state BY <1>0 DEF Restore
  <2> HIDE DEF b
  <2>3. Rank(b) = Rank(w) /\ Rank(w) \in 0..4 BY <1>0, <2>2, SameRank, RankType
  <2>4. pc \notin Ahead /\ StageAt("dispatch", b) BY <2>1 DEF StageAt, Ahead
  <2> QED BY <1>1, <1>2, <2>1, <2>2, <2>3, <2>4, StatusCallKeeps
<1>9. CASE VolumeRestoreCompleted \/ MetadataCompleted
  <2>1. PICK next \in {"toResources", "toFinished"} :
           /\ UpdateRestoreStatus(WithState("Completed"), next, "return")
           /\ pc = (IF next = "toResources" THEN "volCompleted" ELSE "resCompleted")
    BY <1>9 DEF VolumeRestoreCompleted, MetadataCompleted
  <2>2. StageAt(next, WithState("Completed"))
    BY <1>0, <2>1, Values, StateChanged DEF StageAt
  <2>3. pc \in SyncPcs /\ next \in SyncNexts /\ "Completed" \in States BY <1>1, <1>2, <2>1, Values
  <2> QED BY <1>0, <2>1, <2>2, <2>3, StateChanged, StatusCallKeeps
<1>10. CASE ApplyCompleted \/ HooksCompleted
  <2>1. PICK next \in {"toPostHook", "resCompleted"} :
           /\ UpdateRestoreStatus(WithState("Completed"), next, "ignore")
           /\ pc = (IF next = "toPostHook" THEN "appliedAll" ELSE "hooksDone")
    BY <1>10 DEF ApplyCompleted, HooksCompleted
  <2>2. StageAt(next, WithState("Completed")) /\ next \in Ahead
    BY <1>0, <2>1, Values, StateChanged DEF StageAt, Ahead
  <2> QED BY <1>0, <1>1, <1>2, <2>1, <2>2, Values, StateChanged, StatusCallKeeps
<1>11. CASE ToResources
  <2> DEFINE b == [w EXCEPT !.stage = "Resources", !.state = "New"]
  <2>1. pc = "toResources" /\ UpdateRestoreStatus(b, "apply", "return") BY <1>11 DEF ToResources
  <2>2. b \in Restore /\ b.rv = w.rv /\ b.stage = "Resources" BY <1>0, Values DEF Restore
  <2> HIDE DEF b
  <2>3. Rank(w) = 1 /\ Rank(b) = 2 /\ StageAt("apply", b) /\ ~Unfinished(w) /\ "toResources" \notin Ahead
    BY <1>0, <2>1, <2>2, RankType DEF StageAt, Unfinished, Ahead
  <2> QED BY <1>1, <1>2, <2>1, <2>2, <2>3, StatusCallKeeps
<1>12. CASE ToPostHook
  <2> DEFINE b == [w EXCEPT !.state = "Processing", !.stage = "PostHook"]
  <2>1. pc = "toPostHook" /\ UpdateRestoreStatus(b, "hooks", "ignore") BY <1>12 DEF ToPostHook
  <2>2. b \in Restore /\ b.rv = w.rv /\ b.stage = "PostHook" BY <1>0, Values DEF Restore
  <2> HIDE DEF b
  <2>3. Rank(w) = 2 /\ Rank(b) = 3 /\ StageAt("hooks", b) /\ "hooks" \in Ahead
    BY <1>0, <2>1, <2>2, RankType DEF StageAt, Ahead
  <2> QED BY <1>1, <1>2, <2>1, <2>2, <2>3, StatusCallKeeps
<1>13. CASE ToFinished
  <2> DEFINE b == [w EXCEPT !.stage = "Finished"]
  <2>1. pc = "toFinished" /\ UpdateRestoreStatus(b, "finished", "return") BY <1>13 DEF ToFinished
  <2>2. b \in Restore /\ b.rv = w.rv /\ b.stage = "Finished" BY <1>0, Values DEF Restore
  <2> HIDE DEF b
  <2>3. Rank(w) = 3 /\ Rank(b) = 4 /\ StageAt("finished", b)
    BY <1>0, <2>1, <2>2, RankType DEF StageAt
  <2> QED BY <1>1, <1>2, <2>1, <2>2, <2>3, StatusCallKeeps
<1> QED BY <1>3, <1>5, <1>6, <1>7, <1>8, <1>9, <1>10, <1>11, <1>12, <1>13

\* A step of syncRestore that writes nothing, at a call where its copy agrees with the next
LEMMA LocalCallKeeps ==
    ASSUME StatusInv, pc \in SyncPcs, NEW next \in SyncNexts, Local(next) \/ CallFails(next),
           next \notin Ahead \cup {"return", "error"} => pc \notin Ahead, StageAt(next, w)
    PROVE  StatusInv'
<1>0. DeletionInv /\ TypeOK /\ next \in Nexts /\ pc # "idle" /\ pc \notin DeletePcs
  BY PathPcs DEF StatusInv, DeletionInv, SyncNexts, Nexts
<1>1. WorkerFrame /\ LocalOutcome(next) BY <1>0, LocalStep DEF WriteFrame
<1>2. DeletionInv' BY <1>0, LocalCall
<1> QED BY <1>0, <1>1, <1>2, LocalKeeps

\* The other steps of syncRestore keep the objects in agreement.
LEMMA SyncersKeepStatus ==
    ASSUME StatusInv,
           \/ ValidateRestore \/ PopulateRestoreResources \/ SyncRestore \/ SyncVolumeRestore
           \/ CheckPVCRestored \/ CheckVolumeRestoreStatus \/ AnnotateVolumeRestore
           \/ PrepareVolumeRestore \/ CreateVRC \/ ApplyResources \/ RunPostHooks \/ Finish
    PROVE  StatusInv'
<1>0. /\ DeletionInv /\ TypeOK /\ w \in Restore /\ api \in Restore /\ StageAt(pc, w)
      /\ HandlersHold
  BY WorkerStageAt DEF StatusInv, DeletionInv, TypeOK
<1>1. /\ {"validate", "populate", "dispatch", "volumes", "checkPVC", "count", "annVolume", "prepare",
          "createVRC", "apply", "hooks", "finished"} \subseteq SyncPcs
      /\ {"validate", "populate", "dispatch", "volumes", "checkPVC", "count", "annVolume", "prepare",
          "createVRC", "apply", "finished"} \cap Ahead = {}
      /\ "hooks" \in Ahead
  BY DEF SyncPcs, DeletePcs, Pcs, Ahead
<1>2. {"validated", "invalid", "record", "popFailed", "volumes", "apply", "toFinished", "finished",
       "return", "error", "toResources", "checkPVC", "annVolume", "count", "prepare", "volCompleted",
       "volFailed", "processing", "createVRC", "appliedAll", "resFailed", "hooksDone"}
         \subseteq SyncNexts
  BY DEF SyncNexts, SyncPcs, DeletePcs, Pcs
<1>3. DeletionInv' BY <1>0, SyncersKeep
<1>4. CASE ValidateRestore \/ PopulateRestoreResources
  <2>1. PICK next \in {"validated", "invalid", "record", "popFailed"} :
           Local(next) /\ (next \in {"validated", "invalid"} => pc = "validate")
    BY <1>4 DEF ValidateRestore, PopulateRestoreResources
  <2>2. pc \in SyncPcs \ Ahead /\ next \in SyncNexts
    BY <1>1, <1>2, <1>4 DEF ValidateRestore, PopulateRestoreResources
  <2>3. StageAt(next, w) BY <1>0, <2>1 DEF StageAt
  <2> QED BY <2>1, <2>2, <2>3, LocalCallKeeps
<1>5. CASE SyncRestore
  <2>1. PICK next \in {"volumes", "apply", "toFinished", "finished", "return"} :
           Local(next) /\ StageAt(next, w)
    BY <1>5 DEF SyncRestore, StageAt
  <2>2. pc \in SyncPcs \ Ahead /\ next \in SyncNexts BY <1>1, <1>2, <1>5 DEF SyncRestore
  <2> QED BY <2>1, <2>2, LocalCallKeeps
<1>6. CASE SyncVolumeRestore
  <2>0. pc = "volumes" /\ w.stage = "Volumes" BY <1>0, <1>6 DEF SyncVolumeRestore, StageAt
  <2>1. PICK next \in {"toResources", "checkPVC", "annVolume", "count", "prepare"} :
           /\ Local(next)
           /\ next = "toResources" => w.state = "Completed"
           /\ next \in {"count", "annVolume"} => w.state # "Completed"
    BY <1>6 DEF SyncVolumeRestore
  <2>2. StageAt(next, w) BY <2>0, <2>1 DEF StageAt
  <2>3. pc \in SyncPcs \ Ahead /\ next \in SyncNexts BY <1>1, <1>2, <2>0
  <2> QED BY <2>1, <2>2, <2>3, LocalCallKeeps
<1>7. CASE CheckPVCRestored \/ CheckVolumeRestoreStatus
  <2>1. PICK next \in {"volCompleted", "volFailed", "annVolume", "return", "error"} :
           /\ Local(next) \/ CallFails(next)
           /\ next = "annVolume" => pc = "count"
    BY <1>7 DEF CheckPVCRestored, CheckVolumeRestoreStatus
  <2>2. pc \in {"checkPVC", "count"} BY <1>7 DEF CheckPVCRestored, CheckVolumeRestoreStatus
  <2>3. StageAt(next, w) BY <1>0, <2>1, <2>2 DEF StageAt
  <2>4. pc \in SyncPcs \ Ahead /\ next \in SyncNexts BY <1>1, <1>2, <2>2
  <2> QED BY <2>1, <2>3, <2>4, LocalCallKeeps
<1>8. CASE AnnotateVolumeRestore
  <2>0. /\ pc = "annVolume" /\ pc \in SyncPcs \ Ahead /\ pc \notin DeletePcs /\ pc # "idle"
        /\ "volCompleted" \in SyncNexts /\ "volCompleted" \in Nexts
    BY <1>1, <1>2, <1>8, PathPcs DEF AnnotateVolumeRestore, SyncNexts, Nexts
  <2>1. CASE Continue("volCompleted", w) /\ UNCHANGED <<apiVars, cache, processed, rcVars, volVars, envVars, countVars>>
    <3>1. Local("volCompleted") BY <2>1 DEF Local
    <3>2. StageAt("volCompleted", w) BY <1>0, <2>0 DEF StageAt
    <3> QED BY <2>0, <3>1, <3>2, LocalCallKeeps
  <2>2. CASE PatchRestore([api EXCEPT !.ann = @ \cup {"volume-restore-completed"}], "volCompleted")
    <3> DEFINE b == [api EXCEPT !.ann = @ \cup {"volume-restore-completed"}]
    <3>1. /\ b \in Restore /\ b.fin = api.fin /\ b.del = api.del /\ b.stage = api.stage
          /\ b.state = api.state
      BY <1>0, Annotated DEF Annotations
    <3> HIDE DEF b
    <3>2. WriteFrame /\ PatchOutcome(b, "volCompleted")
      BY <1>0, <2>0, <2>2, <3>1, PatchRestoreOutcome DEF b
    <3>3. MarksStay BY <3>1, <3>2 DEF PatchOutcome, Patched, Is, Kept, MarksStay
    <3>4. api.rv # 0 => StageAt("volCompleted", api)
      <4>1. Unfinished(w) /\ Rank(w) = 1 BY <1>0, <2>0, RankType DEF StageAt, Unfinished
      <4>2. api.rv # 0 => Agrees(pc, w, api) /\ Lags(pc, w, api) BY <2>0, OnTheWay
      <4>3. api.rv # 0 => Rank(api) = 1
        BY <1>0, <2>0, <4>1, <4>2, RankType DEF Agrees, Lags
      <4> QED BY <1>0, <4>3, RankType DEF StageAt
    <3> QED BY <1>3, <2>0, <3>1, <3>2, <3>3, <3>4, PatchKeeps
  <2> QED BY <1>8, <2>1, <2>2 DEF AnnotateVolumeRestore, AnnotateRestore
<1>9. ASSUME NEW next \in SyncNexts, LocalOutcome(next), WorkerFrame, pc \in SyncPcs,
             next \notin Ahead \cup {"return", "error"} => pc \notin Ahead, StageAt(next, w)
      PROVE  StatusInv'
  BY <1>3, <1>9, LocalKeeps, PathPcs
<1>10. CASE PrepareVolumeRestore
  <2>0. pc = "prepare" /\ w.stage = "Volumes" BY <1>0, <1>10 DEF PrepareVolumeRestore, StageAt
  <2>1. CASE CallFails("error") \/ Local("error")
    BY <1>1, <1>2, <2>0, <2>1, LocalCallKeeps DEF StageAt
  <2>2. CASE /\ attempt < MaxAttempts
             /\ attempt' = attempt + 1
             /\ Continue(IF backed = {} THEN "processing" ELSE "createVRC", w)
             /\ UNCHANGED <<apiVars, cache, processed, rcVars, wanted, backed, vrc, vdel, vclean,
                            bound, envVars, countVars>>
    <3>1. PICK next \in {"processing", "createVRC"} : Continue(next, w) BY <2>2
    <3>2. CountType BY <1>0, <2>2, CountKept
    <3>3. attempt' \in 0..MaxAttempts BY <1>0, <2>2, RestoreAssumption DEF TypeOK
    <3>4. next \in Nexts BY <3>1 DEF Nexts, Pcs
    <3>5. WorkerFrame /\ LocalOutcome(next)
      BY <1>0, <2>2, <3>1, <3>2, <3>3, <3>4, OtherStep DEF TypeOK, envVars
    <3>6. StageAt(next, w) BY <2>0 DEF StageAt
    <3> QED BY <1>1, <1>2, <1>9, <2>0, <3>1, <3>5, <3>6
  <2> QED BY <1>10, <2>1, <2>2 DEF PrepareVolumeRestore
<1>11. CASE CreateVRC
  <2>0. pc = "createVRC" /\ w.stage = "Volumes" BY <1>0, <1>11 DEF CreateVRC, StageAt
  <2>1. PICK next \in {"processing", "createVRC", "error"} : WorkerFrame /\ LocalOutcome(next)
    BY <1>0, <1>11, CreateVRCStep
  <2>2. StageAt(next, w) BY <2>0 DEF StageAt
  <2> QED BY <1>1, <1>2, <1>9, <2>0, <2>1, <2>2
<1>12. CASE ApplyResources \/ RunPostHooks
  <2>1. PICK next \in {"appliedAll", "resFailed", "hooksDone"} :
           /\ EnvStep(next)
           /\ next = "appliedAll" => pc = "apply"
           /\ next = "hooksDone" => pc = "hooks"
    BY <1>12 DEF ApplyResources, RunPostHooks
  <2>2. pc \in {"apply", "hooks"} BY <1>12 DEF ApplyResources, RunPostHooks
  <2>3. WorkerFrame /\ LocalOutcome(next)
    <3>1. applied' \in {"none", "kept", "some", "all"} /\ hooked' \in BOOLEAN
      BY <1>0, <1>12, Zenon DEF ApplyResources, RunPostHooks, TypeOK
    <3>2. CountType BY <1>0, <2>1, CountKept DEF EnvStep
    <3>3. next \in Nexts BY <2>1 DEF Nexts, Pcs
    <3> QED BY <1>0, <2>1, <3>1, <3>2, <3>3, OtherStep DEF EnvStep, TypeOK, volVars
  <2>4. StageAt(next, w) BY <1>0, <2>1, <2>2 DEF StageAt
  <2>5. next \in Ahead \/ pc \notin Ahead BY <2>1, <2>2 DEF Ahead
  <2> QED BY <1>1, <1>2, <1>9, <2>1, <2>2, <2>3, <2>4, <2>5
<1>13. CASE Finish
  <2>0. pc = "finished" /\ pc \in SyncPcs /\ "return" \in SyncNexts /\ "Completed" \in States
    BY <1>1, <1>2, <1>13, Values DEF Finish
  <2>1. StageAt("return", w) /\ StageAt("return", WithState("Completed")) BY DEF StageAt
  <2>2. CASE Local("return") BY <2>0, <2>1, <2>2, LocalCallKeeps
  <2>3. CASE UpdateRestoreStatus(WithState("Completed"), "return", "return")
    BY <1>0, <2>0, <2>1, <2>3, StateChanged, StatusCallKeeps
  <2> QED BY <1>13, <2>2, <2>3 DEF Finish
<1> QED BY <1>4, <1>5, <1>6, <1>7, <1>8, <1>10, <1>11, <1>12, <1>13

\* Taking the key: the copy the store lets through is new enough.
LEMMA ProcessQueueKeepsStatus ==
    ASSUME StatusInv, ProcessQueue
    PROVE  StatusInv'
<1>0. /\ DeletionInv /\ TypeOK /\ CopiesAgree /\ ProcessedBounds /\ CopiesLag /\ pc = "idle"
      /\ api \in Restore /\ cache \in Restore /\ processed \in Nat
  BY LagParts DEF StatusInv, DeletionInv, TypeOK, ProcessQueue
<1>1. QueueOutcome BY <1>0, ProcessQueueStep
<1>2. DeletionInv' BY <1>0, ProcessQueueKeeps
<1>3. WorkerFrame /\ Stored /\ MarksStay /\ api' = api
  BY <1>1 DEF QueueOutcome, WorkerFrame, Kept, Stored, MarksStay
<1>4. api.rv \in Nat /\ cache.rv \in Nat /\ Rank(api) \in 0..4 BY <1>0, RankType DEF Restore
<1>5. Forward BY <1>3, <1>4 DEF Forward
<1>6. cache \in Copies BY CopyCases
<1>7. processed' >= processed /\ (processed' <= api'.rv \/ api.rv = 0)
  BY <1>0, <1>1, <1>3, <1>4, <1>6 DEF QueueOutcome, CopiesAgree, ProcessedBounds
<1>8. CASE pc' = "idle" BY <1>2, <1>3, <1>5, <1>7, <1>8, WorkerMoves
<1>9. CASE pc' # "idle"
  <2>1. /\ w' = cache /\ pc' = (IF cache.del THEN "delVRC" ELSE "finalizer")
        /\ processed' = cache.rv /\ processed <= cache.rv /\ cache.rv # 0
    BY <1>0, <1>1, <1>9 DEF QueueOutcome
  <2>2. StageAt(pc', w') BY <2>1 DEF StageAt
  <2>3. ASSUME api.rv # 0 PROVE Agrees(pc', w', api') /\ Lags(pc', w', api')
    <3>1. Rank(cache) <= Rank(api) /\ (cache.rv = api.rv => cache = api)
      BY <1>0, <1>6, <2>3 DEF CopiesAgree
    <3>2. Agrees(pc', w', api') BY <1>3, <1>4, <2>1, <3>1 DEF Agrees
    <3>3. ~cache.del => (Unfinished(cache) => Rank(api) <= 1) /\ (~cache.fin => Rank(api) = 0)
      BY <1>0, <1>6, <2>1, <2>3 DEF CopiesLag
    <3>4. cache.del => pc' \in DeletePcs BY <2>1 DEF DeletePcs
    <3>5. Lags(pc', w', api') BY <1>3, <2>1, <3>3, <3>4 DEF Lags
    <3> QED BY <3>2, <3>5
  <2>4. w'.rv <= processed' BY <1>4, <2>1
  <2> QED BY <1>2, <1>3, <1>5, <1>7, <2>2, <2>3, <2>4, WorkerMoves
<1> QED BY <1>8, <1>9

\* Setting the finalizer: a copy without it is one of a Restore nobody worked on.
LEMMA EnsureFinalizerKeepsStatus ==
    ASSUME StatusInv, EnsureFinalizer
    PROVE  StatusInv'
<1> DEFINE b == [api EXCEPT !.fin = TRUE]
<1>0. DeletionInv /\ TypeOK /\ pc = "finalizer" /\ api \in Restore /\ w \in Restore /\ pc # "idle"
  BY DEF StatusInv, DeletionInv, TypeOK, EnsureFinalizer
<1>1. PICK next \in {"init", "populate"} :
         /\ next = "init" <=> w.stage \in {"unset", "Initial"}
         /\ (w.fin /\ LocalOutcome(next)) \/ (~w.fin /\ PatchOutcome(b, next))
  BY <1>0, EnsureFinalizerStep
<1>2. WriteFrame /\ b.fin /\ b.del = api.del /\ b.stage = api.stage /\ b.state = api.state
  BY <1>0, EnsureFinalizerStep
<1>3. b \in Restore BY <1>0 DEF Restore
<1> HIDE DEF b
<1>4. DeletionInv' BY <1>0, EnsureFinalizerKeeps
<1>5. next \in SyncNexts /\ pc \notin Ahead /\ pc \notin DeletePcs
  BY <1>0, PathPcs, AheadPcs DEF SyncNexts, SyncPcs, DeletePcs, Pcs
<1>6. CASE w.fin
  <2>1. StageAt(next, w) BY <1>0, <1>1, RankType DEF StageAt
  <2> QED BY <1>0, <1>1, <1>2, <1>4, <1>5, <1>6, <2>1, LocalKeeps DEF WriteFrame
<1>7. CASE ~w.fin
  <2>1. api.rv # 0 => Rank(api) = 0 BY <1>0, <1>7, OnTheWay DEF Lags
  <2>2. api.rv # 0 => StageAt(next, api) BY <1>1, <2>1 DEF StageAt
  <2>3. MarksStay BY <1>1, <1>2, <1>7 DEF PatchOutcome, Patched, Is, Kept, MarksStay
  <2> QED BY <1>0, <1>1, <1>2, <1>3, <1>4, <1>5, <1>7, <2>2, <2>3, PatchKeeps
<1> QED BY <1>6, <1>7

\* The calls of deleteRestore do not depend on the stage.
LEMMA DeleteStage ==
    ASSUME NEW at \in DeletePcs \cup {"return", "error"}, NEW b
    PROVE  StageAt(at, b)
BY DEF StageAt, DeletePcs

\* deleteRestore up to its last call writes an annotation at most.
LEMMA DeletersKeepStatus ==
    ASSUME StatusInv,
           RemoveVolumeRestore \/ CleanupRestoredMetadata \/ AnnotateCleaned \/ ListVolumeRestore
    PROVE  StatusInv'
<1>0. DeletionInv /\ TypeOK /\ api \in Restore BY DEF StatusInv, DeletionInv, TypeOK
<1>1. /\ {"delVRC", "cleanup", "annCleaned", "delList", "delFinalizer"} \subseteq Nexts
      /\ "return" \in Nexts /\ "error" \in Nexts
  BY DEF Nexts, Pcs
<1>2. pc \in DeletePcs /\ pc # "idle" /\ pc \notin Ahead
  BY AheadPcs, PathPcs
     DEF RemoveVolumeRestore, CleanupRestoredMetadata, AnnotateCleaned, ListVolumeRestore, DeletePcs
<1>3. DeletionInv' BY <1>0, DeletersKeep
<1>4. ASSUME NEW next \in DeletePcs \cup {"return", "error"}, LocalOutcome(next), WorkerFrame
      PROVE  StatusInv'
  <2>1. next \in SyncNexts \cup DeletePcs BY <1>4 DEF SyncNexts
  <2> QED BY <1>2, <1>3, <1>4, <2>1, DeleteStage, LocalKeeps
<1>5. CASE RemoveVolumeRestore
  BY <1>0, <1>4, <1>5, RemoveVolumeRestoreStep DEF DeletePcs
<1>6. CASE CleanupRestoredMetadata
  BY <1>0, <1>4, <1>6, CleanupStep DEF DeletePcs
<1>7. CASE ListVolumeRestore
  <2>1. PICK next \in {"delFinalizer", "return", "error"} : Local(next) \/ CallFails(next)
    BY <1>7 DEF ListVolumeRestore
  <2> QED BY <1>0, <1>1, <1>4, <2>1, LocalStep DEF DeletePcs, WriteFrame
<1>8. CASE AnnotateCleaned
  <2> DEFINE b == [api EXCEPT !.ann = @ \cup {"restore-cleanup-done"}]
  <2>1. /\ b \in Restore /\ b.fin = api.fin /\ b.del = api.del /\ b.stage = api.stage
        /\ b.state = api.state
    BY <1>0, Annotated DEF Annotations
  <2>2. PatchRestore(b, "delList") BY <1>8 DEF AnnotateCleaned
  <2> HIDE DEF b
  <2>3. WriteFrame /\ PatchOutcome(b, "delList") BY <1>0, <1>1, <2>1, <2>2, PatchRestoreOutcome
  <2>4. MarksStay BY <2>1, <2>3 DEF PatchOutcome, Patched, Is, Kept, MarksStay
  <2>5. "delList" \in DeletePcs /\ StageAt("delList", api) BY DeleteStage DEF DeletePcs
  <2> QED BY <1>2, <1>3, <2>1, <2>3, <2>4, <2>5, PatchKeeps
<1> QED BY <1>5, <1>6, <1>7, <1>8

\* Without an object nothing has to agree.
LEMMA GoneAgrees ==
    ASSUME DeletionInv', api'.rv = 0, StageAt(pc', w')
    PROVE  StatusInv'
<1>1. CopiesAgree' /\ ProcessedBounds' /\ WorkerAgrees' BY DEF CopiesAgree, ProcessedBounds, WorkerAgrees
<1>2. FinFirst' /\ CopiesLag' /\ WorkerLag' BY DEF FinFirst, CopiesLag, WorkerLag
<1> QED BY <1>1, <1>2, LagPartsNext, WorkerStageAt DEF StatusInv

\* The end of a deletion: the key is forgotten, and every copy is one of the deletion.
LEMMA RemoveFinalizerKeepsStatus ==
    ASSUME StatusInv, RemoveFinalizer
    PROVE  StatusInv'
<1>0. /\ DeletionInv /\ TypeOK /\ DeletionOrdered /\ DeleterKnows /\ pc = "delFinalizer"
      /\ CopiesAgree /\ FinFirst
  BY LagParts DEF StatusInv, DeletionInv, RemoveFinalizer
<1>1. TypeOK' /\ WriteFrame /\ Stopped /\ processed' = 0 /\ (Kept \/ (api.rv # 0 /\ Remove))
  BY <1>0, RemoveFinalizerStep
<1>2. DeletionInv' BY <1>0, RemoveFinalizerKeeps
<1>3. StageAt(pc', w') BY <1>1, IdleFits DEF Stopped
<1>4. CASE api'.rv = 0 BY <1>2, <1>3, <1>4, GoneAgrees
<1>5. CASE api'.rv # 0
  <2>1. Kept /\ api' = api /\ cache' = cache /\ rc' = rc /\ pc' = "idle"
    BY <1>1, <1>5, NoRestoreType DEF Remove, Kept, WriteFrame, WorkerFrame, rcVars, Stopped
  <2>2. Copies' = Copies BY <2>1 DEF Copies, Kept
  <2>3. CopiesAgree' /\ FinFirst' BY <1>0, <2>1, <2>2 DEF CopiesAgree, FinFirst, Rank
  <2>4. ProcessedBounds'
    BY <1>0, <1>1, <2>1 DEF ProcessedBounds, TypeOK, Restore
  <2>5. \A c \in Copies : Gone(c)
    BY <1>0, <1>5, <2>1, CopyCases DEF DeletionOrdered, DeleterKnows, DeletePcs, Gone
  <2>6. CopiesLag' BY <2>2, <2>5 DEF CopiesLag, Gone
  <2>7. WorkerAgrees' /\ WorkerLag' BY <2>1, WorkerParts, IdleFits
  <2> QED BY <1>2, <1>3, <2>3, <2>4, <2>6, <2>7, LagPartsNext, WorkerStageAt DEF StatusInv
<1> QED BY <1>4, <1>5

\* Every step of the worker keeps the objects in agreement.
LEMMA WorkerKeepsStatus ==
    ASSUME StatusInv, Worker
    PROVE  StatusInv'
BY ProcessQueueKeepsStatus, EnsureFinalizerKeepsStatus, WritersKeepStatus, SyncersKeepStatus,
   DeletersKeepStatus, RemoveFinalizerKeepsStatus, Zenon DEF Worker

\* A write of somebody else that keeps the stage makes the worker's copy old.
LEMMA OthersKeepStatus ==
    ASSUME StatusInv, DeletionInv', Stored, MarksStay, UNCHANGED <<cache, workerVars, processed>>,
           rc' \in {rc, cache, NoRestore}, api.rv # 0 => api'.stage = api.stage
    PROVE  StatusInv'
<1>0. /\ TypeOK /\ TypeOK' /\ cache' = cache /\ pc' = pc /\ w' = w /\ processed' = processed
      /\ ProcessedBounds /\ WorkerAgrees /\ WorkerLag /\ WorkerStage
      /\ api \in Restore /\ api' \in Restore /\ w \in Restore /\ processed \in Nat
  BY LagParts DEF StatusInv, DeletionInv, TypeOK, workerVars
<1>1. api.rv \in Nat /\ api'.rv \in Nat /\ w.rv \in Nat BY <1>0 DEF Restore
<1>2. api.rv # 0 => Rank(api') = Rank(api) BY <1>0, SameRank
<1>3. Rank(api) \in 0..4 BY <1>0, RankType
<1>4. Forward BY <1>2, <1>3 DEF Forward
<1>5. (api.rv = 0 => api'.rv = 0) /\ (api.rv # 0 => api'.rv # 0 /\ api'.rv >= api.rv)
  BY <1>0, StoredCopies
<1>6. processed' >= processed /\ (processed' <= api'.rv \/ api.rv = 0)
  BY <1>0, <1>1, <1>5 DEF ProcessedBounds
<1>7. CopiesAgree' /\ FinFirst' /\ CopiesLag' BY <1>0, <1>4, <1>6, ForwardKeeps
<1>8. ProcessedBounds' BY <1>0, <1>5, <1>6 DEF ProcessedBounds
<1>9. WorkerAgrees' /\ WorkerLag'
  <2>1. CASE api'.rv = 0 BY <2>1, WorkerParts
  <2>2. CASE api'.rv # 0
    <3>1. api.rv # 0 BY <1>5, <2>2
    <3>2. Lags(pc, w, api) /\ (pc # "idle" => Agrees(pc, w, api) /\ w.rv <= api.rv)
      BY <1>0, <1>1, <3>1, WorkerParts DEF ProcessedBounds
    <3>3. Lags(pc, w, api') BY <1>2, <3>1, <3>2 DEF Lags
    <3>4. pc # "idle" => Agrees(pc, w, api')
      <4>1. CASE Kept BY <3>2, <4>1 DEF Kept
      <4>2. CASE api'.rv = api.rv + 1
        <5>1. pc # "idle" => w.rv # api'.rv BY <1>1, <3>2, <4>2
        <5> QED BY <1>2, <3>1, <3>2, <5>1 DEF Agrees
      <4> QED BY <4>1, <4>2 DEF Stored
    <3> QED BY <1>0, <3>3, <3>4, WorkerParts
  <2> QED BY <2>1, <2>2
<1>10. WorkerStage' BY <1>0, WorkerStageAt
<1> QED BY <1>7, <1>8, <1>9, <1>10, LagPartsNext DEF StatusInv

\* The reconciler marks as failed only the object it read.
LEMMA ReconcilerKeepsStatus ==
    ASSUME StatusInv, Reconciler
    PROVE  StatusInv'
<1>0. DeletionInv /\ TypeOK /\ HandlersHold /\ CopiesAgree BY DEF StatusInv, DeletionInv
<1>1. ReconcilerOutcome BY <1>0, ReconcilerStep
<1>2. DeletionInv' BY <1>0, ReconcilerKeeps
<1>3. Stored /\ MarksStay
  BY <1>1 DEF ReconcilerOutcome, Stored, Kept, MarksStay, Is
<1>4. api.rv # 0 => api'.stage = api.stage
  BY <1>0, <1>1 DEF ReconcilerOutcome, Kept, Is, CopiesAgree
<1> QED BY <1>1, <1>2, <1>3, <1>4, OthersKeepStatus DEF ReconcilerOutcome

\* A delivery gives the lister a copy that was already on its way.
LEMMA InformerKeepsStatus ==
    ASSUME StatusInv, Informer
    PROVE  StatusInv'
<1>0. /\ DeletionInv /\ TypeOK /\ CopiesAgree /\ ProcessedBounds /\ WorkerAgrees /\ WorkerStage
      /\ FinFirst /\ CopiesLag /\ WorkerLag
  BY LagParts DEF StatusInv, DeletionInv
<1>1. DeletionInv' BY <1>0, InformerKeeps
<1>2. /\ api' = api /\ pc' = pc /\ w' = w /\ rc' = rc /\ processed' = processed
      /\ Copies' \subseteq Copies
  BY <1>0, Delivered DEF Informer, workerVars, rcVars
<1>3. CopiesAgree' BY <1>0, <1>2 DEF CopiesAgree, Rank
<1>4. ProcessedBounds' BY <1>0, <1>2 DEF ProcessedBounds
<1>5. FinFirst' /\ CopiesLag' BY <1>0, <1>2 DEF FinFirst, CopiesLag, Rank, Unfinished
<1>6. WorkerAgrees' /\ WorkerLag' BY <1>0, <1>2, WorkerParts
<1>7. WorkerStage' BY <1>0, <1>2, WorkerStageAt
<1> QED BY <1>1, <1>3, <1>4, <1>5, <1>6, <1>7, LagPartsNext DEF StatusInv

\* The user's deletion keeps the stage, or takes the object away.
LEMMA UserDeleteKeepsStatus ==
    ASSUME StatusInv, UserDelete
    PROVE  StatusInv'
<1> DEFINE b == [api EXCEPT !.del = TRUE]
<1>0. DeletionInv /\ TypeOK /\ WorkerStage /\ api.rv # 0 /\ api \in Restore
  BY DEF StatusInv, DeletionInv, TypeOK, UserDelete
<1>1. DeletionInv' BY <1>0, UserDeleteKeeps
<1>2. UNCHANGED <<cache, workerVars, processed>> /\ rc' = rc /\ pc' = pc /\ w' = w
  BY DEF UserDelete, EnvUnchanged, rcVars, workerVars
<1>3. CASE api.fin
  <2>1. Commit(b) BY <1>3 DEF UserDelete
  <2>2. b \in Restore /\ b.fin = api.fin /\ b.del /\ b.stage = api.stage BY <1>0 DEF Restore
  <2> HIDE DEF b
  <2>3. Stored /\ Is(b) BY <1>0, <2>1, <2>2, CommitStores DEF TypeOK
  <2>4. MarksStay /\ api'.stage = api.stage BY <2>2, <2>3 DEF MarksStay, Is
  <2> QED BY <1>1, <1>2, <2>3, <2>4, OthersKeepStatus
<1>4. CASE ~api.fin
  <2>1. api'.rv = 0 BY <1>4, NoRestoreType DEF UserDelete, Remove
  <2>2. StageAt(pc', w') BY <1>0, <1>2, WorkerStageAt
  <2> QED BY <1>1, <2>1, <2>2, GoneAgrees
<1> QED BY <1>3, <1>4

\* Other writers and the volume restore service keep the stage.
LEMMA EnvironmentKeepsStatus ==
    ASSUME StatusInv, UserTouch \/ ServiceFinishes \/ ServiceRemoves
    PROVE  StatusInv'
<1>0. DeletionInv /\ TypeOK /\ api \in Restore BY DEF StatusInv, DeletionInv, TypeOK
<1>1. DeletionInv' BY <1>0, EnvironmentKeeps
<1>2. UNCHANGED <<cache, workerVars, processed>> /\ rc' = rc
  BY DEF UserTouch, ServiceFinishes, ServiceRemoves, EnvUnchanged, rcVars
<1>3. Stored /\ MarksStay /\ api'.stage = api.stage
  <2>1. CASE UserTouch
    <3>1. api.rv # 0 /\ api' = [api EXCEPT !.rv = @ + 1] /\ watch' = Append(watch, api')
      BY <2>1 DEF UserTouch
    <3>2. /\ api'.rv = api.rv + 1 /\ api'.fin = api.fin /\ api'.del = api.del
          /\ api'.stage = api.stage
      BY <1>0, <3>1 DEF Restore
    <3> QED BY <3>1, <3>2 DEF Stored, MarksStay
  <2>2. CASE ServiceFinishes \/ ServiceRemoves
    BY <2>2 DEF ServiceFinishes, ServiceRemoves, apiVars, Stored, Kept, MarksStay
  <2> QED BY <2>1, <2>2
<1> QED BY <1>1, <1>2, <1>3, OthersKeepStatus

\* After a crash the informer lists the object, and there is no other copy.
LEMMA CrashKeepsStatus ==
    ASSUME StatusInv, Crash
    PROVE  StatusInv'
<1>0. DeletionInv /\ TypeOK /\ FinFirst /\ api \in Restore BY LagParts DEF StatusInv, DeletionInv, TypeOK
<1>1. DeletionInv' BY <1>0, CrashKeeps
<1>2. /\ api' = api /\ Copies' = {api} /\ rc' = NoRestore /\ pc' = "idle" /\ processed' = 0
  <2>1. cache' = api /\ watch' = <<>> /\ DOMAIN watch' = {} BY DEF Crash
  <2>2. Copies' = {api} BY <2>1 DEF Copies
  <2> QED BY <2>2 DEF Crash
<1>3. Rank(api) \in 0..4 /\ api.rv \in Nat /\ NoRestore.rv = 0 BY <1>0, RankType, NoRestoreType DEF Restore
<1>4. CopiesAgree'
  <2>1. api.rv # 0 => \A c \in Copies' \cup {rc'} : c.rv <= api'.rv /\ (c.rv = api'.rv => c = api')
    BY <1>2, <1>3
  <2>2. \A c \in Copies' : Rank(c) <= Rank(api') BY <1>2, <1>3
  <2> QED BY <1>2, <2>1, <2>2 DEF CopiesAgree, Rank
<1>5. ProcessedBounds' BY <1>2, <1>3 DEF ProcessedBounds
<1>6. Unfinished(api) => Rank(api) <= 1 BY <1>0, UnfinishedRank
<1>7. FinFirst' /\ CopiesLag' BY <1>0, <1>2, <1>6 DEF FinFirst, CopiesLag, Rank, Unfinished
<1>8. WorkerAgrees' /\ WorkerLag' BY <1>2, WorkerParts, IdleFits
<1>9. WorkerStage' BY <1>2, WorkerStageAt, IdleFits
<1> QED BY <1>1, <1>4, <1>5, <1>7, <1>8, <1>9, LagPartsNext DEF StatusInv

\* In the initial state there is a new object and no copy of it.
LEMMA InitStatus == Init => StatusInv
<1> SUFFICES ASSUME Init PROVE StatusInv
  OBVIOUS
<1>1. DeletionInv BY InitDeletion
<1>2. /\ api \in Restore /\ api.rv = 1 /\ api.stage = "unset"
      /\ watch = <<api>> /\ cache = NoRestore /\ rc = NoRestore /\ pc = "idle" /\ processed = 0
  BY NoRestoreType DEF Init, Restore, NoRestore
<1>3. Copies = {NoRestore, api} BY <1>2 DEF Copies
<1>4. Rank(api) = 0 /\ Rank(NoRestore) = 0 BY <1>2, RankOf, NoRestoreType
<1>5. CopiesAgree /\ ProcessedBounds
  BY <1>2, <1>3, <1>4, NoRestoreType DEF CopiesAgree, ProcessedBounds
<1>6. FinFirst /\ CopiesLag BY <1>3, <1>4, NoRestoreType DEF FinFirst, CopiesLag
<1>7. WorkerAgrees /\ WorkerLag BY <1>2, WorkerParts, IdleFits
<1>8. WorkerStage BY <1>2, WorkerStageAt, IdleFits
<1> QED BY <1>1, <1>5, <1>6, <1>7, <1>8, LagParts DEF StatusInv

\* Every step keeps the objects in agreement.
LEMMA NextKeepsStatus ==
    ASSUME StatusInv, [Next]_vars
    PROVE  StatusInv'
<1>1. CASE UNCHANGED vars
  <2>1. DeletionInv' BY <1>1, NextKeepsDeletion DEF StatusInv
  <2>2. Stored /\ MarksStay /\ UNCHANGED <<cache, workerVars, processed>> /\ rc' = rc /\ api' = api
    BY <1>1 DEF vars, Stored, Kept, MarksStay, workerVars
  <2> QED BY <2>1, <2>2, OthersKeepStatus
<1>2. CASE Next
  BY <1>2, WorkerKeepsStatus, ReconcilerKeepsStatus, InformerKeepsStatus, UserDeleteKeepsStatus,
     EnvironmentKeepsStatus, CrashKeepsStatus
     DEF Next, PrepareVolumePanics
<1> QED BY <1>1, <1>2

\* What a status write relies on holds in every state: a copy with the server's revision
\* is the server's object, the store lets no copy through that is older than the last
\* write of the worker, and the worker's calls agree with the stage of its copy.
THEOREM StatusInOrder == Spec => []StatusInv
<1>1. Init => StatusInv BY InitStatus
<1>2. StatusInv /\ [Next]_vars => StatusInv' BY NextKeepsStatus
<1> QED BY <1>1, <1>2, PTL DEF Spec

-----------------------------------------------------------------------------
(* What a step leaves behind: objects with a status known before, or the one written *)

\* The status of c is that of an object in S.
From(c, S) == \E d \in S : c.stage = d.stage /\ c.state = d.state

\* After a step of the worker that wrote, at most, the status of b
Fresh(b) ==
    \A c \in Copies' \cup {api', w'} : c = NoRestore \/ From(c, Copies \cup {api, w, b})
Onward(b, next) ==
    Stored /\ MarksStay /\ cache' = cache /\ Fresh(b) /\ pc' \in {next, "idle"}

\* A call that goes on with the object, with b or not at all
LEMMA OnwardFrom ==
    ASSUME TypeOK, TypeOK', WorkerFrame, NEW b \in Restore, NEW next, Stored, MarksStay,
           api'.rv # 0 => From(api', {api, b}) \/ api' = api,
           w' = NoRestore \/ From(w', Copies \cup {w, b}) \/ (w' = api' /\ api.rv # 0),
           pc' \in {next, "idle"}, api.rv = 0 => api = NoRestore
    PROVE  Onward(b, next)
<1>1. cache' = cache BY DEF WorkerFrame
<1>2. api' = NoRestore \/ From(api', Copies \cup {api, w, b})
  <2>1. CASE api'.rv = 0 BY <1>1, <2>1, StoredCopies
  <2>2. CASE api'.rv # 0 BY <2>2 DEF From
  <2> QED BY <2>1, <2>2
<1>3. w' = NoRestore \/ From(w', Copies \cup {api, w, b}) BY <1>2 DEF From
<1>4. ASSUME NEW c \in Copies' PROVE c = NoRestore \/ From(c, Copies \cup {api, w, b})
  <2>1. c \in Copies \/ c = api' BY <1>1, StoredCopies
  <2> QED BY <1>2, <2>1 DEF From
<1> QED BY <1>1, <1>2, <1>3, <1>4 DEF Onward, Fresh

\* A status write of syncRestore leaves at most the status of b behind.
LEMMA StatusOnward ==
    ASSUME DeletionInv, pc \in SyncPcs, NEW b \in Restore, b.rv = w.rv, NEW next \in Nexts, NEW onError,
           UpdateRestoreStatus(b, next, onError)
    PROVE  Onward(b, next) /\ UNCHANGED <<volVars, envVars>>
<1>0. TypeOK /\ b.rv # 0 /\ RemovedIsEmpty BY PathPcs DEF DeletionInv, HandlersHold
<1>1. TypeOK' /\ WriteFrame /\ IgnoredOutcome(b, next) BY <1>0, UpdateStatusOutcome
<1>2. Stored /\ MarksStay
  BY <1>1 DEF IgnoredOutcome, StatusOutcome, Wrote, Stored, Kept, MarksStay
<1>3. From(api', {api, b}) BY <1>1 DEF IgnoredOutcome, StatusOutcome, Wrote, Kept, From
<1>4. w' = NoRestore \/ From(w', Copies \cup {w, b}) \/ (w' = api' /\ api.rv # 0)
  BY <1>1 DEF IgnoredOutcome, StatusOutcome, Wrote, Leads, Stopped, From
<1>5. pc' \in {next, "idle"} BY <1>1 DEF IgnoredOutcome, StatusOutcome, Leads, Stopped
<1> QED BY <1>0, <1>1, <1>2, <1>3, <1>4, <1>5, OnwardFrom DEF WriteFrame, RemovedIsEmpty

\* A patch leaves the status as it was.
LEMMA PatchOnward ==
    ASSUME DeletionInv, NEW b \in Restore, NEW next \in Nexts, PatchRestore(b, next),
           api.fin => b.fin, b.del = api.del, b.stage = api.stage, b.state = api.state
    PROVE  Onward(w, next) /\ UNCHANGED <<volVars, envVars>>
<1>0. TypeOK /\ RemovedIsEmpty /\ w \in Restore BY DEF DeletionInv, TypeOK
<1>1. TypeOK' /\ WriteFrame /\ PatchOutcome(b, next) BY <1>0, PatchRestoreOutcome
<1>2. Stored /\ MarksStay BY <1>1 DEF PatchOutcome, Patched, Is, Stored, Kept, MarksStay
<1>3. From(api', {api, w}) BY <1>1 DEF PatchOutcome, Patched, Is, Kept, From
<1>4. w' = NoRestore \/ (w' = api' /\ api.rv # 0)
  BY <1>1 DEF PatchOutcome, Patched, Leads, Stopped
<1>5. pc' \in {next, "idle"} BY <1>1 DEF PatchOutcome, Leads, Stopped
<1> QED BY <1>0, <1>1, <1>2, <1>3, <1>4, <1>5, OnwardFrom DEF WriteFrame, RemovedIsEmpty

\* So does a step that writes nothing.
LEMMA LocalOnward ==
    ASSUME DeletionInv, TypeOK', WorkerFrame, NEW next, LocalOutcome(next)
    PROVE  Onward(w, next)
<1>0. TypeOK /\ RemovedIsEmpty /\ w \in Restore BY DEF DeletionInv, TypeOK
<1>1. Stored /\ MarksStay /\ From(api', {api, w}) BY DEF LocalOutcome, Stored, Kept, MarksStay, From
<1>2. w' = NoRestore \/ From(w', Copies \cup {w}) BY DEF LocalOutcome, Leads, From
<1>3. pc' \in {next, "idle"} BY DEF LocalOutcome, Leads
<1> QED BY <1>0, <1>1, <1>2, <1>3, OnwardFrom DEF RemovedIsEmpty, From

-----------------------------------------------------------------------------
(* What the stages promise *)

PromisesTrue == ResourcesTrue /\ VolumesTrue

\* The promises of one object, those of a call, and what is known of the volumes
Honest(c) ==
    /\ Rank(c) >= 3 => applied = "all"
    /\ HooksRan(c) => hooked
    /\ attempt <= 1 /\ VolumesDone(c) => wanted \subseteq bound
CallHonest(at) ==
    /\ at \in {"appliedAll", "toPostHook"} => applied = "all"
    /\ at \in {"hooksDone", "resCompleted"} => hooked
    /\ at = "createVRC" => attempt # 0
    /\ attempt <= 1 /\ at \in {"annVolume", "volCompleted"} => wanted \subseteq bound
VolumesKnown ==
    /\ vdel = {}
    /\ \A v \in LiveVRCs : v[1] <= attempt /\ v[2] \in backed
    /\ \A v \in LiveVRCs : vrc[v] = "Completed" => v[2] \in bound

\* The promises, put together from these
LEMMA PromiseParts ==
    /\ PromisesTrue <=>
          (Alive => /\ \A c \in Copies \cup {api, w} : Honest(c)
                    /\ CallHonest(pc) /\ VolumesKnown)
    /\ PromisesTrue' <=>
          (Alive' => /\ \A c \in Copies' \cup {api', w'} : Honest(c)'
                     /\ CallHonest(pc)' /\ VolumesKnown')
BY DEF PromisesTrue, ResourcesTrue, VolumesTrue, Honest, CallHonest, VolumesKnown

\* Nothing that was promised is undone.
Lasting ==
    /\ applied = "all" => applied' = "all"
    /\ hooked => hooked'
    /\ attempt \in Nat /\ attempt' \in Nat /\ attempt' >= attempt
    /\ wanted' = wanted /\ bound \subseteq bound'

\* What was promised stays true.
LEMMA HonestStays ==
    ASSUME Lasting, NEW c, Honest(c)
    PROVE  Honest(c)'
BY DEF Lasting, Honest

\* A promise depends on stage and state, and the empty object makes none.
LEMMA HonestStatus ==
    ASSUME NEW c \in Restore
    PROVE  /\ \A d \in Restore : c.stage = d.stage /\ c.state = d.state /\ Honest(d)' => Honest(c)'
           /\ c = NoRestore => Honest(c)'
<1>1. ASSUME NEW d \in Restore, c.stage = d.stage, c.state = d.state, Honest(d)'
      PROVE  Honest(c)'
  <2>1. Rank(c) = Rank(d) BY <1>1, SameRank
  <2>2. (HooksRan(c) <=> HooksRan(d)) /\ (VolumesDone(c) <=> VolumesDone(d))
    BY <1>1, <2>1 DEF HooksRan, VolumesDone
  <2> QED BY <1>1, <2>1, <2>2 DEF Honest
<1>2. ASSUME c = NoRestore PROVE Honest(c)'
  <2>1. Rank(c) = 0 /\ ~HooksRan(c) /\ ~VolumesDone(c)
    BY <1>2, NoRestoreType, RankOf DEF HooksRan, VolumesDone
  <2> QED BY <2>1 DEF Honest
<1> QED BY <1>1, <1>2

\* A step of the worker keeps the promises if it undoes nothing, and if what it writes and
\* the call it goes on with promise only what is so.
LEMMA PromisesKeep ==
    ASSUME DeletionInv, PromisesTrue, TypeOK', NEW b \in Restore, NEW next, Onward(b, next),
           Alive => Lasting /\ Honest(b)' /\ CallHonest(next)' /\ VolumesKnown'
    PROVE  PromisesTrue'
<1>0. TypeOK /\ api \in Restore /\ w \in Restore BY DEF DeletionInv, TypeOK
<1>1. Alive' => Alive
  BY <1>0, StoredCopies DEF Onward, MarksStay, Alive
<1>2. ASSUME Alive, NEW c \in Copies' \cup {api', w'} PROVE Honest(c)'
  <2>1. c \in Restore BY DEF TypeOK, Copies
  <2>2. CASE c = NoRestore BY <2>1, <2>2, HonestStatus
  <2>3. CASE From(c, Copies \cup {api, w, b})
    <3>1. PICK d \in Copies \cup {api, w, b} : c.stage = d.stage /\ c.state = d.state
      BY <2>3 DEF From
    <3>2. d \in Restore BY <1>0 DEF TypeOK, Copies
    <3>3. d = b \/ Honest(d) BY <1>2, PromiseParts
    <3>4. Honest(d)' BY <1>2, <3>3, HonestStays
    <3> QED BY <2>1, <3>1, <3>2, <3>4, HonestStatus
  <2> QED BY <2>2, <2>3 DEF Onward, Fresh
<1>3. Alive => CallHonest(pc)'
  <2>1. CallHonest("idle")' BY DEF CallHonest
  <2> QED BY <2>1 DEF Onward
<1> QED BY <1>1, <1>2, <1>3, PromiseParts

\* A status write that promises only what is so
LEMMA StatusPromises ==
    ASSUME StatusInv, PromisesTrue, pc \in SyncPcs, NEW next \in SyncNexts, NEW b \in Restore,
           b.rv = w.rv, NEW onError, UpdateRestoreStatus(b, next, onError),
           Alive => Honest(b) /\ CallHonest(next)
    PROVE  PromisesTrue'
<1>0. DeletionInv /\ TypeOK /\ next \in Nexts BY PathPcs DEF StatusInv, DeletionInv, SyncNexts, Nexts
<1>1. Onward(b, next) /\ UNCHANGED <<volVars, envVars>> BY <1>0, StatusOnward
<1>2. TypeOK' BY <1>0, StatusCall DEF DeletionInv
<1>3. Lasting BY <1>0, <1>1 DEF volVars, envVars, Lasting, TypeOK
<1>4. Alive => Honest(b)' BY <1>3, HonestStays
<1>5. Alive => CallHonest(next)' /\ VolumesKnown'
  BY <1>1, PromiseParts DEF volVars, envVars, CallHonest, VolumesKnown, LiveVRCs, VRCs
<1> QED BY <1>0, <1>1, <1>2, <1>3, <1>4, <1>5, PromisesKeep

\* A step of syncRestore that writes nothing and knows what it goes on with
LEMMA LocalPromises ==
    ASSUME StatusInv, PromisesTrue, pc \in SyncPcs, NEW next \in SyncNexts, Local(next) \/ CallFails(next),
           Alive => CallHonest(next)
    PROVE  PromisesTrue'
<1>0. DeletionInv /\ TypeOK /\ w \in Restore /\ next \in Nexts
  BY PathPcs DEF StatusInv, DeletionInv, TypeOK, SyncNexts, Nexts
<1>1. TypeOK' /\ WriteFrame /\ LocalOutcome(next) BY <1>0, LocalStep
<1> PICK b \in Restore : b = w BY <1>0
<1>2. Onward(b, next) /\ UNCHANGED <<volVars, envVars>> BY <1>0, <1>1, LocalOnward DEF WriteFrame
<1>3. Lasting BY <1>0, <1>2 DEF volVars, envVars, Lasting, TypeOK
<1>4. Alive => Honest(b)' BY <1>3, HonestStays, PromiseParts
<1>5. Alive => CallHonest(next)' /\ VolumesKnown'
  BY <1>2, PromiseParts DEF volVars, envVars, CallHonest, VolumesKnown, LiveVRCs, VRCs
<1> QED BY <1>0, <1>1, <1>2, <1>3, <1>4, <1>5, PromisesKeep

\* Another state promises more only in the stages Volumes and PostHook.
LEMMA StateHonest ==
    ASSUME w \in Restore, NEW state \in States, Honest(w),
           state = "Completed" /\ w.stage = "Volumes" /\ attempt <= 1 => wanted \subseteq bound,
           state = "Completed" /\ w.stage = "PostHook" => hooked
    PROVE  Honest(WithState(state))
<1> DEFINE b == WithState(state)
<1>1. b.stage = w.stage /\ b.state = state /\ Rank(b) = Rank(w) BY StateChanged
<1> HIDE DEF b
<1>2. HooksRan(b) => hooked BY <1>1 DEF HooksRan, Honest
<1>3. attempt <= 1 /\ VolumesDone(b) => wanted \subseteq bound BY <1>1 DEF VolumesDone, Honest
<1> QED BY <1>1, <1>2, <1>3 DEF Honest, b

\* Every status write of syncRestore promises only what is so.
LEMMA WritersKeepPromises ==
    ASSUME StatusInv, PromisesTrue,
           \/ InitRestore \/ ValidationFailed \/ Validated \/ PopulateFailed
           \/ PatchRestoreObjects \/ VolumeRestoreFailed \/ VolumeRestoreCompleted
           \/ VolumeRestoreProcessing \/ ToResources \/ ApplyCompleted \/ ToPostHook
           \/ HooksCompleted \/ MetadataCompleted \/ MetadataFailed \/ ToFinished
    PROVE  PromisesTrue'
<1>0. /\ TypeOK /\ w \in Restore /\ StageAt(pc, w)
      /\ Alive => Honest(w) /\ CallHonest(pc)
  BY WorkerStageAt, PromiseParts DEF StatusInv, DeletionInv, TypeOK
<1>1. {"init", "invalid", "validated", "popFailed", "popFailed2", "record", "volFailed",
       "volCompleted", "processing", "toResources", "appliedAll", "toPostHook", "hooksDone",
       "resCompleted", "resFailed", "toFinished"} \subseteq SyncPcs
  BY DEF SyncPcs, DeletePcs, Pcs
<1>2. {"validate", "error", "populate", "popFailed2", "return", "dispatch", "toResources", "apply",
       "toPostHook", "hooks", "resCompleted", "toFinished", "finished"} \subseteq SyncNexts
  BY DEF SyncNexts, SyncPcs, DeletePcs, Pcs
<1>c. ASSUME NEW at, at \notin {"appliedAll", "toPostHook", "hooksDone", "resCompleted", "createVRC",
                                "annVolume", "volCompleted"}
      PROVE  CallHonest(at)
  BY <1>c DEF CallHonest
<1>3. CASE InitRestore
  <2> DEFINE stage == IF w.stage = "unset" THEN "Initial" ELSE w.stage
             state == IF w.state = "unset" THEN "New" ELSE w.state
             b == [w EXCEPT !.stage = stage, !.state = state]
  <2>1. stage \in Stages /\ state \in States BY <1>0, Values DEF Restore
  <2>2. pc = "init" /\ UpdateRestoreStatus(b, "validate", "return") BY <1>3 DEF InitRestore
  <2>3. stage \in {"unset", "Initial"} BY <1>0, <2>2, RankType DEF StageAt
  <2> HIDE DEF stage, state
  <2>4. b \in Restore /\ b.rv = w.rv /\ b.stage = stage BY <1>0, <2>1 DEF Restore
  <2> HIDE DEF b
  <2>5. Honest(b) BY <2>3, <2>4, RankType DEF Honest, HooksRan, VolumesDone
  <2> QED BY <1>1, <1>2, <1>c, <2>2, <2>4, <2>5, StatusPromises
<1>4. ASSUME NEW state \in {"Failed", "Processing"}, NEW next \in {"return", "error", "popFailed2"},
             NEW onError, pc \in SyncPcs, UpdateRestoreStatus(WithState(state), next, onError)
      PROVE  PromisesTrue'
  <2>1. state \in States BY Values
  <2>2. Alive => Honest(WithState(state)) BY <1>0, <2>1, StateHonest
  <2>3. CallHonest(next) /\ next \in SyncNexts BY <1>2, <1>c
  <2> QED BY <1>0, <1>4, <2>1, <2>2, <2>3, StateChanged, StatusPromises
<1>5. CASE \/ ValidationFailed \/ VolumeRestoreFailed \/ MetadataFailed \/ VolumeRestoreProcessing
           \/ PopulateFailed
  BY <1>1, <1>4, <1>5
     DEF ValidationFailed, VolumeRestoreFailed, MetadataFailed, VolumeRestoreProcessing, PopulateFailed
<1>6. CASE Validated
  <2> DEFINE b == [w EXCEPT !.stage = "Volumes", !.state = "New"]
  <2>1. pc = "validated" /\ UpdateRestoreStatus(b, "populate", "return") BY <1>6 DEF Validated
  <2>2. b \in Restore /\ b.rv = w.rv /\ b.stage = "Volumes" /\ b.state = "New"
    BY <1>0, Values DEF Restore
  <2> HIDE DEF b
  <2>3. Honest(b) BY <2>2, RankType DEF Honest, HooksRan, VolumesDone
  <2> QED BY <1>1, <1>2, <1>c, <2>1, <2>2, <2>3, StatusPromises
<1>7. CASE PatchRestoreObjects
  <2> DEFINE b == [w EXCEPT !.res = TRUE]
  <2>1. pc = "record" /\ UpdateRestoreStatus(b, "dispatch", "ignore") BY <1>7 DEF PatchRestoreObjects
  <2>2. b \in Restore /\ b.rv = w.rv /\ b.stage = w.stage /\ b.state = w.state BY <1>0 DEF Restore
  <2> HIDE DEF b
  <2>3. Rank(b) = Rank(w) BY <1>0, <2>2, SameRank
  <2>4. Alive => Honest(b) BY <1>0, <2>2, <2>3 DEF Honest, HooksRan, VolumesDone
  <2> QED BY <1>1, <1>2, <1>c, <2>1, <2>2, <2>4, StatusPromises
<1>8. CASE VolumeRestoreCompleted \/ ApplyCompleted \/ HooksCompleted \/ MetadataCompleted
  <2>1. PICK next \in {"toResources", "toPostHook", "resCompleted", "toFinished"},
               onError \in {"return", "ignore"} :
           /\ UpdateRestoreStatus(WithState("Completed"), next, onError)
           /\ pc = (IF next = "toResources" THEN "volCompleted"
                    ELSE IF next = "toPostHook" THEN "appliedAll"
                    ELSE IF next = "resCompleted" THEN "hooksDone" ELSE "resCompleted")
    BY <1>8 DEF VolumeRestoreCompleted, ApplyCompleted, HooksCompleted, MetadataCompleted
  <2>2. pc \in SyncPcs /\ next \in SyncNexts /\ "Completed" \in States BY <1>1, <1>2, <2>1, Values
  <2>3. Alive => CallHonest(next) BY <1>0, <2>1 DEF CallHonest
  <2>4. Alive /\ w.stage = "Volumes" /\ attempt <= 1 => wanted \subseteq bound
    BY <1>0, <2>1 DEF StageAt, CallHonest
  <2>5. Alive /\ w.stage = "PostHook" => hooked BY <1>0, <2>1 DEF StageAt, CallHonest
  <2>6. Alive => Honest(WithState("Completed")) BY <1>0, <2>2, <2>4, <2>5, StateHonest
  <2> QED BY <1>0, <2>1, <2>2, <2>3, <2>6, StateChanged, StatusPromises
<1>9. CASE ToResources
  <2> DEFINE b == [w EXCEPT !.stage = "Resources", !.state = "New"]
  <2>1. pc = "toResources" /\ UpdateRestoreStatus(b, "apply", "return") BY <1>9 DEF ToResources
  <2>2. b \in Restore /\ b.rv = w.rv /\ b.stage = "Resources" BY <1>0, Values DEF Restore
  <2> HIDE DEF b
  <2>3. Rank(b) = 2 /\ ~HooksRan(b) /\ VolumesDone(w)
    BY <1>0, <2>1, <2>2, RankType DEF StageAt, HooksRan, VolumesDone
  <2>4. Alive => Honest(b) BY <1>0, <2>3 DEF Honest
  <2> QED BY <1>1, <1>2, <1>c, <2>1, <2>2, <2>4, StatusPromises
<1>10. CASE ToPostHook
  <2> DEFINE b == [w EXCEPT !.state = "Processing", !.stage = "PostHook"]
  <2>1. pc = "toPostHook" /\ UpdateRestoreStatus(b, "hooks", "ignore") BY <1>10 DEF ToPostHook
  <2>2. b \in Restore /\ b.rv = w.rv /\ b.stage = "PostHook" /\ b.state = "Processing"
    BY <1>0, Values DEF Restore
  <2> HIDE DEF b
  <2>3. Rank(w) = 2 /\ Rank(b) = 3 /\ ~HooksRan(b) /\ VolumesDone(w)
    BY <1>0, <2>1, <2>2, RankType DEF StageAt, HooksRan, VolumesDone
  <2>4. Alive => Honest(b) BY <1>0, <2>1, <2>3 DEF Honest, CallHonest
  <2> QED BY <1>1, <1>2, <1>c, <2>1, <2>2, <2>4, StatusPromises
<1>11. CASE ToFinished
  <2> DEFINE b == [w EXCEPT !.stage = "Finished"]
  <2>1. pc = "toFinished" /\ UpdateRestoreStatus(b, "finished", "return") BY <1>11 DEF ToFinished
  <2>2. b \in Restore /\ b.rv = w.rv /\ b.stage = "Finished" BY <1>0, Values DEF Restore
  <2> HIDE DEF b
  <2>3. Rank(w) = 3 /\ HooksRan(w) /\ VolumesDone(w)
    BY <1>0, <2>1, RankType DEF StageAt, HooksRan, VolumesDone
  <2>4. Alive => Honest(b) BY <1>0, <2>3 DEF Honest
  <2> QED BY <1>1, <1>2, <1>c, <2>1, <2>2, <2>4, StatusPromises
<1> QED BY <1>3, <1>5, <1>6, <1>7, <1>8, <1>9, <1>10, <1>11

\* As many finished volumes as claims, of VRCs made once: every claim is bound.
LEMMA CountedMeansBound ==
    ASSUME TypeOK, VolumesKnown, attempt <= 1,
           Cardinality({v \in LiveVRCs : vrc[v] = "Completed"}) = Cardinality(wanted)
    PROVE  wanted \subseteq bound
<1> DEFINE done == {v \in LiveVRCs : vrc[v] = "Completed"}
           claim == [v \in done |-> v[2]]
<1>1. IsFiniteSet(wanted) BY RestoreAssumption, FS_Subset DEF TypeOK
<1>2. \A v \in done : v \in VRCs /\ v[1] = 1 /\ v[2] \in wanted /\ v[2] \in bound
  BY RestoreAssumption DEF VolumesKnown, LiveVRCs, VRCs, TypeOK
<1>3. \A u, v \in done : claim[u] = claim[v] => u = v BY <1>2 DEF VRCs
<1>4. claim \in Injection(done, wanted) BY <1>2, <1>3 DEF Injection, IsInjective
<1>5. Cardinality(done) = Cardinality(wanted) OBVIOUS
<1> HIDE DEF done, claim
<1>6. claim \in Surjection(done, wanted) BY <1>1, <1>4, <1>5, FS_Injection
<1>7. \A p \in wanted : \E v \in done : claim[v] = p BY <1>6 DEF Surjection
<1> QED BY <1>2, <1>7 DEF claim

\* A step of syncRestore on VRCs, resources or hooks
LEMMA OtherPromises ==
    ASSUME StatusInv, PromisesTrue, TypeOK', WorkerFrame, NEW next, LocalOutcome(next),
           Alive => Lasting /\ CallHonest(next)' /\ VolumesKnown'
    PROVE  PromisesTrue'
<1>0. DeletionInv /\ w \in Restore BY DEF StatusInv, DeletionInv, TypeOK
<1> PICK b \in Restore : b = w BY <1>0
<1>1. Onward(b, next) BY <1>0, LocalOnward
<1>2. Alive => Honest(b)' BY HonestStays, PromiseParts
<1> QED BY <1>0, <1>1, <1>2, PromisesKeep

\* The creation of the VRCs: only for claims with a volume backup, in the current attempt.
LEMMA CreateVRCPromises ==
    ASSUME StatusInv, PromisesTrue, CreateVRC
    PROVE  PromisesTrue'
<1>0. DeletionInv /\ TypeOK /\ pc = "createVRC" BY DEF StatusInv, DeletionInv, CreateVRC
<1>1. PICK next \in {"processing", "createVRC", "error"} : TypeOK' /\ WorkerFrame /\ LocalOutcome(next)
  BY <1>0, CreateVRCStep
<1>2. /\ wanted' = wanted /\ backed' = backed /\ vdel' = vdel /\ attempt' = attempt
      /\ bound' = bound /\ applied' = applied /\ hooked' = hooked
  BY DEF CreateVRC, CallFails, volVars, envVars
<1>3. \/ vrc' = vrc
      \/ \E p \in backed : vrc[<<attempt, p>>] = "absent" /\ vrc' = [vrc EXCEPT ![<<attempt, p>>] = "New"]
  BY DEF CreateVRC, CallFails, volVars
<1>4. Lasting BY <1>0, <1>2 DEF Lasting, TypeOK
<1>5. Alive => CallHonest(next)' BY <1>0, <1>1, <1>2, PromiseParts DEF CallHonest
<1>6. Alive => VolumesKnown'
  <2>1. CASE vrc' = vrc BY <1>2, <2>1, PromiseParts DEF VolumesKnown, LiveVRCs, VRCs
  <2>2. ASSUME NEW p \in backed, vrc' = [vrc EXCEPT ![<<attempt, p>>] = "New"], Alive
        PROVE  VolumesKnown'
    <3>1. VolumesKnown BY <2>2, PromiseParts
    <3>2. attempt \in Nat BY <1>0 DEF TypeOK
    <3>3. \A v \in LiveVRCs' : v \in LiveVRCs \/ v = <<attempt, p>>
      BY <1>0, <2>2 DEF LiveVRCs, VRCs, TypeOK
    <3>4. \A v \in LiveVRCs' : vrc'[v] = "Completed" => vrc[v] = "Completed" /\ v \in LiveVRCs
      BY <1>0, <2>2 DEF LiveVRCs, VRCs, TypeOK
    <3> QED BY <1>2, <3>1, <3>2, <3>3, <3>4 DEF VolumesKnown
  <2> QED BY <1>3, <2>1, <2>2
<1> QED BY <1>1, <1>4, <1>5, <1>6, OtherPromises

\* The other steps of syncRestore promise only what is so.
LEMMA SyncersKeepPromises ==
    ASSUME StatusInv, PromisesTrue,
           \/ ValidateRestore \/ PopulateRestoreResources \/ SyncRestore \/ SyncVolumeRestore
           \/ CheckPVCRestored \/ CheckVolumeRestoreStatus \/ AnnotateVolumeRestore
           \/ PrepareVolumeRestore \/ ApplyResources \/ RunPostHooks \/ Finish
    PROVE  PromisesTrue'
<1>0. /\ DeletionInv /\ TypeOK /\ w \in Restore /\ api \in Restore /\ StageAt(pc, w)
      /\ Alive => Honest(w) /\ CallHonest(pc) /\ VolumesKnown
  BY WorkerStageAt, PromiseParts DEF StatusInv, DeletionInv, TypeOK
<1>1. {"validate", "populate", "dispatch", "volumes", "checkPVC", "count", "annVolume", "prepare",
       "createVRC", "apply", "hooks", "finished"} \subseteq SyncPcs
  BY DEF SyncPcs, DeletePcs, Pcs
<1>2. {"validated", "invalid", "record", "popFailed", "volumes", "apply", "toFinished", "finished",
       "return", "error", "toResources", "checkPVC", "annVolume", "count", "prepare", "volCompleted",
       "volFailed", "processing", "createVRC", "appliedAll", "resFailed", "hooksDone"}
         \subseteq SyncNexts
  BY DEF SyncNexts, SyncPcs, DeletePcs, Pcs
<1>c. ASSUME NEW at, at \notin {"appliedAll", "toPostHook", "hooksDone", "resCompleted", "createVRC",
                                "annVolume", "volCompleted"}
      PROVE  CallHonest(at)
  BY <1>c DEF CallHonest
<1>4. CASE ValidateRestore \/ PopulateRestoreResources \/ SyncRestore
  <2>1. PICK next \in {"validated", "invalid", "record", "popFailed", "volumes", "apply",
                       "toFinished", "finished", "return"} : Local(next)
    BY <1>4 DEF ValidateRestore, PopulateRestoreResources, SyncRestore
  <2>2. pc \in SyncPcs /\ next \in SyncNexts
    BY <1>1, <1>2, <1>4, <2>1 DEF ValidateRestore, PopulateRestoreResources, SyncRestore
  <2> QED BY <1>c, <2>1, <2>2, LocalPromises
<1>5. CASE SyncVolumeRestore
  <2>1. PICK next \in {"toResources", "checkPVC", "annVolume", "count", "prepare"} :
           Local(next) /\ (next = "annVolume" => wanted = {})
    BY <1>5 DEF SyncVolumeRestore
  <2>2. CallHonest(next) BY <2>1 DEF CallHonest
  <2>3. pc \in SyncPcs /\ next \in SyncNexts BY <1>1, <1>2, <1>5, <2>1 DEF SyncVolumeRestore
  <2> QED BY <2>1, <2>2, <2>3, LocalPromises
<1>6. CASE CheckPVCRestored \/ CheckVolumeRestoreStatus
  <2>1. PICK next \in {"volCompleted", "volFailed", "annVolume", "return", "error"} :
           /\ Local(next) \/ CallFails(next)
           /\ next = "volCompleted" => wanted \subseteq bound
           /\ next = "annVolume" =>
                 Cardinality({v \in LiveVRCs : vrc[v] = "Completed"}) = Cardinality(wanted)
    BY <1>6 DEF CheckPVCRestored, CheckVolumeRestoreStatus
  <2>2. Alive /\ next = "annVolume" /\ attempt <= 1 => wanted \subseteq bound
    BY <1>0, <2>1, CountedMeansBound
  <2>3. Alive => CallHonest(next) BY <2>1, <2>2 DEF CallHonest
  <2>4. pc \in SyncPcs /\ next \in SyncNexts
    BY <1>1, <1>2, <1>6, <2>1 DEF CheckPVCRestored, CheckVolumeRestoreStatus
  <2> QED BY <2>1, <2>3, <2>4, LocalPromises
<1>7. CASE AnnotateVolumeRestore
  <2>0. /\ pc = "annVolume" /\ pc \in SyncPcs
        /\ "volCompleted" \in SyncNexts /\ "volCompleted" \in Nexts
    BY <1>1, <1>2, <1>7, PathPcs DEF AnnotateVolumeRestore, SyncNexts, Nexts
  <2>1. Alive => CallHonest("volCompleted") BY <1>0, <2>0 DEF CallHonest
  <2>2. CASE Continue("volCompleted", w) /\ UNCHANGED <<apiVars, cache, processed, rcVars, volVars, envVars, countVars>>
    <3>1. Local("volCompleted") BY <2>2 DEF Local
    <3> QED BY <2>0, <2>1, <3>1, LocalPromises
  <2>3. CASE PatchRestore([api EXCEPT !.ann = @ \cup {"volume-restore-completed"}], "volCompleted")
    <3> DEFINE b == [api EXCEPT !.ann = @ \cup {"volume-restore-completed"}]
    <3>1. /\ b \in Restore /\ b.fin = api.fin /\ b.del = api.del /\ b.stage = api.stage
          /\ b.state = api.state
      BY <1>0, Annotated DEF Annotations
    <3> HIDE DEF b
    <3> PICK c \in Restore : c = w BY <1>0
    <3>2. Onward(c, "volCompleted") /\ UNCHANGED <<volVars, envVars>>
      BY <1>0, <2>0, <2>3, <3>1, PatchOnward DEF b
    <3>3. TypeOK' BY <1>0, <1>7, SyncersKeep DEF DeletionInv
    <3>4. Lasting BY <1>0, <3>2 DEF volVars, envVars, Lasting, TypeOK
    <3>5. Alive => Honest(c)' BY <1>0, <3>4, HonestStays
    <3>6. Alive => CallHonest("volCompleted")' /\ VolumesKnown'
      BY <1>0, <2>1, <3>2 DEF volVars, envVars, CallHonest, VolumesKnown, LiveVRCs, VRCs
    <3> QED BY <1>0, <3>2, <3>3, <3>4, <3>5, <3>6, PromisesKeep
  <2> QED BY <1>7, <2>2, <2>3 DEF AnnotateVolumeRestore, AnnotateRestore
<1>8. CASE PrepareVolumeRestore
  <2>1. CASE CallFails("error") \/ Local("error")
    BY <1>1, <1>2, <1>c, <1>8, <2>1, LocalPromises DEF PrepareVolumeRestore
  <2>2. CASE /\ attempt < MaxAttempts
             /\ attempt' = attempt + 1
             /\ Continue(IF backed = {} THEN "processing" ELSE "createVRC", w)
             /\ UNCHANGED <<apiVars, cache, processed, rcVars, wanted, backed, vrc, vdel, vclean,
                            bound, envVars, countVars>>
    <3>1. PICK next \in {"processing", "createVRC"} : Continue(next, w) BY <2>2
    <3>2. CountType BY <1>0, <2>2, CountKept
    <3>3. attempt' \in 0..MaxAttempts BY <1>0, <2>2, RestoreAssumption DEF TypeOK
    <3>4. next \in Nexts BY <3>1 DEF Nexts, Pcs
    <3>5. TypeOK' /\ WorkerFrame /\ LocalOutcome(next)
      BY <1>0, <2>2, <3>1, <3>2, <3>3, <3>4, OtherStep DEF TypeOK, envVars
    <3>6. Lasting BY <1>0, <2>2 DEF Lasting, TypeOK, envVars
    <3>7. CallHonest(next)' BY <1>0, <2>2, <3>1 DEF CallHonest, TypeOK
    <3>8. Alive => VolumesKnown'
      <4>1. LiveVRCs' = LiveVRCs BY <2>2 DEF LiveVRCs, VRCs
      <4>2. \A v \in LiveVRCs : v[1] \in Nat BY DEF LiveVRCs, VRCs
      <4> QED BY <1>0, <2>2, <4>1, <4>2 DEF VolumesKnown, TypeOK
    <3> QED BY <3>5, <3>6, <3>7, <3>8, OtherPromises
  <2> QED BY <1>8, <2>1, <2>2 DEF PrepareVolumeRestore
<1>9. CASE ApplyResources \/ RunPostHooks
  <2>1. PICK next \in {"appliedAll", "resFailed", "hooksDone"} :
           /\ EnvStep(next)
           /\ next = "appliedAll" => applied' = "all"
           /\ next = "hooksDone" => hooked' = TRUE
    BY <1>9 DEF ApplyResources, RunPostHooks
  <2>2. /\ applied' \in {"none", "kept", "some", "all"} /\ hooked' \in BOOLEAN
        /\ applied = "all" => applied' = "all"
        /\ hooked => hooked'
    BY <1>0, <1>9, Zenon DEF ApplyResources, RunPostHooks, TypeOK
  <2>3. UNCHANGED volVars /\ CountType BY <1>0, <2>1, CountKept DEF EnvStep
  <2>4. TypeOK' /\ WorkerFrame /\ LocalOutcome(next)
    <3>1. next \in Nexts BY <2>1 DEF Nexts, Pcs
    <3> QED BY <1>0, <2>1, <2>2, <2>3, <3>1, OtherStep DEF EnvStep, TypeOK, volVars
  <2>5. Lasting BY <1>0, <2>2, <2>3 DEF Lasting, TypeOK, volVars
  <2>6. CallHonest(next)' BY <2>1 DEF CallHonest
  <2>7. Alive => VolumesKnown' BY <1>0, <2>3 DEF volVars, VolumesKnown, LiveVRCs, VRCs
  <2> QED BY <2>4, <2>5, <2>6, <2>7, OtherPromises
<1>10. CASE Finish
  <2>0. /\ pc = "finished" /\ pc \in SyncPcs /\ "return" \in SyncNexts /\ "Completed" \in States
        /\ w.stage = "Finished" /\ CallHonest("return")
    BY <1>0, <1>1, <1>2, <1>c, <1>10, Values DEF Finish, StageAt
  <2>1. CASE Local("return") BY <2>0, <2>1, LocalPromises
  <2>2. CASE UpdateRestoreStatus(WithState("Completed"), "return", "return")
    <3>1. Alive => Honest(WithState("Completed")) BY <1>0, <2>0, StateHonest
    <3> QED BY <1>0, <2>0, <2>2, <3>1, StateChanged, StatusPromises
  <2> QED BY <1>10, <2>1, <2>2 DEF Finish
<1> QED BY <1>4, <1>5, <1>6, <1>7, <1>8, <1>9, <1>10

\* Another state Failed, in the same stage, promises nothing more.
LEMMA FailedHonest ==
    ASSUME NEW c \in Restore, NEW d \in Restore, c.stage = d.stage,
           c.state = d.state \/ c.state = "Failed", Honest(d)'
    PROVE  Honest(c)'
<1>1. Rank(c) = Rank(d) BY SameRank
<1>2. (HooksRan(c) => HooksRan(d)) /\ (VolumesDone(c) => VolumesDone(d))
  BY <1>1 DEF HooksRan, VolumesDone
<1> QED BY <1>1, <1>2 DEF Honest

\* A step of somebody else that undoes nothing
LEMMA OthersKeepPromises ==
    ASSUME StatusInv, PromisesTrue, TypeOK', Stored, MarksStay, UNCHANGED <<cache, workerVars>>,
           api.rv # 0 => api'.stage = api.stage /\ api'.state \in {api.state, "Failed"},
           Alive => Lasting /\ VolumesKnown'
    PROVE  PromisesTrue'
<1>0. /\ DeletionInv /\ TypeOK /\ w \in Restore /\ api \in Restore /\ api' \in Restore
      /\ pc' = pc /\ w' = w /\ cache' = cache
  BY DEF StatusInv, DeletionInv, TypeOK, workerVars
<1>1. Alive' => Alive BY <1>0, StoredCopies DEF MarksStay, Alive
<1>2. ASSUME Alive, NEW c \in Copies' \cup {api', w'} PROVE Honest(c)'
  <2>1. c \in Restore /\ (c \in Copies \cup {w} \/ c = api')
    <3>1. c \in Restore BY DEF TypeOK, Copies
    <3>2. c \in Copies' => c \in Copies \/ c = api' BY <1>0, StoredCopies
    <3> QED BY <1>0, <3>1, <3>2
  <2>2. PICK d \in Copies \cup {api, w} : c.stage = d.stage /\ (c.state = d.state \/ c.state = "Failed")
    BY <1>2, <2>1 DEF Alive
  <2>3. d \in Restore /\ Honest(d) BY <1>0, <1>2, PromiseParts DEF TypeOK, Copies
  <2>4. Honest(d)' BY <1>2, <2>3, HonestStays
  <2> QED BY <2>1, <2>2, <2>3, <2>4, FailedHonest
<1>3. Alive => CallHonest(pc)' BY <1>0, PromiseParts DEF CallHonest, Lasting
<1> QED BY <1>1, <1>2, <1>3, PromiseParts

\* The reconciler fails or annotates the object.
LEMMA ReconcilerKeepsPromises ==
    ASSUME StatusInv, PromisesTrue, Reconciler
    PROVE  PromisesTrue'
<1>0. DeletionInv /\ TypeOK /\ HandlersHold /\ CopiesAgree BY DEF StatusInv, DeletionInv
<1>1. TypeOK' /\ ReconcilerOutcome BY <1>0, ReconcilerStep
<1>2. Stored /\ MarksStay /\ UNCHANGED <<cache, workerVars, volVars, envVars>>
  BY <1>1 DEF ReconcilerOutcome, Stored, Kept, MarksStay, Is
<1>3. api.rv # 0 => api'.stage = api.stage /\ api'.state \in {api.state, "Failed"}
  BY <1>0, <1>1 DEF ReconcilerOutcome, Kept, Is, CopiesAgree
<1>4. Lasting BY <1>0, <1>2 DEF volVars, envVars, Lasting, TypeOK
<1>5. Alive => VolumesKnown' BY <1>2, PromiseParts DEF volVars, VolumesKnown, LiveVRCs, VRCs
<1> QED BY <1>1, <1>2, <1>3, <1>4, <1>5, OthersKeepPromises

\* The volume restore service makes true what its phase Completed says; nobody deletes a
\* VRC of a Restore that is not deleted.
LEMMA EnvironmentKeepsPromises ==
    ASSUME StatusInv, PromisesTrue, UserTouch \/ ServiceFinishes \/ ServiceRemoves
    PROVE  PromisesTrue'
<1>0. DeletionInv /\ TypeOK /\ api \in Restore BY DEF StatusInv, DeletionInv, TypeOK
<1>1. TypeOK' BY <1>0, EnvironmentKeeps DEF DeletionInv
<1>2. /\ UNCHANGED <<cache, workerVars, envVars>>
      /\ wanted' = wanted /\ backed' = backed /\ attempt' = attempt
  BY DEF UserTouch, ServiceFinishes, ServiceRemoves, EnvUnchanged, volVars
<1>3. CASE UserTouch
  <2>1. api.rv # 0 /\ api' = [api EXCEPT !.rv = @ + 1] /\ watch' = Append(watch, api')
    BY <1>3 DEF UserTouch
  <2>2. /\ api'.rv = api.rv + 1 /\ api'.fin = api.fin /\ api'.del = api.del
        /\ api'.stage = api.stage /\ api'.state = api.state
    BY <1>0, <2>1 DEF Restore
  <2>3. Stored /\ MarksStay BY <2>1, <2>2 DEF Stored, MarksStay
  <2>4. Lasting BY <1>0, <1>2, <1>3 DEF UserTouch, volVars, envVars, Lasting, TypeOK
  <2>5. Alive => VolumesKnown'
    BY <1>3, PromiseParts DEF UserTouch, volVars, VolumesKnown, LiveVRCs, VRCs
  <2> QED BY <1>1, <1>2, <2>2, <2>3, <2>4, <2>5, OthersKeepPromises
<1>4. CASE ServiceFinishes \/ ServiceRemoves
  <2>1. api' = api /\ Stored /\ MarksStay
    BY <1>4 DEF ServiceFinishes, ServiceRemoves, apiVars, Stored, Kept, MarksStay
  <2>2. ASSUME Alive PROVE Lasting /\ VolumesKnown'
    <3>1. VolumesKnown BY <2>2, PromiseParts
    <3>2. PICK v \in VRCs, phase \in {"Completed", "Failed"} :
             /\ vrc[v] = "New" /\ v \notin vdel
             /\ vrc' = [vrc EXCEPT ![v] = phase]
             /\ bound' = IF phase = "Completed" THEN bound \cup {v[2]} ELSE bound
      BY <1>4, <3>1 DEF VolumesKnown, ServiceFinishes, ServiceRemoves
    <3>3. vdel' = {} BY <1>4, <3>1 DEF VolumesKnown, ServiceFinishes, ServiceRemoves
    <3>4. Lasting BY <1>0, <1>2, <3>2 DEF envVars, Lasting, TypeOK
    <3>5. LiveVRCs' \subseteq LiveVRCs BY <1>0, <3>2 DEF LiveVRCs, VRCs, TypeOK
    <3>6. ASSUME NEW u \in LiveVRCs', vrc'[u] = "Completed" PROVE u[2] \in bound'
      <4>1. u = v \/ vrc[u] = "Completed" BY <1>0, <3>2, <3>5, <3>6 DEF TypeOK, LiveVRCs
      <4>2. u = v => phase = "Completed" BY <1>0, <3>2, <3>6 DEF TypeOK, LiveVRCs
      <4> QED BY <3>1, <3>2, <3>5, <4>1, <4>2 DEF VolumesKnown
    <3> QED BY <1>2, <3>1, <3>3, <3>4, <3>5, <3>6 DEF VolumesKnown
  <2> QED BY <1>1, <1>2, <2>1, <2>2, OthersKeepPromises
<1> QED BY <1>3, <1>4

\* Once deleted, for good.
LEMMA GonePromises ==
    ASSUME ~Alive'
    PROVE  PromisesTrue'
BY PromiseParts

\* A delivery brings a copy that was on its way, and a crash leaves none but the object.
LEMMA InformerCrashKeepPromises ==
    ASSUME StatusInv, PromisesTrue, Informer \/ Crash
    PROVE  PromisesTrue'
<1>0. DeletionInv /\ TypeOK BY DEF StatusInv, DeletionInv
<1>1. api' = api /\ UNCHANGED <<volVars, envVars>> /\ (w' = w \/ w' = NoRestore)
  BY DEF Informer, Crash, workerVars
<1>2. Copies' \subseteq Copies \cup {api}
  <2>1. CASE Informer BY <1>0, <2>1, Delivered
  <2>2. CASE Crash
    <3>1. cache' = api /\ watch' = <<>> /\ DOMAIN watch' = {} BY <2>2 DEF Crash
    <3> QED BY <3>1 DEF Copies
  <2> QED BY <2>1, <2>2
<1>3. Lasting BY <1>0, <1>1 DEF volVars, envVars, Lasting, TypeOK
<1>4. Alive' => Alive BY <1>1 DEF Alive
<1>5. ASSUME Alive, NEW c \in Copies' \cup {api', w'} PROVE Honest(c)'
  <2>1. CASE c \in Copies \cup {api, w} BY <1>3, <1>5, <2>1, HonestStays, PromiseParts
  <2>2. CASE c = NoRestore BY <2>2, NoRestoreType, HonestStatus
  <2> QED BY <1>1, <1>2, <2>1, <2>2
<1>6. Alive => CallHonest(pc)'
  <2>1. pc' = pc \/ pc' = "idle" BY DEF Informer, Crash, workerVars
  <2> QED BY <1>1, <2>1, PromiseParts DEF CallHonest, volVars, envVars
<1>7. Alive => VolumesKnown' BY <1>1, PromiseParts DEF volVars, VolumesKnown, LiveVRCs, VRCs
<1> QED BY <1>4, <1>5, <1>6, <1>7, PromiseParts

\* The user's deletion ends every promise.
LEMMA UserDeleteKeepsPromises ==
    ASSUME StatusInv, PromisesTrue, UserDelete
    PROVE  PromisesTrue'
<1> DEFINE b == [api EXCEPT !.del = TRUE]
<1>0. TypeOK /\ api \in Restore /\ watch \in Seq(Restore) BY DEF StatusInv, DeletionInv, TypeOK
<1>1. api.rv # 0 /\ ((api.fin /\ Commit(b)) \/ Remove) BY DEF UserDelete
<1>2. b \in Restore /\ b.del BY <1>0 DEF Restore
<1> HIDE DEF b
<1>3. ~Alive' BY <1>0, <1>1, <1>2, CommitStores, NoRestoreType DEF Is, Remove, Alive
<1> QED BY <1>3, GonePromises

\* deleteRestore works for no living Restore.
LEMMA DeletersKeepPromises ==
    ASSUME StatusInv, PromisesTrue,
           \/ RemoveVolumeRestore \/ CleanupRestoredMetadata \/ AnnotateCleaned \/ ListVolumeRestore
           \/ RemoveFinalizer
    PROVE  PromisesTrue'
<1>0. DeletionInv /\ TypeOK /\ DeleterKnows /\ MarksKept BY DEF StatusInv, DeletionInv
<1>1. pc \in DeletePcs
  BY DEF RemoveVolumeRestore, CleanupRestoredMetadata, AnnotateCleaned, ListVolumeRestore,
         RemoveFinalizer, DeletePcs
<1>2. ~Alive BY <1>0, <1>1, CopyCases DEF DeleterKnows, MarksKept, Alive
<1>3. CASE RemoveFinalizer
  BY <1>0, <1>2, <1>3, RemoveFinalizerStep, GonePromises, NoRestoreType DEF Kept, Remove, Alive
<1>4. CASE AnnotateCleaned
  <2> DEFINE b == [api EXCEPT !.ann = @ \cup {"restore-cleanup-done"}]
  <2>1. b \in Restore /\ b.fin = api.fin /\ b.del = api.del BY <1>0, Annotated DEF Annotations
  <2>2. PatchRestore(b, "delList") BY <1>4 DEF AnnotateCleaned
  <2>3. "delList" \in Nexts BY DEF Nexts, Pcs
  <2> HIDE DEF b
  <2>4. PatchOutcome(b, "delList") BY <1>0, <2>1, <2>2, <2>3, PatchRestoreOutcome
  <2>5. ~Alive' BY <1>2, <2>1, <2>4 DEF PatchOutcome, Patched, Kept, Is, Alive
  <2> QED BY <2>5, GonePromises
<1>5. CASE RemoveVolumeRestore \/ CleanupRestoredMetadata \/ ListVolumeRestore
  <2>1. api' = api
    BY <1>5 DEF RemoveVolumeRestore, CleanupRestoredMetadata, ListVolumeRestore, Local, CallFails,
                EnvStep, apiVars
  <2>2. ~Alive' BY <1>2, <2>1 DEF Alive
  <2> QED BY <2>2, GonePromises
<1> QED BY <1>3, <1>4, <1>5

\* Taking the key and setting the finalizer keep the status.
LEMMA StartersKeepPromises ==
    ASSUME StatusInv, PromisesTrue, ProcessQueue \/ EnsureFinalizer
    PROVE  PromisesTrue'
<1>0. DeletionInv /\ TypeOK /\ RemovedIsEmpty /\ api \in Restore /\ w \in Restore
  BY DEF StatusInv, DeletionInv, TypeOK
<1> PICK c \in Restore : c = w BY <1>0
<1>1. PICK next \in {"idle", "delVRC", "finalizer", "init", "populate"} :
         TypeOK' /\ Onward(c, next) /\ UNCHANGED <<volVars, envVars>>
  <2>1. CASE ProcessQueue
    <3>1. TypeOK' /\ QueueOutcome /\ pc = "idle" BY <1>0, <2>1, ProcessQueueStep DEF ProcessQueue
    <3>2. Stored /\ MarksStay /\ WorkerFrame /\ api' = api /\ UNCHANGED <<volVars, envVars>>
      BY <3>1 DEF QueueOutcome, Kept, Stored, MarksStay, WorkerFrame
    <3>3. PICK next \in {"idle", "delVRC", "finalizer"} : pc' \in {next, "idle"}
      BY <3>1 DEF QueueOutcome
    <3>4. From(w', Copies \cup {w, c}) BY <3>1, CopyCases DEF QueueOutcome, From
    <3> QED BY <1>0, <3>1, <3>2, <3>3, <3>4, OnwardFrom DEF RemovedIsEmpty
  <2>2. CASE EnsureFinalizer
    <3> DEFINE b == [api EXCEPT !.fin = TRUE]
    <3>1. PICK next \in {"init", "populate"} :
             (w.fin /\ LocalOutcome(next)) \/ (~w.fin /\ PatchRestore(b, next))
      <4>1. EnsureFinalizer /\ pc = "finalizer" BY <2>2 DEF EnsureFinalizer
      <4> DEFINE n == IF w.stage \in {"unset", "Initial"} THEN "init" ELSE "populate"
      <4>2. n \in {"init", "populate"} /\ n \in Nexts BY DEF Nexts, Pcs
      <4>3. IF w.fin THEN Local(n) ELSE PatchRestore(b, n) BY <2>2 DEF EnsureFinalizer
      <4> HIDE DEF n, b
      <4> QED BY <1>0, <4>2, <4>3, LocalStep
    <3>2. TypeOK' /\ WriteFrame BY <1>0, <2>2, EnsureFinalizerStep
    <3>3. b \in Restore /\ b.fin /\ b.del = api.del /\ b.stage = api.stage /\ b.state = api.state
      BY <1>0 DEF Restore
    <3>4. next \in Nexts BY DEF Nexts, Pcs
    <3> HIDE DEF b
    <3> QED BY <1>0, <3>1, <3>2, <3>3, <3>4, LocalOnward, PatchOnward DEF WriteFrame
  <2> QED BY <2>1, <2>2
<1>2. Lasting BY <1>0, <1>1 DEF volVars, envVars, Lasting, TypeOK
<1>3. Alive => Honest(c)' BY <1>2, HonestStays, PromiseParts
<1>4. CallHonest(next)' BY DEF CallHonest
<1>5. Alive => VolumesKnown' BY <1>1, PromiseParts DEF volVars, VolumesKnown, LiveVRCs, VRCs
<1> QED BY <1>0, <1>1, <1>2, <1>3, <1>4, <1>5, PromisesKeep

\* No stage is reached yet.
LEMMA InitPromises == Init => PromisesTrue
<1> SUFFICES ASSUME Init PROVE PromisesTrue
  OBVIOUS
<1>1. /\ api \in Restore /\ api.stage = "unset" /\ api.state = "unset" /\ watch = <<api>>
      /\ cache = NoRestore /\ w = NoRestore /\ pc = "idle"
  BY NoRestoreType DEF Init, Restore, NoRestore
<1>2. Copies \cup {api, w} = {NoRestore, api} BY <1>1 DEF Copies
<1>3. \A c \in {NoRestore, api} : Rank(c) = 0 /\ ~HooksRan(c) /\ ~VolumesDone(c)
  BY <1>1, NoRestoreType, RankOf DEF HooksRan, VolumesDone
<1>4. \A c \in Copies \cup {api, w} : Honest(c) BY <1>2, <1>3 DEF Honest
<1>5. CallHonest(pc) BY <1>1 DEF CallHonest
<1>6. VolumesKnown BY DEF Init, VolumesKnown, LiveVRCs
<1> QED BY <1>4, <1>5, <1>6, PromiseParts

\* Every step keeps the promises.
LEMMA NextKeepsPromises ==
    ASSUME StatusInv, PromisesTrue, [Next]_vars
    PROVE  PromisesTrue'
<1>0. TypeOK BY DEF StatusInv, DeletionInv
<1>1. CASE UNCHANGED vars
  <2>1. /\ Stored /\ MarksStay /\ UNCHANGED <<cache, workerVars, volVars, envVars>> /\ api' = api
    BY <1>1 DEF vars, Stored, Kept, MarksStay, workerVars, volVars, envVars
  <2>2. TypeOK' BY <1>1, NextKeepsDeletion DEF StatusInv, DeletionInv
  <2>3. Lasting BY <1>0, <2>1 DEF volVars, envVars, Lasting, TypeOK
  <2>4. Alive => VolumesKnown' BY <2>1, PromiseParts DEF volVars, VolumesKnown, LiveVRCs, VRCs
  <2> QED BY <2>1, <2>2, <2>3, <2>4, OthersKeepPromises
<1>2. CASE Worker
  BY <1>2, StartersKeepPromises, WritersKeepPromises, SyncersKeepPromises, CreateVRCPromises,
     DeletersKeepPromises, Zenon DEF Worker
<1>3. CASE Next
  BY <1>2, <1>3, ReconcilerKeepsPromises, InformerCrashKeepPromises, UserDeleteKeepsPromises,
     EnvironmentKeepsPromises DEF Next, PrepareVolumePanics
<1> QED BY <1>1, <1>3

\* What a stage promises is so, for the object and for every copy anybody may still write
\* from.
LEMMA PromisesHold == Spec => [](StatusInv /\ PromisesTrue)
<1>1. Init => StatusInv /\ PromisesTrue BY InitStatus, InitPromises
<1>2. StatusInv /\ PromisesTrue /\ [Next]_vars => StatusInv' /\ PromisesTrue'
  BY NextKeepsStatus, NextKeepsPromises
<1> QED BY <1>1, <1>2, PTL DEF Spec

\* A Finished restore has applied every resource and run its post hooks to the end,
\* whichever of its status writes failed, conflicted or were repeated after a crash.
THEOREM RestoredWhenFinished == Spec => []FinishedMeansRestored
<1>1. StatusInv /\ PromisesTrue => FinishedMeansRestored
  <2> SUFFICES ASSUME StatusInv, PromisesTrue, api.stage = "Finished", ~api.del
               PROVE  applied = "all" /\ hooked
    BY DEF FinishedMeansRestored
  <2>1. Alive
    BY NoRestoreType DEF StatusInv, DeletionInv, RemovedIsEmpty, Alive
  <2>2. Honest(api) BY <2>1, PromiseParts
  <2> QED BY <2>2, RankOf DEF Honest, HooksRan
<1> QED BY <1>1, PromisesHold, PTL

\* Resources are restored only after every claim is restored, if the VRCs were created
\* once, for any number of claims.
THEOREM VolumesComeFirst == Spec => []VolumesBeforeResources
<1>1. StatusInv /\ PromisesTrue => VolumesBeforeResources
  <2> SUFFICES ASSUME StatusInv, PromisesTrue, Rank(api) >= 2, ~api.del, attempt <= 1
               PROVE  wanted \subseteq bound
    BY DEF VolumesBeforeResources
  <2>1. Alive
    BY NoRestoreType, RankOf DEF StatusInv, DeletionInv, RemovedIsEmpty, Alive
  <2>2. Honest(api) BY <2>1, PromiseParts
  <2> QED BY <2>2 DEF Honest, VolumesDone
<1> QED BY <1>1, PromisesHold, PTL
-----------------------------------------------------------------------------
(* The stage never goes back: no step lowers it *)

\* The newest version of the Restore is the last the informer has, or will be told of.
ServerKnown == IF watch = <<>> THEN cache = api ELSE watch[Len(watch)] = api

\* A step leaves the server alone, or the informer will be told of what it wrote.
Tells == cache' = cache /\ (Kept \/ watch' = Append(watch, api'))

\* Every write of the object is told.
LEMMA CommitTells ==
    ASSUME NEW b, Commit(b)
    PROVE  Kept \/ watch' = Append(watch, api')
  BY DEF Commit, Kept, apiVars

\* A status write is told, whether or not its reply is lost.
LEMMA StatusTells ==
    ASSUME NEW b, NEW next, NEW onError, UpdateRestoreStatus(b, next, onError)
    PROVE  Tells
  <1>1. UNCHANGED apiVars => Kept
    BY DEF apiVars, Kept
  <1>2. cache' = cache
    BY DEF UpdateRestoreStatus
  <1>3. Commit(StatusOf(b)) \/ UNCHANGED apiVars
    BY DEF UpdateRestoreStatus
  <1> QED BY <1>1, <1>2, <1>3, CommitTells DEF Tells

\* So is a patch.
LEMMA PatchTells ==
    ASSUME NEW b, NEW next, PatchRestore(b, next)
    PROVE  Tells
  <1>1. UNCHANGED apiVars => Kept
    BY DEF apiVars, Kept
  <1>2. cache' = cache
    BY DEF PatchRestore
  <1>3. Commit(b) \/ UNCHANGED apiVars
    BY DEF PatchRestore
  <1> QED BY <1>1, <1>2, <1>3, CommitTells DEF Tells

\* The steps without a write have nothing to tell.
LEMMA SilentTells ==
    ASSUME UNCHANGED <<apiVars, cache>>
    PROVE  Tells
  BY DEF Tells, Kept, apiVars

\* A step of the handler that writes nothing leaves server and informer alone.
LEMMA LocalTells ==
    ASSUME NEW next, Local(next) \/ CallFails(next) \/ EnvStep(next)
    PROVE  Tells
  <1>1. UNCHANGED <<apiVars, cache>>
    BY DEF Local, CallFails, EnvStep
  <1> QED BY <1>1, SilentTells

\* Every step of the worker is told.
LEMMA WorkerTells ==
    ASSUME Worker
    PROVE  Tells
  <1>1. CASE \/ InitRestore \/ ValidationFailed \/ Validated \/ PopulateFailed
             \/ PatchRestoreObjects \/ VolumeRestoreFailed \/ VolumeRestoreCompleted
             \/ VolumeRestoreProcessing \/ ToResources
    BY <1>1, StatusTells
    DEF InitRestore, ValidationFailed, Validated, PopulateFailed, PatchRestoreObjects,
        VolumeRestoreFailed, VolumeRestoreCompleted, VolumeRestoreProcessing, ToResources
  <1>2. CASE \/ ApplyCompleted \/ ToPostHook \/ HooksCompleted \/ MetadataCompleted
             \/ MetadataFailed \/ ToFinished
    BY <1>2, StatusTells
    DEF ApplyCompleted, ToPostHook, HooksCompleted, MetadataCompleted, MetadataFailed, ToFinished
  <1>3. CASE ValidateRestore \/ PopulateRestoreResources \/ SyncRestore \/ SyncVolumeRestore
    BY <1>3, LocalTells DEF ValidateRestore, PopulateRestoreResources, SyncRestore, SyncVolumeRestore
  <1>4. CASE CheckPVCRestored \/ CheckVolumeRestoreStatus \/ ListVolumeRestore
    BY <1>4, LocalTells DEF CheckPVCRestored, CheckVolumeRestoreStatus, ListVolumeRestore
  <1>5. CASE ApplyResources \/ RunPostHooks
    BY <1>5, LocalTells DEF ApplyResources, RunPostHooks
  <1>6. CASE Finish
    BY <1>6, StatusTells, LocalTells DEF Finish
  <1>7. CASE EnsureFinalizer
    BY <1>7, PatchTells, LocalTells DEF EnsureFinalizer
  <1>8. CASE AnnotateCleaned
    BY <1>8, PatchTells DEF AnnotateCleaned
  <1>9. CASE AnnotateVolumeRestore
    <2>1. AnnotateRestore("volume-restore-completed", "volCompleted")
      BY <1>9 DEF AnnotateVolumeRestore
    <2> QED BY <2>1, PatchTells, SilentTells DEF AnnotateRestore
  <1>10. CASE ProcessQueue \/ RemoveVolumeRestore
    <2>1. UNCHANGED <<apiVars, cache>>
      BY <1>10 DEF ProcessQueue, RemoveVolumeRestore
    <2> QED BY <2>1, SilentTells
  <1>11. CASE PrepareVolumeRestore
    <2>1. UNCHANGED <<apiVars, cache>> \/ CallFails("error") \/ Local("error")
      BY <1>11 DEF PrepareVolumeRestore
    <2> QED BY <2>1, SilentTells, LocalTells
  <1>12. CASE CreateVRC
    <2>1. UNCHANGED <<apiVars, cache>> \/ CallFails("error")
      BY <1>12 DEF CreateVRC
    <2> QED BY <2>1, SilentTells, LocalTells
  <1>13. CASE CleanupRestoredMetadata
    <2>1. UNCHANGED <<apiVars, cache>> \/ Local("delList") \/ EnvStep("annCleaned")
      BY <1>13 DEF CleanupRestoredMetadata
    <2> QED BY <2>1, SilentTells, LocalTells
  <1>14. CASE RemoveFinalizer
    <2>1. cache' = cache /\ (UNCHANGED apiVars \/ Remove)
      BY <1>14 DEF RemoveFinalizer
    <2> QED BY <2>1 DEF Tells, Kept, Remove, apiVars
  <1> QED BY <1>1, <1>2, <1>3, <1>4, <1>5, <1>6, <1>7, <1>8, <1>9, <1>10, <1>11, <1>12, <1>13,
             <1>14 DEF Worker

\* Every step but a delivery and a crash is told.
LEMMA NextTells ==
    ASSUME [Next]_vars
    PROVE  Tells \/ Informer \/ Crash
  <1>1. CASE Worker
    BY <1>1, WorkerTells
  <1>2. CASE Reconciler
    <2>1. cache' = cache
      BY <1>2 DEF Reconciler, RcStart, RcCheckDeleted, RcList, RcUpdateFailure, RcAnnotate, RcGoto
    <2>2. UNCHANGED apiVars \/ \E b : Commit(b)
      BY <1>2 DEF Reconciler, RcStart, RcCheckDeleted, RcList, RcUpdateFailure, RcAnnotate
    <2> QED BY <2>1, <2>2, CommitTells, SilentTells DEF Tells
  <1>3. CASE UserDelete
    <2>1. cache' = cache /\ (Remove \/ \E b : Commit(b))
      BY <1>3 DEF UserDelete, EnvUnchanged
    <2>2. Remove => watch' = Append(watch, api')
      BY DEF Remove
    <2> QED BY <2>1, <2>2, CommitTells DEF Tells
  <1>4. CASE UserTouch
    BY <1>4 DEF UserTouch, EnvUnchanged, Tells
  <1>5. CASE ServiceFinishes \/ ServiceRemoves \/ UNCHANGED vars
    <2>1. UNCHANGED <<apiVars, cache>>
      BY <1>5 DEF ServiceFinishes, ServiceRemoves, EnvUnchanged, vars, apiVars
    <2> QED BY <2>1, SilentTells
  <1> QED BY <1>1, <1>2, <1>3, <1>4, <1>5 DEF Next, PrepareVolumePanics

\* The newest version stays known.
LEMMA ServerKnownStays ==
    ASSUME TypeOK, TypeOK', ServerKnown, [Next]_vars
    PROVE  ServerKnown'
  <1>1. watch \in Seq(Restore) /\ watch' \in Seq(Restore)
    BY DEF TypeOK
  <1>2. CASE Tells
    <2>1. CASE Kept
      BY <1>2, <2>1 DEF Tells, Kept, ServerKnown
    <2>2. CASE watch' = Append(watch, api')
      <3>1. api' \in Restore
        BY DEF TypeOK
      <3>2. watch' # <<>> /\ watch'[Len(watch')] = api'
        BY <1>1, <2>2, <3>1
      <3> QED BY <3>2 DEF ServerKnown
    <2> QED BY <1>2, <2>1, <2>2 DEF Tells
  <1>3. CASE Informer
    <2>1. watch # <<>> /\ cache' = Head(watch) /\ watch' = Tail(watch) /\ api' = api
      BY <1>3 DEF Informer
    <2>2. watch[Len(watch)] = api
      BY <2>1 DEF ServerKnown
    <2>3. Len(watch') = Len(watch) - 1
          /\ \A i \in 1..Len(watch') : watch'[i] = watch[i + 1]
      BY <1>1, <2>1
    <2>4. CASE Len(watch) = 1
      <3>1. watch' = <<>> /\ cache' = watch[1]
        BY <1>1, <2>1, <2>3, <2>4
      <3> QED BY <2>1, <2>2, <2>4, <3>1 DEF ServerKnown
    <2>5. CASE Len(watch) # 1
      <3>1. watch \in Seq(Restore) /\ watch # <<>>
        BY <1>1, <2>1
      <3>2. Len(watch) \in Nat /\ Len(watch) # 0
        BY ONLY <3>1
      <3>3. Len(watch') \in 1..Len(watch') /\ Len(watch') + 1 = Len(watch)
        BY <2>3, <2>5, <3>2
      <3>4. watch'[Len(watch')] = watch[Len(watch)]
        BY <2>3, <3>3
      <3>5. watch' # <<>>
        BY <1>1, <3>2, <3>3
      <3> QED BY <2>1, <2>2, <3>4, <3>5 DEF ServerKnown
    <2> QED BY <2>4, <2>5
  <1>4. CASE Crash
    BY <1>4 DEF Crash, ServerKnown
  <1> QED BY <1>2, <1>3, <1>4, NextTells

\* The server's old object is among the copies after a write, and no copy is ahead of the
\* server's new one.
LEMMA StageStays ==
    ASSUME TypeOK, StatusInv', ServerKnown, [Next]_vars, api'.rv # 0, api.rv # 0
    PROVE  Rank(api') >= Rank(api)
  <1>1. api \in Restore /\ watch \in Seq(Restore)
    BY DEF TypeOK
  <1>2. CASE api' = api
    BY <1>1, <1>2, RankType
  <1>3. CASE cache' = cache /\ watch' = Append(watch, api')
    <2>1. api \in Copies'
      <3>1. CASE watch = <<>>
        BY <1>3, <3>1 DEF Copies, ServerKnown
      <3>2. CASE watch # <<>>
        <4>1. Len(watch) \in DOMAIN watch /\ watch[Len(watch)] = api
          BY <1>1, <3>2 DEF ServerKnown
        <4>2. Len(watch) \in DOMAIN watch' /\ watch'[Len(watch)] = watch[Len(watch)]
          BY <1>1, <1>3, <3>2
        <4> QED BY <4>1, <4>2 DEF Copies
      <3> QED BY <3>1, <3>2
    <2>2. \A c \in Copies' : Rank(c) <= Rank(api')
      BY DEF StatusInv, CopiesAgree
    <2>3. Rank(api) <= Rank(api')
      BY <2>1, <2>2
    <2>4. Rank(api) \in Nat /\ Rank(api') \in Nat
      <3>1. api' \in Restore
        BY DEF StatusInv, DeletionInv, TypeOK
      <3> QED BY <1>1, <3>1, RankType
    <2> QED BY <2>3, <2>4
  <1>4. CASE Informer \/ Crash
    BY <1>2, <1>4 DEF Informer, Crash
  <1> QED BY <1>2, <1>3, <1>4, NextTells DEF Tells, Kept

\* The stage in the API server never moves back, although worker and reconciler write the
\* whole status from copies of different age and three writes of applyIndexedResource go on
\* after an error (metadatarestore.go:225-314): the first half of OnlyForward.
THEOREM StageGoesForward ==
    Spec => [][api'.rv # 0 /\ api.rv # 0 => Rank(api') >= Rank(api)]_vars
  <1>1. Init => ServerKnown
    BY DEF Init, ServerKnown
  <1>2. ServerKnown /\ StatusInv /\ StatusInv' /\ [Next]_vars => ServerKnown'
    BY ServerKnownStays DEF StatusInv, DeletionInv
  <1>3. ServerKnown /\ StatusInv /\ StatusInv' /\ [Next]_vars
            => [api'.rv # 0 /\ api.rv # 0 => Rank(api') >= Rank(api)]_vars
    BY StageStays DEF StatusInv, DeletionInv
  <1> QED BY <1>1, <1>2, <1>3, StatusInOrder, PTL DEF Spec

-----------------------------------------------------------------------------
(* A failed restore stays failed when nothing disturbs it: what a write leaves *)

\* A failed call is counted.
LEMMA NoFault ==
    ASSUME TypeOK, Fault
    PROVE  disturbed' # 0
  BY DEF TypeOK, Fault, disturbed

\* A call that did not fail is not.
LEMMA CountSame ==
    ASSUME UNCHANGED countVars
    PROVE  disturbed' = disturbed
  BY DEF countVars, disturbed

\* A commit stores the annotations of the object given.
LEMMA CommitAnn ==
    ASSUME api \in Restore, NEW b \in Restore, Commit(b)
    PROVE  api'.ann = b.ann
  <1>1. CASE [b EXCEPT !.rv = api.rv] = api
    BY <1>1 DEF Commit, Restore, apiVars
  <1>2. CASE [b EXCEPT !.rv = api.rv] # api
    BY <1>2 DEF Commit, Restore
  <1> QED BY <1>1, <1>2

\* What a status write comes to if no call fails: it is carried out, or refused.
QuietStatus(b, next, ignored) ==
    \/ /\ Wrote(b) /\ api'.ann = api.ann
       /\ processed' = (IF processed > api'.rv THEN processed ELSE api'.rv)
       /\ Leads(next, api')
    \/ /\ b.rv # api.rv /\ Kept /\ processed' = processed
       /\ Stopped \/ (ignored /\ Leads(next, b))

\* A status write without a failed call has one of these outcomes.
LEMMA QuietStatusStep ==
    ASSUME TypeOK, disturbed' = 0, NEW b \in Restore, b.rv # 0, NEW next \in Nexts, NEW onError,
           UpdateRestoreStatus(b, next, onError)
    PROVE  disturbed = 0 /\ WriteFrame /\ QuietStatus(b, next, onError = "ignore")
  <1>0. api \in Restore /\ watch \in Seq(Restore)
    BY DEF TypeOK
  <1>1. WriteFrame
    BY DEF UpdateRestoreStatus, WriteFrame, WorkerFrame
  <1>2. CASE /\ b.rv = api.rv /\ Commit(StatusOf(b)) /\ StoreRevisionUpdate(api'.rv)
             /\ Continue(next, api') /\ UNCHANGED countVars
    <2>1. StatusOf(b) \in Restore /\ StatusOf(b).ann = api.ann
      BY <1>0, StatusOfType DEF StatusOf, Restore
    <2>2. api' \in Restore /\ Wrote(b) /\ api'.ann = api.ann
      BY <1>0, <1>2, <2>1, StatusOfType, CommitStores, CommitAnn DEF Wrote, Is
    <2>3. Leads(next, api')
      BY <1>2, <2>2, ContinueType
    <2>4. disturbed = 0
      BY <1>2, CountSame
    <2> QED BY <1>1, <1>2, <2>2, <2>3, <2>4 DEF QuietStatus, StoreRevisionUpdate
  <1>3. CASE /\ b.rv # api.rv
             /\ IF onError = "ignore" THEN Continue(next, b)
                ELSE IF api.rv = 0 THEN ReturnErr ELSE Return
             /\ UNCHANGED <<apiVars, processed, countVars>>
    <2>1. Kept
      BY <1>3 DEF apiVars, Kept
    <2>2. (onError = "ignore" /\ Leads(next, b)) \/ Stopped
      BY <1>3, ContinueType, ReturnErrType, ReturnType DEF Stopped
    <2>3. disturbed = 0
      BY <1>3, CountSame
    <2> QED BY <1>1, <1>3, <2>1, <2>2, <2>3 DEF QuietStatus
  <1>4. ~Fault
    BY NoFault
  <1> QED BY <1>2, <1>3, <1>4 DEF UpdateRestoreStatus

\* What a patch comes to if no call fails.
QuietPatch(b, next) ==
    \/ /\ Stored /\ api.rv # 0 /\ Is(b) /\ api'.ann = b.ann
       /\ processed' = (IF processed > api'.rv THEN processed ELSE api'.rv)
       /\ Leads(next, api')
    \/ api.rv = 0 /\ Kept

\* A patch without a failed call has one of these outcomes.
LEMMA QuietPatchStep ==
    ASSUME TypeOK, disturbed' = 0, NEW b \in Restore, NEW next \in Nexts, PatchRestore(b, next)
    PROVE  disturbed = 0 /\ WriteFrame /\ QuietPatch(b, next)
  <1>0. api \in Restore /\ watch \in Seq(Restore)
    BY DEF TypeOK
  <1>1. WriteFrame
    BY DEF PatchRestore, WriteFrame, WorkerFrame
  <1>2. CASE /\ api.rv # 0 /\ Commit(b) /\ StoreRevisionUpdate(api'.rv)
             /\ Continue(next, api') /\ UNCHANGED countVars
    <2>1. api' \in Restore /\ Stored /\ Is(b) /\ api'.ann = b.ann
      BY <1>0, <1>2, CommitStores, CommitAnn
    <2>2. Leads(next, api')
      BY <1>2, <2>1, ContinueType
    <2>3. disturbed = 0
      BY <1>2, CountSame
    <2> QED BY <1>1, <1>2, <2>1, <2>2, <2>3 DEF QuietPatch, StoreRevisionUpdate
  <1>3. CASE api.rv = 0 /\ UNCHANGED <<apiVars, countVars>>
    BY <1>1, <1>3, CountSame DEF QuietPatch, Kept, apiVars
  <1>4. ~Fault
    BY NoFault
  <1> QED BY <1>2, <1>3, <1>4 DEF PatchRestore

\* A call that was not counted did not fail.
LEMMA QuietLocalStep ==
    ASSUME TypeOK, disturbed' = 0, NEW next \in Nexts, Local(next) \/ CallFails(next)
    PROVE  disturbed = 0 /\ WriteFrame /\ LocalOutcome(next) /\ Local(next)
  <1>1. Local(next)
    BY NoFault DEF CallFails
  <1>2. disturbed = 0
    BY <1>1, CountSame DEF Local
  <1> QED BY <1>1, <1>2, LocalStep

\* The server's object is let through, and so passes.
LEMMA ServerPasses ==
    ASSUME StatusInv, Quiet
    PROVE  /\ api \in Through /\ processed <= api.rv /\ (pc # "idle" => w.rv <= api.rv)
           /\ api \in Restore /\ w \in Restore /\ processed \in Nat
           /\ \A c \in Through : c \in Restore /\ c.rv <= api.rv
  <1>1. /\ TypeOK /\ api \in Restore /\ w \in Restore /\ processed \in Nat
        /\ cache \in Restore /\ watch \in Seq(Restore)
    BY DEF StatusInv, DeletionInv, TypeOK
  <1>2. processed <= api.rv /\ (pc # "idle" => w.rv <= processed)
    BY DEF StatusInv, ProcessedBounds, Quiet
  <1>3. w.rv \in Nat /\ api.rv \in Nat
    BY <1>1 DEF Restore
  <1>4. \A c \in Copies : c \in Restore
    BY <1>1 DEF Copies
  <1>5. \A c \in Copies : c.rv <= api.rv
    BY DEF StatusInv, CopiesAgree, Quiet
  <1> QED BY <1>1, <1>2, <1>3, <1>4, <1>5 DEF Through, Quiet

\* After a write of the worker the store lets through what was written, and nothing else.
LEMMA WrittenServer ==
    ASSUME StatusInv, StatusInv', Quiet, Quiet', Stored, cache' = cache,
           processed' = (IF processed > api'.rv THEN processed ELSE api'.rv), attempt' = attempt,
           ~api'.fin => api'.state = "unset" /\ ~api'.del,
           api'.stage = "Volumes" /\ api'.state = "Processing" => attempt <= 1,
           Rank(api') = 0 => attempt = 0
    PROVE  /\ QuietServer' /\ processed' = api'.rv
           /\ \A b : b.stage = api'.stage /\ b.state = api'.state => Passed(b)'
  <1>1. TypeOK /\ TypeOK' /\ processed <= api.rv
    BY ServerPasses DEF StatusInv, DeletionInv
  <1>2. api'.rv \in Nat /\ api.rv \in Nat /\ api'.rv >= api.rv /\ processed \in Nat
    <2>1. api' \in Restore /\ api \in Restore /\ processed \in Nat
      BY <1>1 DEF TypeOK
    <2> QED BY <1>1, <2>1, StoredCopies DEF Restore, Quiet
  <1>3. processed' = api'.rv
    BY <1>1, <1>2
  <1>4. \A c \in Through' : c = api'
    <2>1. \A c \in Copies' : c \in Restore
      <3>1. cache' \in Restore /\ watch' \in Seq(Restore)
        BY <1>1 DEF TypeOK
      <3> QED BY <3>1 DEF Copies
    <2>2. \A c \in Copies' : c.rv <= api'.rv /\ (c.rv = api'.rv => c = api')
      BY DEF StatusInv, CopiesAgree, Quiet
    <2>3. \A c \in Copies' : c.rv \in Nat
      BY <2>1 DEF Restore
    <2> QED BY <1>2, <1>3, <2>2, <2>3 DEF Through
  <1>5. \A b : b.stage = api'.stage /\ b.state = api'.state => Passed(b)'
    BY <1>4 DEF Passed
  <1>6. \A c \in Through' : c.fin = api'.fin /\ Passed(c)'
    BY <1>4, <1>5
  <1>7. QuietServer'
    <2>1. Untried(api') => processed' = api'.rv
      BY <1>3
    <2> QED BY <1>6, <2>1 DEF QuietServer, Passed
  <1> QED BY <1>3, <1>5, <1>7

\* Where nothing is written what passed passes, as long as a failed VRC is remembered.
LEMMA SilentServer ==
    ASSUME QuietServer, Kept, cache' = cache, processed' = processed, attempt' = attempt,
           VolumeFailed => VolumeFailed'
    PROVE  QuietServer' /\ \A b : Passed(b) => Passed(b)'
  <1>1. Through' = Through
    BY DEF Through, Copies, Kept
  <1>2. \A b : Passed(b) => Passed(b)'
    BY <1>1 DEF Passed, Kept
  <1>3. \A c \in Through' : c.fin = api'.fin /\ Passed(c)'
    BY <1>1, <1>2 DEF QuietServer, Kept
  <1> QED BY <1>2, <1>3 DEF QuietServer, Passed, Kept, Untried

\* The worker on its way through syncRestore leaves reconciler and verdicts alone.
LEMMA SyncStands ==
    ASSUME pc \in SyncerPcs, QuietReconciler, cache' = cache, UNCHANGED rcVars, vdel' = vdel,
           \A v \in LiveVRCs : v \in LiveVRCs' /\ vrc'[v] = vrc[v],
           api.del => api'.del
    PROVE  (VolumeFailed => VolumeFailed') /\ QuietReconciler' /\ vdel = {}
  <1>1. ~Deleting
    BY PathPcs DEF Deleting, SyncerPcs
  <1>2. VolumeFailed => VolumeFailed'
    BY <1>1 DEF VolumeFailed
  <1>3. vdel = {}
    BY <1>1 DEF QuietReconciler
  <1> QED BY <1>2, <1>3 DEF QuietReconciler, rcVars
-----------------------------------------------------------------------------
(* A failed restore stays failed when nothing disturbs it: the worker *)

QuietNexts == (SyncPcs \ (CreatePcs \cup {"count", "annVolume"})) \cup {"return", "error"}

\* The VRCs stay as they are.
LEMMA SameVRCs ==
    ASSUME UNCHANGED volVars
    PROVE  LiveVRCs' = LiveVRCs /\ vrc' = vrc /\ vdel' = vdel /\ backed' = backed /\ attempt' = attempt
  BY DEF volVars, LiveVRCs, VRCs

\* A status write of syncRestore, of the object b made from the worker's copy.
LEMMA QuietWrites ==
    ASSUME StatusInv, StatusInv', QuietInv, Quiet', pc \in SyncPcs,
           NEW b \in Restore, b.rv = w.rv, b.ann = w.ann, b.del = w.del,
           NEW next \in QuietNexts, NEW onError, UpdateRestoreStatus(b, next, onError),
           b.state = "Failed" => next \in {"popFailed2", "return", "error"},
           w.rv = api.rv /\ b.stage = "Volumes" /\ b.state = "Processing" => attempt <= 1,
           w.rv = api.rv /\ (Rank(b) = 0 \/ Untried(b)) => attempt = 0,
           next \in StartPcs => pc \in StartPcs,
           onError = "ignore" /\ next \notin Ahead =>
               pc \notin Ahead /\ b.stage = w.stage /\ b.state = w.state,
           pc = "popFailed2" => b.state = "Failed"
    PROVE  QuietInv' /\ (api.state = "Failed" => api'.state = "Failed")
  <1>0. /\ TypeOK /\ pc # "idle" /\ pc \in SyncerPcs /\ pc # "finalizer" /\ w.rv # 0
        /\ next \in Nexts
    BY PathPcs DEF StatusInv, DeletionInv, HandlersHold, SyncerPcs, QuietNexts, Nexts
  <1>1. disturbed = 0 /\ WriteFrame /\ QuietStatus(b, next, onError = "ignore")
    BY <1>0, QuietStatusStep DEF Quiet
  <1>2. Quiet
    BY <1>1 DEF QuietStatus, Wrote, Kept, Quiet
  <1>3. QuietServer /\ QuietReconciler /\ QuietWorker /\ QuietVolumes
    BY <1>2 DEF QuietInv
  <1>4. /\ cache' = cache /\ UNCHANGED rcVars /\ LiveVRCs' = LiveVRCs /\ vrc' = vrc
        /\ vdel' = vdel /\ backed' = backed /\ attempt' = attempt
    BY <1>1, SameVRCs DEF WriteFrame, WorkerFrame
  <1>5. api'.del = api.del
    BY <1>1 DEF QuietStatus, Wrote, Kept
  <1>6. (VolumeFailed => VolumeFailed') /\ QuietReconciler'
    BY <1>0, <1>3, <1>4, <1>5, SyncStands
  <1>7. next \in Pcs => next \in SyncPcs \ (CreatePcs \cup {"count", "annVolume", "finalizer"})
    BY PathPcs DEF QuietNexts
  <1>8. CASE /\ Wrote(b) /\ api'.ann = api.ann
             /\ processed' = (IF processed > api'.rv THEN processed ELSE api'.rv)
             /\ Leads(next, api')
    <2>1. /\ w.rv = api.rv /\ api'.stage = b.stage /\ api'.state = b.state
          /\ w.stage = api.stage /\ w.state = api.state /\ w.ann = api.ann /\ w.del = api.del
      BY <1>0, <1>3, <1>8 DEF Wrote, QuietWorker
    <2>2. api'.fin
      BY <1>8, PathPcs DEF Wrote, StatusInv, DeletionInv, FinalizerHeld
    <2>3. Rank(api') = Rank(b)
      BY <2>1 DEF Rank
    <2>4. /\ QuietServer' /\ processed' = api'.rv
          /\ \A c : c.stage = api'.stage /\ c.state = api'.state => Passed(c)'
      BY <1>2, <1>4, <1>8, <2>1, <2>2, <2>3, WrittenServer DEF Wrote
    <2>5. Untried(api') => attempt = 0
      BY <1>5, <1>8, <2>1 DEF Untried
    <2>6. QuietVolumes'
      BY <1>3, <1>4, <1>7, <1>8, <2>5, PathPcs DEF QuietVolumes, Leads
    <2>7. QuietWorker'
      <3>1. CASE pc' = "idle"
        BY <3>1 DEF QuietWorker
      <3>2. CASE pc' = next /\ next \in Pcs /\ w' = api'
        <4>1. Passed(w)'
          BY <2>4, <3>2
        <4>2. pc' \in SyncerPcs /\ w'.state = "Failed" => pc' = "popFailed2"
          BY <2>1, <3>2, PathPcs
        <4>3. pc' \in StartPcs => ~w'.del
          BY <1>0, <1>3, <1>5, <2>1, <3>2 DEF QuietWorker
        <4>4. pc' \notin CreatePcs /\ pc' # "count" /\ pc' # "finalizer"
          BY <1>7, <3>2
        <4> QED BY <2>4, <3>2, <4>1, <4>2, <4>3, <4>4 DEF QuietWorker
      <3> QED BY <1>8, <3>1, <3>2 DEF Leads
    <2>8. api.state = "Failed" => api'.state = "Failed"
      BY <1>0, <1>3, <2>1 DEF QuietWorker
    <2> QED BY <1>6, <2>4, <2>6, <2>7, <2>8 DEF QuietInv
  <1>9. CASE /\ b.rv # api.rv /\ Kept /\ processed' = processed
             /\ Stopped \/ (onError = "ignore" /\ Leads(next, b))
    <2>1. QuietServer' /\ \A c : Passed(c) => Passed(c)'
      BY <1>3, <1>4, <1>6, <1>9, SilentServer
    <2>2. QuietVolumes'
      BY <1>3, <1>4, <1>7, <1>9, PathPcs DEF QuietVolumes, Leads, Stopped, Kept
    <2>3. QuietWorker'
      <3>1. CASE pc' = "idle"
        BY <3>1 DEF QuietWorker
      <3>2. CASE pc' = next /\ next \in Pcs /\ w' = b /\ onError = "ignore"
        <4>1. pc' \in SyncerPcs \ Ahead => Passed(w)'
          <5>1. pc' \in SyncerPcs \ Ahead => Passed(w) /\ b.stage = w.stage /\ b.state = w.state
            BY <1>0, <1>3, <3>2 DEF QuietWorker
          <5>2. pc' \in SyncerPcs \ Ahead => Passed(b)
            BY <5>1 DEF Passed
          <5> QED BY <2>1, <3>2, <5>2
        <4>2. pc' \in SyncerPcs /\ w'.state = "Failed" => pc' = "popFailed2"
          BY <3>2, PathPcs
        <4>3. pc' \in StartPcs => ~w'.del
          BY <1>0, <1>3, <3>2 DEF QuietWorker
        <4>4. pc' \notin CreatePcs /\ pc' # "count" /\ pc' # "finalizer"
          BY <1>7, <3>2
        <4>5. w'.rv = processed' /\ w'.rv # api'.rv
          BY <1>0, <1>3, <1>9, <3>2 DEF QuietWorker, Kept
        <4> QED BY <3>2, <4>1, <4>2, <4>3, <4>4, <4>5 DEF QuietWorker
      <3> QED BY <1>9, <3>1, <3>2 DEF Leads, Stopped
    <2> QED BY <1>6, <1>9, <2>1, <2>2, <2>3 DEF QuietInv, Kept
  <1> QED BY <1>1, <1>8, <1>9 DEF QuietStatus

\* A step of syncRestore that writes nothing, or creates a VRC.
LEMMA QuietGoes ==
    ASSUME StatusInv, QuietInv, Quiet, pc \in SyncerPcs \ {"popFailed2"}, WorkerFrame,
           NEW next \in SyncNexts, LocalOutcome(next),
           vdel' = vdel, backed' = backed, attempt' = attempt,
           \A v \in LiveVRCs : v \in LiveVRCs' /\ vrc'[v] = vrc[v],
           \A v \in LiveVRCs' : v \in LiveVRCs \/ (v[1] <= attempt /\ v[2] \in backed),
           pc \in {"createVRC", "processing"} => next \in {"createVRC", "processing"},
           next \in SyncPcs \ Ahead => pc \notin Ahead,
           next \in StartPcs => pc \in StartPcs,
           next \in CreatePcs => Untried(w),
           next = "count" => w.state = "Processing",
           next = "annVolume" => \A v \in LiveVRCs' : vrc'[v] = "Completed"
    PROVE  QuietInv'
  <1>0. /\ pc # "idle" /\ QuietServer /\ QuietReconciler /\ QuietWorker /\ QuietVolumes
    BY PathPcs DEF QuietInv, SyncerPcs
  <1>1. cache' = cache /\ UNCHANGED rcVars /\ Kept /\ processed' = processed /\ Leads(next, w)
    BY DEF WorkerFrame, LocalOutcome
  <1>2. (VolumeFailed => VolumeFailed') /\ QuietReconciler'
    BY <1>0, <1>1, SyncStands DEF Kept
  <1>3. QuietServer' /\ \A c : Passed(c) => Passed(c)'
    BY <1>0, <1>1, <1>2, SilentServer
  <1>4. CASE pc' = "idle" /\ next \in {"return", "error"}
    <2>1. QuietWorker'
      BY <1>4 DEF QuietWorker
    <2>2. QuietVolumes'
      BY <1>0, <1>1, <1>4 DEF QuietVolumes, Kept
    <2> QED BY <1>2, <1>3, <2>1, <2>2 DEF QuietInv
  <1>5. CASE pc' = next /\ next \in SyncPcs /\ w' = w
    <2>1. pc' # "finalizer" /\ pc' # "idle"
      BY <1>5, PathPcs
    <2>2. pc' \notin Ahead => Passed(w)'
      <3>1. pc' \notin Ahead => Passed(w)
        BY <1>0, <1>5 DEF QuietWorker
      <3> QED BY <1>3, <1>5, <3>1
    <2>3. w'.state # "Failed"
      BY <1>0, <1>5 DEF QuietWorker
    <2>4. QuietWorker'
      BY <1>0, <1>1, <1>5, <2>1, <2>2, <2>3 DEF QuietWorker, Kept
    <2>5. QuietVolumes'
      BY <1>0, <1>1, <1>5 DEF QuietVolumes, Kept
    <2> QED BY <1>2, <1>3, <2>4, <2>5 DEF QuietInv
  <1> QED BY <1>1, <1>4, <1>5, PathPcs DEF Leads, SyncNexts

\* What a status write relies on besides: no VRC before stage Volumes, none before the
\* first attempt, and one attempt until Processing is written.
LEMMA WriterKnows ==
    ASSUME StatusInv, QuietInv, Quiet, pc \in SyncPcs, w.rv = api.rv
    PROVE  /\ Rank(w) = 0 => attempt = 0
           /\ Untried(w) /\ attempt # 0 => attempt = 1 /\ pc \in {"createVRC", "processing"}
           /\ w.stage = "Volumes" /\ w.state = "Processing" /\ pc \notin Ahead => attempt <= 1
           /\ pc = "processing" => attempt <= 1
  <1>1. pc # "idle" /\ pc \in SyncerPcs
    BY PathPcs DEF SyncerPcs
  <1>2. /\ w.stage = api.stage /\ w.state = api.state /\ w.ann = api.ann /\ w.del = api.del
        /\ pc \in CreatePcs => Untried(w)
        /\ pc \notin Ahead => Passed(w)
    BY <1>1 DEF QuietInv, QuietWorker
  <1>3. Rank(w) = Rank(api)
    BY <1>2 DEF Rank
  <1>4. Untried(w) => Untried(api)
    BY <1>2 DEF Untried
  <1>5. attempt \in Nat
    BY RestoreAssumption DEF StatusInv, DeletionInv, TypeOK
  <1> QED BY <1>2, <1>3, <1>4, <1>5 DEF QuietInv, QuietServer, QuietVolumes, Passed, CreatePcs

\* A status write that changes the state only
LEMMA QuietStateWrites ==
    ASSUME StatusInv, StatusInv', QuietInv, Quiet', pc \in SyncPcs,
           NEW state \in States \ {"unset", "New"}, NEW next \in QuietNexts \ StartPcs, NEW onError,
           UpdateRestoreStatus(WithState(state), next, onError),
           state = "Failed" => next \in {"popFailed2", "return", "error"},
           state = "Processing" => pc = "processing",
           onError = "ignore" => next \in Ahead,
           pc = "popFailed2" => state = "Failed"
    PROVE  QuietInv' /\ (api.state = "Failed" => api'.state = "Failed")
  <1>1. TypeOK /\ w \in Restore /\ w.rv # 0 /\ next \in Nexts
    BY PathPcs DEF StatusInv, DeletionInv, TypeOK, HandlersHold, QuietNexts, Nexts
  <1> DEFINE b == WithState(state)
  <1>2. /\ b \in Restore /\ b.rv = w.rv /\ b.ann = w.ann /\ b.del = w.del /\ b.state = state
        /\ Rank(b) = Rank(w)
    BY <1>1, StateChanged DEF WithState, Restore
  <1>3. UpdateRestoreStatus(b, next, onError)
    OBVIOUS
  <1> HIDE DEF b
  <1>4. disturbed = 0 /\ QuietStatus(b, next, onError = "ignore")
    BY <1>1, <1>2, <1>3, QuietStatusStep DEF Quiet
  <1>5. Quiet
    BY <1>4 DEF QuietStatus, Wrote, Kept, Quiet
  <1>6. ~Untried(b)
    BY <1>2 DEF Untried
  <1> QED BY <1>2, <1>3, <1>5, <1>6, WriterKnows, QuietWrites

\* The calls, as far as these lemmas ask
LEMMA QuietPcs ==
    /\ {"init", "invalid", "validated", "popFailed", "popFailed2", "record", "volFailed",
        "volCompleted", "processing", "toResources", "appliedAll", "toPostHook", "hooksDone",
        "resCompleted", "resFailed", "toFinished", "finished"} \subseteq SyncPcs
    /\ {"validate", "populate", "dispatch", "error", "return", "popFailed2", "toResources", "apply",
        "toPostHook", "hooks", "resCompleted", "toFinished", "finished"} \subseteq QuietNexts
    /\ {"error", "return", "popFailed2", "toResources", "apply", "toPostHook", "hooks",
        "resCompleted", "toFinished", "finished"} \cap StartPcs = {}
    /\ {"popFailed2", "toPostHook", "hooks", "resCompleted"} \subseteq Ahead
    /\ "record" \notin Ahead /\ {"init", "validated", "record"} \subseteq StartPcs
  BY DEF QuietNexts, SyncPcs, DeletePcs, Pcs, StartPcs, CreatePcs, Ahead

\* The status writes of syncRestore that change the state only
LEMMA StateWritersStay ==
    ASSUME StatusInv, StatusInv', QuietInv, Quiet',
           \/ ValidationFailed \/ PopulateFailed \/ VolumeRestoreFailed \/ VolumeRestoreCompleted
           \/ VolumeRestoreProcessing \/ ApplyCompleted \/ HooksCompleted \/ MetadataCompleted
           \/ MetadataFailed \/ (Finish /\ w.state # "Completed")
    PROVE  QuietInv' /\ (api.state = "Failed" => api'.state = "Failed")
  <1>1. {"Failed", "Completed", "Processing"} \subseteq States \ {"unset", "New"}
    BY DEF States
  <1>2. CASE ValidationFailed
    <2>1. pc = "invalid" /\ UpdateRestoreStatus(WithState("Failed"), "error", "return")
      BY <1>2 DEF ValidationFailed
    <2> QED BY <1>1, <2>1, QuietPcs, QuietStateWrites
  <1>3. CASE pc = "popFailed" /\ UpdateRestoreStatus(WithState("Failed"), "popFailed2", "ignore")
    BY <1>1, <1>3, QuietPcs, QuietStateWrites
  <1>4. CASE \E at \in {"popFailed2", "volFailed", "resFailed"} :
                 pc = at /\ UpdateRestoreStatus(WithState("Failed"), "return", "return")
    BY <1>1, <1>4, QuietPcs, QuietStateWrites
  <1>5. CASE pc = "volCompleted" /\ UpdateRestoreStatus(WithState("Completed"), "toResources", "return")
    BY <1>1, <1>5, QuietPcs, QuietStateWrites
  <1>6. CASE pc = "processing" /\ UpdateRestoreStatus(WithState("Processing"), "return", "return")
    BY <1>1, <1>6, QuietPcs, QuietStateWrites
  <1>7. CASE pc = "appliedAll" /\ UpdateRestoreStatus(WithState("Completed"), "toPostHook", "ignore")
    BY <1>1, <1>7, QuietPcs, QuietStateWrites
  <1>8. CASE pc = "hooksDone" /\ UpdateRestoreStatus(WithState("Completed"), "resCompleted", "ignore")
    BY <1>1, <1>8, QuietPcs, QuietStateWrites
  <1>9. CASE pc = "resCompleted" /\ UpdateRestoreStatus(WithState("Completed"), "toFinished", "return")
    BY <1>1, <1>9, QuietPcs, QuietStateWrites
  <1>10. CASE pc = "finished" /\ UpdateRestoreStatus(WithState("Completed"), "return", "return")
    BY <1>1, <1>10, QuietPcs, QuietStateWrites
  <1> QED BY <1>2, <1>3, <1>4, <1>5, <1>6, <1>7, <1>8, <1>9, <1>10
          DEF PopulateFailed, VolumeRestoreFailed, MetadataFailed, VolumeRestoreCompleted,
              VolumeRestoreProcessing, ApplyCompleted, HooksCompleted, MetadataCompleted, Finish

\* The other status writes
LEMMA StageWritersStay ==
    ASSUME StatusInv, StatusInv', QuietInv, Quiet',
           InitRestore \/ Validated \/ PatchRestoreObjects \/ ToResources \/ ToPostHook \/ ToFinished
    PROVE  QuietInv' /\ (api.state = "Failed" => api'.state = "Failed")
  <1>1. TypeOK /\ w \in Restore /\ StageAt(pc, w)
    BY WorkerStageAt DEF StatusInv, DeletionInv, TypeOK
  <1>2. pc \in SyncPcs
    BY QuietPcs DEF InitRestore, Validated, PatchRestoreObjects, ToResources, ToPostHook, ToFinished
  <1>3. w.rv # 0 /\ pc # "idle" /\ pc \in SyncerPcs
    BY <1>2, PathPcs DEF StatusInv, DeletionInv, HandlersHold, SyncerPcs
  <1>4. ASSUME NEW b \in Restore, NEW next \in QuietNexts, NEW onError, b.rv = w.rv,
               UpdateRestoreStatus(b, next, onError)
        PROVE  Quiet
    <2>1. next \in Nexts
      BY PathPcs DEF QuietNexts, Nexts
    <2>2. disturbed = 0 /\ QuietStatus(b, next, onError = "ignore")
      BY <1>1, <1>3, <1>4, <2>1, QuietStatusStep DEF Quiet
    <2> QED BY <2>2 DEF QuietStatus, Wrote, Kept, Quiet
  <1>5. Quiet /\ pc # "popFailed2" => w.state # "Failed"
    BY <1>3 DEF QuietInv, QuietWorker
  <1>6. CASE InitRestore
    <2> DEFINE stage == IF w.stage = "unset" THEN "Initial" ELSE w.stage
               state == IF w.state = "unset" THEN "New" ELSE w.state
               b == [w EXCEPT !.stage = stage, !.state = state]
    <2>1. stage \in Stages /\ state \in States /\ (w.state # "Failed" => state # "Failed")
      BY <1>1, Values DEF Restore
    <2>2. pc = "init" /\ UpdateRestoreStatus(b, "validate", "return")
      BY <1>6 DEF InitRestore
    <2>3. Rank(w) = 0 /\ w.stage \in {"unset", "Initial"}
      BY <1>1, <2>2, RankType DEF StageAt
    <2>4. stage \in {"unset", "Initial"}
      BY <2>3
    <2> HIDE DEF stage, state
    <2>5. /\ b \in Restore /\ b.rv = w.rv /\ b.stage = stage /\ b.state = state
          /\ b.ann = w.ann /\ b.del = w.del
      BY <1>1, <2>1 DEF Restore
    <2> HIDE DEF b
    <2>6. Quiet
      BY <1>4, <2>2, <2>5, QuietPcs
    <2>7. ~Untried(b) /\ b.stage # "Volumes"
      BY <2>4, <2>5 DEF Untried
    <2> QED BY <1>2, <1>5, <2>1, <2>2, <2>3, <2>5, <2>6, <2>7, QuietPcs, WriterKnows, QuietWrites
  <1>7. CASE Validated
    <2> DEFINE b == [w EXCEPT !.stage = "Volumes", !.state = "New"]
    <2>1. pc = "validated" /\ UpdateRestoreStatus(b, "populate", "return")
      BY <1>7 DEF Validated
    <2>2. /\ b \in Restore /\ b.rv = w.rv /\ b.stage = "Volumes" /\ b.state = "New"
          /\ b.ann = w.ann /\ b.del = w.del
      BY <1>1, Values DEF Restore
    <2> HIDE DEF b
    <2>3. Rank(w) = 0
      BY <1>1, <2>1 DEF StageAt
    <2>4. Quiet
      BY <1>4, <2>1, <2>2, QuietPcs
    <2> QED BY <1>2, <2>1, <2>2, <2>3, <2>4, QuietPcs, WriterKnows, QuietWrites
  <1>8. CASE PatchRestoreObjects
    <2> DEFINE b == [w EXCEPT !.res = TRUE]
    <2>1. pc = "record" /\ UpdateRestoreStatus(b, "dispatch", "ignore")
      BY <1>8 DEF PatchRestoreObjects
    <2>2. /\ b \in Restore /\ b.rv = w.rv /\ b.stage = w.stage /\ b.state = w.state
          /\ b.ann = w.ann /\ b.del = w.del
      BY <1>1 DEF Restore
    <2> HIDE DEF b
    <2>3. Rank(b) = Rank(w) /\ (Untried(b) => Untried(w))
      BY <2>2 DEF Rank, Untried
    <2>4. Quiet
      BY <1>4, <2>1, <2>2, QuietPcs
    <2> QED BY <1>2, <1>5, <2>1, <2>2, <2>3, <2>4, QuietPcs, WriterKnows, QuietWrites
  <1>9. CASE ToResources
    <2> DEFINE b == [w EXCEPT !.stage = "Resources", !.state = "New"]
    <2>1. pc = "toResources" /\ UpdateRestoreStatus(b, "apply", "return")
      BY <1>9 DEF ToResources
    <2>2. /\ b \in Restore /\ b.rv = w.rv /\ b.stage = "Resources" /\ b.state = "New"
          /\ b.ann = w.ann /\ b.del = w.del
      BY <1>1, Values DEF Restore
    <2> HIDE DEF b
    <2>3. Rank(b) = 2 /\ ~Untried(b)
      BY <2>2, RankType DEF Untried
    <2> QED BY <1>2, <2>1, <2>2, <2>3, QuietPcs, QuietWrites
  <1>10. CASE ToPostHook
    <2> DEFINE b == [w EXCEPT !.state = "Processing", !.stage = "PostHook"]
    <2>1. pc = "toPostHook" /\ UpdateRestoreStatus(b, "hooks", "ignore")
      BY <1>10 DEF ToPostHook
    <2>2. /\ b \in Restore /\ b.rv = w.rv /\ b.stage = "PostHook" /\ b.state = "Processing"
          /\ b.ann = w.ann /\ b.del = w.del
      BY <1>1, Values DEF Restore
    <2> HIDE DEF b
    <2>3. Rank(b) = 3 /\ ~Untried(b)
      BY <2>2, RankType DEF Untried
    <2> QED BY <1>2, <2>1, <2>2, <2>3, QuietPcs, QuietWrites
  <1>11. CASE ToFinished
    <2> DEFINE b == [w EXCEPT !.stage = "Finished"]
    <2>1. pc = "toFinished" /\ UpdateRestoreStatus(b, "finished", "return")
      BY <1>11 DEF ToFinished
    <2>2. /\ b \in Restore /\ b.rv = w.rv /\ b.stage = "Finished" /\ b.state = w.state
          /\ b.ann = w.ann /\ b.del = w.del
      BY <1>1, Values DEF Restore
    <2> HIDE DEF b
    <2>3. Rank(b) = 4 /\ ~Untried(b)
      BY <2>2, RankType DEF Untried
    <2>4. w.state = "Completed"
      BY <1>1, <2>1 DEF StageAt
    <2> QED BY <1>2, <2>1, <2>2, <2>3, <2>4, QuietPcs, QuietWrites
  <1> QED BY <1>6, <1>7, <1>8, <1>9, <1>10, <1>11

\* As many finished VRCs as claims, all of one attempt: every VRC is finished.
LEMMA CountedMeansAll ==
    ASSUME TypeOK, \A v \in LiveVRCs : v[1] <= attempt /\ v[2] \in backed, attempt <= 1,
           Cardinality({v \in LiveVRCs : vrc[v] = "Completed"}) = Cardinality(wanted)
    PROVE  \A v \in LiveVRCs : vrc[v] = "Completed"
  <1> DEFINE done == {v \in LiveVRCs : vrc[v] = "Completed"}
             claim == [v \in done |-> v[2]]
  <1>1. IsFiniteSet(wanted)
    BY RestoreAssumption, FS_Subset DEF TypeOK
  <1>2. \A v \in LiveVRCs : v \in VRCs /\ v[1] = 1 /\ v[2] \in wanted /\ v = <<v[1], v[2]>>
    BY RestoreAssumption DEF LiveVRCs, VRCs, TypeOK
  <1>3. \A v \in done : v \in LiveVRCs /\ vrc[v] = "Completed"
    OBVIOUS
  <1>4. Cardinality(done) = Cardinality(wanted)
    OBVIOUS
  <1>5. \A u, v \in done : claim[u] = claim[v] => u = v
    BY <1>2
  <1> HIDE DEF done
  <1>6. claim \in Injection(done, wanted)
    BY <1>2, <1>3, <1>5 DEF Injection, IsInjective
  <1> HIDE DEF claim
  <1>7. claim \in Surjection(done, wanted)
    BY <1>1, <1>4, <1>6, FS_Injection
  <1>8. \A p \in wanted : \E u \in done : claim[u] = p
    BY <1>7 DEF Surjection
  <1>9. ASSUME NEW v \in LiveVRCs
        PROVE  vrc[v] = "Completed"
    <2>1. PICK u \in done : claim[u] = v[2]
      BY <1>2, <1>8
    <2>2. u[2] = v[2]
      BY <2>1 DEF claim
    <2>3. u = v
      BY <1>2, <1>3, <2>1, <2>2
    <2> QED BY <1>3, <2>1, <2>3
  <1> QED BY <1>9

\* A local step of syncRestore: what QuietGoes asks of the next call, and no more.
LEMMA QuietLocals ==
    ASSUME StatusInv, QuietInv, Quiet', pc \in SyncerPcs \ {"popFailed2", "createVRC", "processing"},
           NEW next \in SyncNexts, Local(next) \/ CallFails(next),
           next \in SyncPcs \ Ahead => pc \notin Ahead,
           next \in StartPcs => pc \in StartPcs,
           next \in CreatePcs => Untried(w),
           next = "count" => w.state = "Processing",
           next = "annVolume" => \A v \in LiveVRCs : vrc[v] = "Completed"
    PROVE  QuietInv'
  <1>1. TypeOK /\ next \in Nexts
    BY PathPcs DEF StatusInv, DeletionInv, SyncNexts, Nexts
  <1>2. disturbed = 0 /\ WriteFrame /\ LocalOutcome(next)
    BY <1>1, QuietLocalStep DEF Quiet
  <1>3. Quiet /\ WorkerFrame
    BY <1>2 DEF Quiet, LocalOutcome, Kept, WriteFrame
  <1>4. LiveVRCs' = LiveVRCs /\ vrc' = vrc /\ vdel' = vdel /\ backed' = backed /\ attempt' = attempt
    BY <1>2, SameVRCs DEF WriteFrame
  <1> QED BY <1>2, <1>3, <1>4, QuietGoes

\* Steps of the environment inside a call
LEMMA QuietEnvSteps ==
    ASSUME StatusInv, QuietInv, Quiet', NEW next \in {"appliedAll", "resFailed", "hooksDone"},
           EnvStep(next), pc \in {"apply", "hooks"}, pc = "hooks" => next # "appliedAll",
           WorkerFrame, LocalOutcome(next)
    PROVE  QuietInv'
  <1>1. disturbed = 0 /\ UNCHANGED volVars
    BY CountSame DEF EnvStep, Quiet
  <1>2. Quiet
    BY <1>1 DEF Quiet, LocalOutcome, Kept
  <1>3. LiveVRCs' = LiveVRCs /\ vrc' = vrc /\ vdel' = vdel /\ backed' = backed /\ attempt' = attempt
    BY <1>1, SameVRCs
  <1>4. pc \in SyncerPcs \ {"popFailed2", "createVRC", "processing"} /\ next \in SyncNexts
    BY DEF SyncerPcs, SyncNexts, SyncPcs, DeletePcs, Pcs
  <1>5. next \notin StartPcs /\ next \notin CreatePcs /\ next # "count" /\ next # "annVolume"
    BY DEF StartPcs, CreatePcs
  <1>6. next \in SyncPcs \ Ahead => pc \notin Ahead
    BY DEF Ahead
  <1> QED BY <1>2, <1>3, <1>4, <1>5, <1>6, QuietGoes

\* The steps of syncRestore without a write of the object
LEMMA LocalsStay ==
    ASSUME StatusInv, QuietInv, Quiet',
           \/ ValidateRestore \/ PopulateRestoreResources \/ SyncRestore \/ SyncVolumeRestore
           \/ CheckPVCRestored \/ CheckVolumeRestoreStatus \/ ApplyResources \/ RunPostHooks
           \/ (Finish /\ w.state = "Completed")
    PROVE  QuietInv' /\ api' = api
  <1>0. TypeOK /\ StageAt(pc, w)
    BY WorkerStageAt DEF StatusInv, DeletionInv
  <1>1. api' = api
    BY DEF ValidateRestore, PopulateRestoreResources, SyncRestore, SyncVolumeRestore, CheckPVCRestored,
           CheckVolumeRestoreStatus, ApplyResources, RunPostHooks, Finish, Local, CallFails, EnvStep,
           apiVars
  <1>2. /\ {"validate", "populate", "dispatch", "volumes", "checkPVC", "count", "finished"}
             \subseteq SyncerPcs \ ({"popFailed2", "createVRC", "processing"} \cup Ahead)
        /\ {"validate", "populate", "dispatch", "volumes"} \subseteq StartPcs
    BY DEF SyncerPcs, SyncPcs, DeletePcs, Pcs, StartPcs, Ahead
  <1>3. {"validated", "invalid", "record", "popFailed", "volumes", "apply", "toFinished", "finished",
         "return", "error", "toResources", "checkPVC", "annVolume", "count", "prepare", "volCompleted",
         "volFailed"} \subseteq SyncNexts
    BY DEF SyncNexts, SyncPcs, DeletePcs, Pcs
  <1>4. CASE ValidateRestore \/ PopulateRestoreResources
    <2>1. PICK next \in {"validated", "invalid", "record", "popFailed"} : Local(next)
      BY <1>4 DEF ValidateRestore, PopulateRestoreResources
    <2>2. pc \in {"validate", "populate"}
      BY <1>4 DEF ValidateRestore, PopulateRestoreResources
    <2>3. next \notin CreatePcs /\ next # "count" /\ next # "annVolume"
      BY DEF CreatePcs
    <2> QED BY <1>1, <1>2, <1>3, <2>1, <2>2, <2>3, QuietLocals
  <1>5. CASE SyncRestore
    <2>1. PICK next \in {"volumes", "apply", "toFinished", "finished", "return"} : Local(next)
      BY <1>5 DEF SyncRestore
    <2>2. pc = "dispatch"
      BY <1>5 DEF SyncRestore
    <2>3. next \notin CreatePcs /\ next # "count" /\ next # "annVolume"
      BY DEF CreatePcs
    <2> QED BY <1>1, <1>2, <1>3, <2>1, <2>2, <2>3, QuietLocals
  <1>6. CASE SyncVolumeRestore
    <2>1. pc = "volumes" /\ w.stage = "Volumes"
      BY <1>0, <1>6 DEF SyncVolumeRestore, StageAt
    <2>2. PICK next \in {"toResources", "checkPVC", "annVolume", "count", "prepare"} :
             /\ Local(next)
             /\ next = "annVolume" => wanted = {}
             /\ next = "count" => w.state = "Processing"
             /\ next = "prepare" => /\ w.state \notin {"Completed", "Processing"}
                                    /\ "volume-restore-completed" \notin w.ann
      BY <1>6 DEF SyncVolumeRestore
    <2>3. Quiet
      <3>1. disturbed = 0
        BY <2>2, CountSame DEF Local, Quiet
      <3> QED BY <1>1, <3>1 DEF Quiet
    <2>4. w.state # "Failed" /\ ~w.del
      BY <1>2, <2>1, <2>3 DEF QuietInv, QuietWorker
    <2>5. w.state \in {"unset", "New", "Processing", "Completed", "Failed"}
      BY <1>0 DEF TypeOK, Restore, States
    <2>6. next \in CreatePcs => Untried(w)
      BY <2>1, <2>2, <2>4, <2>5 DEF CreatePcs, Untried
    <2>7. next = "annVolume" => LiveVRCs = {}
      <3>1. \A v \in LiveVRCs : v[2] \in wanted
        BY <1>0, <2>3 DEF QuietInv, QuietVolumes, TypeOK
      <3> QED BY <2>2, <3>1
    <2> QED BY <1>1, <1>2, <1>3, <2>1, <2>2, <2>6, <2>7, QuietLocals
  <1>7. CASE CheckPVCRestored
    <2>1. PICK next \in {"volCompleted", "volFailed", "error"} : Local(next) \/ CallFails(next)
      BY <1>7 DEF CheckPVCRestored
    <2>2. pc = "checkPVC"
      BY <1>7 DEF CheckPVCRestored
    <2>3. next \notin CreatePcs /\ next # "count" /\ next # "annVolume" /\ next \notin StartPcs
      BY DEF CreatePcs, StartPcs
    <2> QED BY <1>1, <1>2, <1>3, <2>1, <2>2, <2>3, QuietLocals
  <1>8. CASE CheckVolumeRestoreStatus
    <2>1. PICK next \in {"annVolume", "return", "error"} :
             /\ Local(next) \/ CallFails(next)
             /\ next = "annVolume" =>
                  /\ Cardinality({v \in LiveVRCs : vrc[v] = "Completed"}) = Cardinality(wanted)
                  /\ Local(next)
      BY <1>8 DEF CheckVolumeRestoreStatus
    <2>2. pc = "count" /\ w.stage = "Volumes"
      BY <1>0, <1>8 DEF CheckVolumeRestoreStatus, StageAt
    <2>3. next = "annVolume" => \A v \in LiveVRCs : vrc[v] = "Completed"
      <3> SUFFICES ASSUME next = "annVolume" PROVE \A v \in LiveVRCs : vrc[v] = "Completed"
        OBVIOUS
      <3>1. Quiet
        <4>1. disturbed = 0
          BY <2>1, CountSame DEF Local, Quiet
        <4> QED BY <1>1, <4>1 DEF Quiet
      <3>2. w.state = "Processing" /\ Passed(w)
        BY <1>2, <2>2, <3>1 DEF QuietInv, QuietWorker
      <3>3. attempt <= 1
        BY <2>2, <3>2 DEF Passed
      <3>4. \A v \in LiveVRCs : v[1] <= attempt /\ v[2] \in backed
        BY <3>1 DEF QuietInv, QuietVolumes
      <3> QED BY <1>0, <2>1, <3>3, <3>4, CountedMeansAll
    <2>4. next \notin CreatePcs /\ next # "count" /\ next \notin StartPcs
      BY DEF CreatePcs, StartPcs
    <2> QED BY <1>1, <1>2, <1>3, <2>1, <2>2, <2>3, <2>4, QuietLocals
  <1>9. CASE ApplyResources \/ RunPostHooks
    <2>1. PICK next \in {"appliedAll", "resFailed", "hooksDone"} :
             EnvStep(next) /\ (pc = "hooks" => next # "appliedAll")
      BY <1>9 DEF ApplyResources, RunPostHooks
    <2>2. pc \in {"apply", "hooks"}
      BY <1>9 DEF ApplyResources, RunPostHooks
    <2>3. WorkerFrame /\ LocalOutcome(next)
      <3>1. applied' \in {"none", "kept", "some", "all"} /\ hooked' \in BOOLEAN
        BY <1>0, <1>9, Zenon DEF ApplyResources, RunPostHooks, TypeOK
      <3>2. CountType
        BY <1>0, <2>1, CountKept DEF EnvStep
      <3>3. next \in Nexts
        BY <2>1 DEF Nexts, Pcs
      <3> QED BY <1>0, <2>1, <3>1, <3>2, <3>3, OtherStep DEF EnvStep, TypeOK, volVars
    <2> QED BY <1>1, <2>1, <2>2, <2>3, QuietEnvSteps
  <1>10. CASE Finish /\ w.state = "Completed"
    <2>1. pc = "finished" /\ Local("return")
      BY <1>10 DEF Finish
    <2>2. "return" \notin CreatePcs /\ "return" \notin StartPcs /\ "return" \notin SyncPcs
      BY PathPcs DEF CreatePcs, StartPcs
    <2> QED BY <1>1, <1>2, <1>3, <2>1, <2>2, QuietLocals
  <1> QED BY <1>4, <1>5, <1>6, <1>7, <1>8, <1>9, <1>10

\* A patch of the worker, or of deleteRestore: the status stays what it is.
LEMMA QuietPatches ==
    ASSUME StatusInv, StatusInv', QuietInv, Quiet', pc \in SyncerPcs \cup DeletePcs,
           NEW b \in Restore, NEW next \in Pcs \ (CreatePcs \cup {"count", "annVolume", "finalizer", "idle"}),
           b.stage = api.stage, b.state = api.state, b.del = api.del, api.fin => b.fin,
           PatchRestore(b, next),
           pc \in DeletePcs => next \in DeletePcs,
           next \in SyncerPcs => api.state # "Failed",
           next \in StartPcs => ~api.del,
           Untried(b) => attempt = 0
    PROVE  QuietInv' /\ (api.state = "Failed" => api'.state = "Failed")
  <1>1. TypeOK /\ pc # "idle" /\ next \in Nexts
    BY PathPcs DEF StatusInv, DeletionInv, SyncerPcs, Nexts
  <1>2. disturbed = 0 /\ WriteFrame /\ QuietPatch(b, next)
    BY <1>1, QuietPatchStep DEF Quiet
  <1>3. /\ Stored /\ api.rv # 0 /\ Is(b) /\ api'.ann = b.ann
        /\ processed' = (IF processed > api'.rv THEN processed ELSE api'.rv)
        /\ Leads(next, api')
    BY <1>2 DEF QuietPatch, Quiet, Kept
  <1>4. Quiet
    BY <1>2, <1>3 DEF Quiet
  <1>5. QuietServer /\ QuietReconciler /\ QuietWorker /\ QuietVolumes
    BY <1>4 DEF QuietInv
  <1>6. /\ cache' = cache /\ UNCHANGED rcVars /\ LiveVRCs' = LiveVRCs /\ vrc' = vrc
        /\ vdel' = vdel /\ backed' = backed /\ attempt' = attempt
    BY <1>2, SameVRCs DEF WriteFrame, WorkerFrame
  <1>7. pc' = next /\ w' = api' /\ pc' \in Pcs
    BY <1>3, PathPcs DEF Leads
  <1>8. Rank(api') = Rank(api)
    BY <1>3 DEF Is, Rank
  <1>9. Passed(api)
    BY <1>4, <1>5, ServerPasses DEF QuietServer
  <1>10. api'.stage = "Volumes" /\ api'.state = "Processing" => attempt <= 1
    BY <1>3, <1>9 DEF Is, Passed
  <1>11. /\ QuietServer' /\ processed' = api'.rv
         /\ \A c : c.stage = api'.stage /\ c.state = api'.state => Passed(c)'
    BY <1>3, <1>4, <1>5, <1>6, <1>8, <1>10, WrittenServer DEF Is, QuietServer
  <1>12. (VolumeFailed => VolumeFailed') /\ QuietReconciler'
    <2>1. api.del => api'.del
      BY <1>3 DEF Is
    <2>2. CASE pc \in SyncerPcs
      BY <1>5, <1>6, <2>1, <2>2, SyncStands
    <2>3. CASE pc \in DeletePcs
      <3>1. Deleting => Deleting'
        BY <1>6, <1>7, <2>3 DEF Deleting
      <3>2. VolumeFailed => VolumeFailed'
        BY <1>6, <3>1 DEF VolumeFailed
      <3> QED BY <1>5, <1>6, <2>1, <3>1, <3>2 DEF QuietReconciler, rcVars
    <2> QED BY <2>2, <2>3
  <1>13. QuietWorker'
    <2>1. Passed(w)'
      BY <1>7, <1>11
    <2>2. pc' \in SyncerPcs => w'.state # "Failed"
      BY <1>3, <1>7 DEF Is
    <2>3. pc' \in StartPcs => ~w'.del
      BY <1>3, <1>7 DEF Is
    <2> QED BY <1>7, <1>11, <2>1, <2>2, <2>3 DEF QuietWorker
  <1>14. QuietVolumes'
    <2>1. Untried(api') => Untried(b)
      BY <1>3 DEF Is, Untried
    <2> QED BY <1>5, <1>6, <1>7, <2>1 DEF QuietVolumes
  <1>15. api.state = "Failed" => api'.state = "Failed"
    BY <1>3 DEF Is
  <1> QED BY <1>11, <1>12, <1>13, <1>14, <1>15 DEF QuietInv

\* The finalizer is set first: nobody has failed the object yet.
LEMMA FinalizerStays ==
    ASSUME StatusInv, StatusInv', QuietInv, Quiet', EnsureFinalizer
    PROVE  QuietInv' /\ (api.state = "Failed" => api'.state = "Failed")
  <1> DEFINE b == [api EXCEPT !.fin = TRUE]
             next == IF w.stage \in {"unset", "Initial"} THEN "init" ELSE "populate"
  <1>1. /\ TypeOK /\ pc = "finalizer" /\ pc \in SyncerPcs
        /\ IF w.fin THEN Local(next) ELSE PatchRestore(b, next)
    BY DEF StatusInv, DeletionInv, EnsureFinalizer, SyncerPcs
  <1>2. /\ b \in Restore /\ b.fin /\ b.del = api.del /\ b.stage = api.stage /\ b.state = api.state
    BY <1>1 DEF TypeOK, Restore
  <1>3. next \in {"init", "populate"}
    OBVIOUS
  <1>4. {"init", "populate"} \subseteq SyncNexts \cap Nexts \cap Pcs
    BY DEF SyncNexts, SyncPcs, DeletePcs, Pcs, Nexts
  <1>5. /\ {"init", "populate", "finalizer"} \subseteq StartPcs
        /\ {"init", "populate"} \cap (CreatePcs \cup {"count", "annVolume", "finalizer", "idle"}) = {}
        /\ pc \notin Ahead \cup {"popFailed2", "createVRC", "processing"} \cup DeletePcs
    BY <1>1 DEF StartPcs, CreatePcs, Ahead, DeletePcs
  <1> HIDE DEF b, next
  <1>6. CASE w.fin /\ Local(next)
    <2>1. api' = api
      BY <1>6 DEF Local, apiVars
    <2>2. next \in SyncNexts /\ next \notin CreatePcs /\ next # "count" /\ next # "annVolume"
      BY <1>3, <1>4, <1>5
    <2> QED BY <1>1, <1>5, <1>6, <2>1, <2>2, QuietLocals
  <1>7. CASE ~w.fin /\ PatchRestore(b, next)
    <2>1. next \in Nexts
      BY <1>3, <1>4
    <2>2. disturbed = 0 /\ QuietPatch(b, next)
      BY <1>1, <1>2, <1>7, <2>1, QuietPatchStep DEF Quiet
    <2>3. Quiet
      BY <2>2 DEF QuietPatch, Quiet, Kept
    <2>4. ~api.fin
      BY <1>1, <1>7, <2>3 DEF QuietInv, QuietWorker
    <2>5. api.state = "unset" /\ ~api.del
      BY <2>3, <2>4 DEF QuietInv, QuietServer
    <2>6. Untried(b) => attempt = 0
      <3>1. Rank(api) = 0
        BY <2>3, <2>4 DEF StatusInv, BoundedLag, Quiet
      <3> QED BY <2>3, <3>1 DEF QuietInv, QuietServer
    <2>7. next \in Pcs \ (CreatePcs \cup {"count", "annVolume", "finalizer", "idle"})
      BY <1>3, <1>4, <1>5
    <2>8. api.state # "Failed"
      BY <2>5
    <2> QED BY <1>1, <1>2, <1>5, <1>7, <2>5, <2>6, <2>7, <2>8, QuietPatches
  <1> QED BY <1>1, <1>6, <1>7

\* The worker's annotation: no VRC has failed when every claim was counted.
LEMMA AnnotationStays ==
    ASSUME StatusInv, StatusInv', QuietInv, Quiet', AnnotateVolumeRestore
    PROVE  QuietInv' /\ (api.state = "Failed" => api'.state = "Failed")
  <1>1. /\ TypeOK /\ api \in Restore /\ pc = "annVolume"
        /\ AnnotateRestore("volume-restore-completed", "volCompleted")
    BY DEF StatusInv, DeletionInv, TypeOK, AnnotateVolumeRestore
  <1>2. /\ pc \in SyncerPcs \ ({"popFailed2", "createVRC", "processing"} \cup Ahead \cup DeletePcs)
        /\ "volCompleted" \in SyncNexts \cap Nexts \cap Pcs
        /\ "volCompleted" \notin CreatePcs \cup {"count", "annVolume", "finalizer", "idle"} \cup StartPcs
    BY <1>1 DEF SyncerPcs, SyncNexts, SyncPcs, DeletePcs, Pcs, Ahead, CreatePcs, StartPcs, Nexts
  <1>3. CASE /\ Continue("volCompleted", w)
             /\ UNCHANGED <<apiVars, cache, processed, rcVars, volVars, envVars, countVars>>
    <2>1. Local("volCompleted") /\ api' = api
      BY <1>3 DEF Local, apiVars
    <2> QED BY <1>2, <2>1, QuietLocals
  <1>4. CASE PatchRestore([api EXCEPT !.ann = @ \cup {"volume-restore-completed"}], "volCompleted")
    <2> DEFINE b == [api EXCEPT !.ann = @ \cup {"volume-restore-completed"}]
    <2>1. /\ b \in Restore /\ b.fin = api.fin /\ b.del = api.del /\ b.stage = api.stage
          /\ b.state = api.state
      BY <1>1, Annotated DEF Annotations
    <2>2. "volume-restore-completed" \in b.ann
      BY <1>1 DEF Restore
    <2> HIDE DEF b
    <2>3. ~Untried(b)
      BY <2>2 DEF Untried
    <2>4. PatchRestore(b, "volCompleted")
      BY <1>4 DEF b
    <2>5. disturbed = 0 /\ QuietPatch(b, "volCompleted")
      BY <1>1, <1>2, <2>1, <2>4, QuietPatchStep DEF Quiet
    <2>6. Quiet
      BY <2>5 DEF QuietPatch, Quiet, Kept
    <2>7. api.state # "Failed"
      <3>1. w.state # "Failed" /\ Passed(w)
        BY <1>1, <1>2, <2>6, PathPcs DEF QuietInv, QuietWorker
      <3>2. ~VolumeFailed
        BY <1>1, <2>6 DEF QuietInv, QuietVolumes, VolumeFailed, Deleting, DeletePcs
      <3> QED BY <3>1, <3>2 DEF Passed
    <2> QED BY <1>2, <2>1, <2>3, <2>4, <2>7, QuietPatches
  <1> QED BY <1>1, <1>3, <1>4 DEF AnnotateRestore

\* A further attempt starts from a copy that is not the server's any more.
LEMMA AttemptStays ==
    ASSUME StatusInv, QuietInv, Quiet', PrepareVolumeRestore, ~Local("error")
    PROVE  QuietInv' /\ api' = api
  <1>1. TypeOK /\ pc = "prepare" /\ pc \in SyncerPcs \ Ahead /\ pc \notin DeletePcs /\ w.stage = "Volumes"
    BY WorkerStageAt DEF StatusInv, DeletionInv, PrepareVolumeRestore, SyncerPcs, SyncPcs, Ahead,
                         DeletePcs, Pcs, StageAt
  <1>2. ~CallFails("error")
    BY <1>1, NoFault DEF CallFails, Quiet
  <1>3. PICK next \in {"processing", "createVRC"} : Continue(next, w)
    BY <1>2 DEF PrepareVolumeRestore
  <1>4. /\ attempt' = attempt + 1
        /\ UNCHANGED <<apiVars, cache, processed, rcVars, wanted, backed, vrc, vdel, vclean, bound,
                       envVars, countVars>>
    BY <1>2 DEF PrepareVolumeRestore
  <1>5. /\ pc' = next /\ w' = w /\ pc' \in SyncPcs
        /\ pc' \notin Ahead \cup {"finalizer", "count", "annVolume", "idle", "popFailed2"}
    BY <1>3 DEF Continue, Goto, Ahead, SyncPcs, DeletePcs, Pcs
  <1>6. Kept /\ api' = api /\ disturbed = 0 /\ cache' = cache
    BY <1>4, CountSame DEF Kept, apiVars, Quiet
  <1>7. Quiet /\ QuietServer /\ QuietReconciler /\ QuietWorker /\ QuietVolumes
    BY <1>6 DEF Quiet, QuietInv
  <1>8. /\ Passed(w) /\ Untried(w) /\ w.rv = processed /\ ~w.del /\ w.state # "Failed"
        /\ w.rv = api.rv => /\ w.stage = api.stage /\ w.state = api.state
                            /\ w.ann = api.ann /\ w.del = api.del
    BY <1>1, <1>7, PathPcs DEF QuietWorker, CreatePcs, StartPcs
  <1>9. LiveVRCs' = LiveVRCs
    BY <1>4 DEF LiveVRCs, VRCs
  <1>10. (VolumeFailed => VolumeFailed') /\ QuietReconciler'
    BY <1>1, <1>4, <1>6, <1>7, <1>9, SyncStands
  <1>11. Through' = Through
    BY <1>4, <1>6 DEF Through, Copies, Kept
  <1>12. w.state \in {"unset", "New"}
    BY <1>8 DEF Untried
  <1>13. \A b : Passed(b) /\ (b \in Through \/ b = w) => Passed(b)'
    <2> SUFFICES ASSUME NEW b, Passed(b), b \in Through \/ b = w
                 PROVE  Passed(b)'
      OBVIOUS
    <2>1. ~(b.stage = "Volumes" /\ b.state = "Processing")
      <3>1. b \in Through => b.state \in {w.state, "Failed"}
        BY <1>8 DEF Passed
      <3> QED BY <1>12, <3>1
    <2> QED BY <1>6, <1>10, <1>11, <2>1 DEF Passed
  <1>14. QuietServer'
    <2>1. \A c \in Through' : c.fin = api'.fin /\ Passed(c)'
      BY <1>6, <1>7, <1>11, <1>13 DEF QuietServer
    <2>2. Rank(api) # 0
      <3>1. api.stage = "Volumes"
        BY <1>1, <1>8 DEF Passed
      <3> QED BY <3>1, RankOf
    <2>3. (~api'.fin => api'.state = "unset" /\ ~api'.del) /\ (Untried(api') => processed' = api'.rv)
      BY <1>4, <1>6, <1>7 DEF QuietServer
    <2> QED BY <1>6, <2>1, <2>2, <2>3 DEF QuietServer
  <1>15. QuietWorker'
    <2>1. Passed(w)'
      BY <1>5, <1>8, <1>13
    <2> QED BY <1>4, <1>5, <1>6, <1>8, <2>1 DEF QuietWorker
  <1>16. QuietVolumes'
    <2>1. attempt \in Nat
      BY <1>1, RestoreAssumption DEF TypeOK
    <2>2. \A v \in LiveVRCs : v[1] <= attempt'
      <3>1. \A v \in LiveVRCs : v[1] \in Nat /\ v[1] <= attempt
        BY <1>7 DEF QuietVolumes, LiveVRCs, VRCs
      <3> QED BY <1>4, <2>1, <3>1
    <2>3. Untried(api) => attempt = 0 /\ w.rv = api.rv
      BY <1>1, <1>7, <1>8 DEF QuietVolumes, QuietServer
    <2> QED BY <1>3, <1>4, <1>5, <1>6, <1>7, <1>9, <2>1, <2>2, <2>3 DEF QuietVolumes
  <1> QED BY <1>6, <1>10, <1>14, <1>15, <1>16 DEF QuietInv

\* Where a class is missing nothing is created.
LEMMA PrepareStays ==
    ASSUME StatusInv, QuietInv, Quiet', PrepareVolumeRestore
    PROVE  QuietInv' /\ api' = api
  <1>1. CASE Local("error")
    <2>1. pc = "prepare"
      BY DEF PrepareVolumeRestore
    <2>2. pc \in SyncerPcs \ {"popFailed2", "createVRC", "processing"} /\ "error" \in SyncNexts
      BY <2>1 DEF SyncerPcs, SyncPcs, SyncNexts, DeletePcs, Pcs
    <2>3. "error" \notin SyncPcs \cup StartPcs \cup CreatePcs
      BY DEF SyncPcs, StartPcs, CreatePcs, Pcs
    <2>4. QuietInv'
      BY <1>1, <2>2, <2>3, QuietLocals
    <2>5. api' = api
      BY <1>1 DEF Local, apiVars
    <2> QED BY <2>4, <2>5
  <1>2. CASE ~Local("error")
    BY <1>2, AttemptStays
  <1> QED BY <1>1, <1>2

\* The creation of the VRCs of one attempt
LEMMA CreateStays ==
    ASSUME StatusInv, QuietInv, Quiet', CreateVRC
    PROVE  QuietInv' /\ api' = api
  <1>1. TypeOK /\ pc = "createVRC" /\ pc \in SyncerPcs \ (Ahead \cup {"popFailed2"})
    BY DEF StatusInv, DeletionInv, CreateVRC, SyncerPcs, SyncPcs, Ahead, DeletePcs, Pcs
  <1>2. ~CallFails("error") /\ ~Fault
    BY <1>1, NoFault DEF CallFails, Quiet
  <1>3. PICK p \in backed :
           /\ vrc[<<attempt, p>>] = "absent"
           /\ vrc' = [vrc EXCEPT ![<<attempt, p>>] = "New"]
           /\ Continue(IF \A q \in backed : vrc'[<<attempt, q>>] # "absent"
                       THEN "processing" ELSE "createVRC", w)
           /\ UNCHANGED countVars
           /\ UNCHANGED <<apiVars, cache, processed, rcVars, wanted, backed, vdel, vclean,
                          attempt, bound, envVars>>
    BY <1>2 DEF CreateVRC
  <1>4. PICK next \in {"processing", "createVRC"} : Continue(next, w)
    BY <1>3
  <1>5. vrc' \in [VRCs -> VRCPhases] /\ CountType
    BY <1>1, <1>3, CountKept DEF TypeOK, VRCPhases
  <1>6. next \in Nexts /\ next \in SyncNexts
    BY DEF Nexts, SyncNexts, SyncPcs, DeletePcs, Pcs
  <1>7. WorkerFrame /\ LocalOutcome(next)
    BY <1>1, <1>3, <1>4, <1>5, <1>6, OtherStep DEF TypeOK, envVars
  <1>8. Quiet /\ api' = api
    BY <1>3, <1>7, CountSame DEF Quiet, LocalOutcome, Kept
  <1>9. \A v \in LiveVRCs : v \in LiveVRCs' /\ vrc'[v] = vrc[v]
    BY <1>1, <1>3, <1>5 DEF LiveVRCs, VRCs, TypeOK
  <1>10. \A v \in LiveVRCs' : v \in LiveVRCs \/ (v[1] <= attempt /\ v[2] \in backed)
    <2>1. \A v \in VRCs : v # <<attempt, p>> => vrc'[v] = vrc[v]
      BY <1>1, <1>3 DEF TypeOK
    <2>2. attempt <= attempt
      BY <1>1, RestoreAssumption DEF TypeOK
    <2> QED BY <2>1, <2>2 DEF LiveVRCs, VRCs
  <1>11. Untried(w)
    BY <1>1, <1>8, PathPcs DEF QuietInv, QuietWorker, CreatePcs
  <1>12. pc \in StartPcs /\ next # "count" /\ next # "annVolume"
    BY <1>1 DEF StartPcs
  <1> QED BY <1>1, <1>3, <1>6, <1>7, <1>8, <1>9, <1>10, <1>11, <1>12, QuietGoes

\* Taking the key: a copy that says Failed is put aside.
LEMMA QueueStays ==
    ASSUME StatusInv, QuietInv, Quiet', ProcessQueue
    PROVE  QuietInv' /\ api' = api
  <1>1. TypeOK /\ pc = "idle" /\ QueueOutcome
    BY ProcessQueueStep DEF StatusInv, DeletionInv, ProcessQueue
  <1>2. /\ Kept /\ api' = api /\ cache' = cache /\ UNCHANGED rcVars /\ disturbed = 0
        /\ LiveVRCs' = LiveVRCs /\ vrc' = vrc /\ vdel' = vdel /\ backed' = backed /\ attempt' = attempt
    BY <1>1, CountSame, SameVRCs DEF QueueOutcome, Kept, Quiet
  <1>3. Quiet /\ QuietServer /\ QuietReconciler /\ QuietVolumes
    BY <1>2 DEF Quiet, QuietInv
  <1>4. /\ cache \in Copies /\ cache.rv \in Nat /\ processed \in Nat /\ api.rv \in Nat
        /\ processed <= api.rv
    BY <1>1, <1>3, CopyCases, ServerPasses DEF TypeOK, Restore
  <1>5. \/ pc' = "idle"
        \/ /\ pc' \in {"finalizer", "delVRC"} /\ (pc' = "delVRC" <=> cache.del)
           /\ w' = cache /\ processed' = cache.rv
           /\ pc' = "finalizer" => cache.state # "Failed"
           /\ cache \in Through
    <2>1. CASE cache.rv = 0 \/ processed > cache.rv
      BY <1>1, <2>1 DEF ProcessQueue, workerVars
    <2>2. CASE ~(cache.rv = 0 \/ processed > cache.rv)
      <3>1. cache \in Through
        BY <1>4, <2>2 DEF Through
      <3>2. CASE ~cache.del /\ (restoreFailed(cache) \/ restoreCompleted(cache))
        BY <1>1, <2>2, <3>2 DEF ProcessQueue, workerVars
      <3>3. CASE ~(~cache.del /\ (restoreFailed(cache) \/ restoreCompleted(cache)))
        <4>1. w' = cache /\ pc' = (IF cache.del THEN "delVRC" ELSE "finalizer") /\ processed' = cache.rv
          BY <2>2, <3>3 DEF ProcessQueue
        <4> QED BY <3>1, <3>3, <4>1 DEF restoreFailed
      <3> QED BY <3>2, <3>3
    <2> QED BY <2>1, <2>2
  <1>6. processed' \in Nat /\ processed <= processed'
    BY <1>1, <1>4 DEF QueueOutcome
  <1>7. Through' \subseteq Through
    <2>1. \A c \in Copies \cup {api} : c.rv \in Nat
      <3>1. cache \in Restore /\ api \in Restore /\ watch \in Seq(Restore)
        BY <1>1 DEF TypeOK
      <3>2. \A i \in DOMAIN watch : watch[i] \in Restore
        BY <3>1
      <3>3. \A c \in Copies \cup {api} : c \in Restore
        BY <3>1, <3>2 DEF Copies
      <3> QED BY <3>3 DEF Restore
    <2> QED BY <1>2, <1>4, <1>6, <2>1 DEF Through, Copies, Kept
  <1>8. (Deleting => Deleting') /\ (VolumeFailed => VolumeFailed')
    <2>1. Deleting => Deleting'
      BY <1>1, <1>2, <1>5 DEF Deleting, DeletePcs
    <2> QED BY <1>2, <2>1 DEF VolumeFailed
  <1>9. \A b : Passed(b) => Passed(b)'
    BY <1>2, <1>7, <1>8 DEF Passed
  <1>10. QuietServer'
    <2>1. \A c \in Through' : c.fin = api'.fin /\ Passed(c)'
      BY <1>2, <1>3, <1>7, <1>9 DEF QuietServer
    <2>2. Untried(api) => processed' = api.rv
      <3>1. processed' = processed \/ (processed' = cache.rv /\ cache.rv <= api.rv)
        BY <1>1, <1>3, <1>4 DEF QueueOutcome, StatusInv, CopiesAgree, Quiet
      <3> QED BY <1>3, <1>4, <1>6, <3>1 DEF QuietServer
    <2>3. /\ ~api'.fin => api'.state = "unset" /\ ~api'.del
          /\ Rank(api') = 0 => attempt' = 0
      BY <1>2, <1>3 DEF QuietServer
    <2> QED BY <1>2, <2>1, <2>2, <2>3 DEF QuietServer
  <1>11. QuietReconciler'
    BY <1>2, <1>3, <1>8 DEF QuietReconciler, rcVars
  <1>12. QuietVolumes'
    BY <1>1, <1>2, <1>3, <1>5 DEF QuietVolumes
  <1>13. QuietWorker'
    <2>1. CASE pc' = "idle"
      BY <2>1 DEF QuietWorker
    <2>2. CASE pc' # "idle"
      <3>1. /\ pc' \in {"finalizer", "delVRC"} /\ (pc' = "delVRC" <=> cache.del)
            /\ w' = cache /\ processed' = cache.rv
            /\ pc' = "finalizer" => cache.state # "Failed"
            /\ cache \in Through
        BY <1>5, <2>2
      <3>2. cache.fin = api.fin /\ Passed(cache)
        BY <1>3, <3>1 DEF QuietServer
      <3>3. Passed(w)'
        BY <1>9, <3>1, <3>2
      <3>4. cache.rv = api.rv => cache = api
        BY <1>3, <1>4 DEF StatusInv, CopiesAgree, Quiet
      <3>5. "delVRC" \notin SyncerPcs /\ "delVRC" \notin StartPcs /\ pc' \notin CreatePcs /\ pc' # "count"
        BY <3>1 DEF SyncerPcs, SyncPcs, DeletePcs, StartPcs, CreatePcs
      <3>6. pc' \in SyncerPcs \/ pc' \in StartPcs \/ pc' = "finalizer" => pc' = "finalizer"
        BY <3>1, <3>5
      <3> QED BY <1>2, <3>1, <3>2, <3>3, <3>4, <3>5, <3>6 DEF QuietWorker
    <2> QED BY <2>1, <2>2
  <1> QED BY <1>2, <1>10, <1>11, <1>12, <1>13 DEF QuietInv

\* A step of deleteRestore that does not write the object
LEMMA QuietDeletes ==
    ASSUME StatusInv, QuietInv, Quiet, pc \in DeletePcs, WorkerFrame,
           NEW next \in DeletePcs \cup {"return", "error"}, LocalOutcome(next),
           vrc' = vrc, attempt' = attempt, backed' = backed
    PROVE  QuietInv'
  <1>1. pc # "idle" /\ QuietServer /\ QuietReconciler /\ QuietWorker /\ QuietVolumes
    BY PathPcs DEF QuietInv
  <1>2. /\ cache' = cache /\ UNCHANGED rcVars /\ Kept /\ processed' = processed /\ LiveVRCs' = LiveVRCs
        /\ \/ pc' \in DeletePcs /\ w' = w
           \/ pc' = "idle"
    BY PathPcs DEF WorkerFrame, LocalOutcome, Leads, LiveVRCs, VRCs
  <1>3. Deleting /\ Deleting' /\ VolumeFailed'
    <2>1. cache.del
      BY DEF StatusInv, DeletionInv, DeleterKnows, Quiet
    <2> QED BY <1>2, <2>1 DEF Deleting, VolumeFailed
  <1>4. QuietServer'
    BY <1>1, <1>2, <1>3, SilentServer
  <1>5. QuietReconciler'
    BY <1>1, <1>2, <1>3 DEF QuietReconciler, rcVars, Kept
  <1>6. pc' \notin SyncerPcs \cup StartPcs \cup CreatePcs \cup {"finalizer", "count", "annVolume"}
    BY <1>2 DEF SyncerPcs, SyncPcs, StartPcs, CreatePcs, DeletePcs
  <1>7. QuietWorker'
    BY <1>1, <1>2, <1>6 DEF QuietWorker, Kept
  <1>8. QuietVolumes'
    BY <1>1, <1>2, <1>6 DEF QuietVolumes, Kept, DeletePcs
  <1> QED BY <1>4, <1>5, <1>7, <1>8 DEF QuietInv

\* deleteRestore
LEMMA DeletersStay ==
    ASSUME StatusInv, StatusInv', QuietInv, Quiet',
           \/ RemoveVolumeRestore \/ CleanupRestoredMetadata \/ AnnotateCleaned
           \/ ListVolumeRestore \/ RemoveFinalizer
    PROVE  QuietInv' /\ (api.state = "Failed" => api'.state = "Failed")
  <1>0. TypeOK /\ api \in Restore /\ ~Fault
    BY NoFault DEF StatusInv, DeletionInv, TypeOK, Quiet
  <1>1. ASSUME NEW next \in DeletePcs \cup {"return", "error"}, LocalOutcome(next), WorkerFrame,
               UNCHANGED countVars, pc \in DeletePcs, vrc' = vrc, attempt' = attempt, backed' = backed
        PROVE  QuietInv' /\ api' = api
    <2>1. Quiet /\ api' = api
      BY <1>1, CountSame DEF Quiet, LocalOutcome, Kept
    <2> QED BY <1>1, <2>1, QuietDeletes
  <1>2. CASE RemoveVolumeRestore
    <2>1. /\ WorkerFrame /\ vrc' = vrc /\ attempt' = attempt
          /\ LocalOutcome("cleanup") \/ LocalOutcome("error")
      BY <1>0, <1>2, RemoveVolumeRestoreStep
    <2>2. UNCHANGED countVars /\ backed' = backed /\ pc \in DeletePcs
      BY <1>0, <1>2 DEF RemoveVolumeRestore, DeletePcs
    <2>3. "cleanup" \in DeletePcs
      BY DEF DeletePcs
    <2> QED BY <1>1, <2>1, <2>2, <2>3
  <1>3. CASE CleanupRestoredMetadata
    <2>1. WorkerFrame /\ UNCHANGED volVars /\ (LocalOutcome("delList") \/ LocalOutcome("annCleaned"))
      BY <1>0, <1>3, CleanupStep
    <2>2. UNCHANGED countVars /\ pc \in DeletePcs
      BY <1>0, <1>3 DEF CleanupRestoredMetadata, Local, EnvStep, DeletePcs
    <2>3. {"delList", "annCleaned"} \subseteq DeletePcs
      BY DEF DeletePcs
    <2> QED BY <1>1, <2>1, <2>2, <2>3, SameVRCs
  <1>4. CASE AnnotateCleaned
    <2> DEFINE b == [api EXCEPT !.ann = @ \cup {"restore-cleanup-done"}]
    <2>1. pc = "annCleaned" /\ pc \in DeletePcs /\ PatchRestore(b, "delList")
      BY <1>4 DEF AnnotateCleaned, DeletePcs
    <2>2. /\ b \in Restore /\ b.fin = api.fin /\ b.del = api.del /\ b.stage = api.stage
          /\ b.state = api.state
      BY <1>0, Annotated DEF Annotations
    <2> HIDE DEF b
    <2>3. /\ "delList" \in Pcs \ (CreatePcs \cup {"count", "annVolume", "finalizer", "idle"})
          /\ "delList" \in DeletePcs /\ "delList" \notin SyncerPcs \cup StartPcs /\ "delList" \in Nexts
      BY DEF Pcs, CreatePcs, DeletePcs, SyncerPcs, SyncPcs, StartPcs, Nexts
    <2>4. disturbed = 0 /\ QuietPatch(b, "delList")
      BY <1>0, <2>1, <2>2, <2>3, QuietPatchStep DEF Quiet
    <2>5. Quiet
      BY <2>4 DEF QuietPatch, Quiet, Kept
    <2>6. ~Untried(b)
      <3>1. cache.del
        BY <2>1, <2>5 DEF StatusInv, DeletionInv, DeleterKnows, Quiet
      <3>2. api.del
        BY <2>5, <3>1, CopyCases DEF StatusInv, DeletionInv, MarksKept, Quiet
      <3> QED BY <2>2, <3>2 DEF Untried
    <2> QED BY <2>1, <2>2, <2>3, <2>6, QuietPatches
  <1>5. CASE ListVolumeRestore
    <2>1. PICK next \in {"delFinalizer", "return", "error"} : Local(next) \/ CallFails(next)
      BY <1>5 DEF ListVolumeRestore
    <2>2. next \in DeletePcs \cup {"return", "error"} /\ pc \in DeletePcs
      BY <1>5, <2>1 DEF ListVolumeRestore, DeletePcs
    <2>3. next \in Nexts
      BY <2>2, PathPcs DEF Nexts
    <2>4. WriteFrame /\ LocalOutcome(next) /\ Local(next)
      BY <1>0, <2>1, <2>3, QuietLocalStep DEF Quiet
    <2>5. UNCHANGED countVars
      BY <2>4 DEF Local
    <2> QED BY <1>1, <2>2, <2>4, <2>5, SameVRCs DEF WriteFrame
  <1>6. ~RemoveFinalizer
    BY <1>0, NoRestoreType DEF RemoveFinalizer, Remove, Quiet, apiVars
  <1> QED BY <1>2, <1>3, <1>4, <1>5, <1>6
-----------------------------------------------------------------------------
(* A failed restore stays failed when nothing disturbs it: everybody else *)

\* A write by somebody else: at most the object is marked, as failed or otherwise.
LEMMA OtherWrites ==
    ASSUME StatusInv, StatusInv', QuietInv, Quiet, Quiet', Stored,
           UNCHANGED <<cache, workerVars, processed, volVars>>,
           api'.stage = api.stage, api'.fin = api.fin, api.del => api'.del,
           api'.del => api'.fin,
           \/ api'.state = api.state
           \/ api'.state = "Failed" /\ api.stage = "Volumes" /\ VolumeFailed /\ api.fin,
           api'.state # api.state => api'.state = "Failed",
           Kept \/ ~Untried(api')
    PROVE  QuietServer' /\ QuietWorker' /\ QuietVolumes' /\ (VolumeFailed => VolumeFailed')
  <1>1. QuietServer /\ QuietReconciler /\ QuietWorker /\ QuietVolumes
    BY DEF QuietInv
  <1>2. /\ cache' = cache /\ pc' = pc /\ w' = w /\ processed' = processed
        /\ LiveVRCs' = LiveVRCs /\ vrc' = vrc /\ vdel' = vdel /\ backed' = backed /\ attempt' = attempt
    BY SameVRCs DEF workerVars
  <1>3. (Deleting => Deleting') /\ (VolumeFailed => VolumeFailed')
    BY <1>2 DEF Deleting, VolumeFailed
  <1>4. TypeOK /\ TypeOK'
    BY DEF StatusInv, DeletionInv
  <1>5. \A c \in Through' : c \in Through \/ c = api'
    BY <1>2, <1>4, StoredCopies DEF Through
  <1>6. api \in Through /\ Passed(api) /\ processed <= api.rv /\ (pc # "idle" => w.rv <= api.rv)
    BY <1>1, ServerPasses DEF QuietServer
  <1>7. \A b : Passed(b) => Passed(b)'
    <2> SUFFICES ASSUME NEW b, Passed(b)
                 PROVE  Passed(b)'
      OBVIOUS
    <2>1. b.stage = api'.stage
      BY DEF Passed
    <2>2. b.state # api'.state => api'.state = "Failed" /\ b.stage = "Volumes" /\ VolumeFailed'
      BY <1>3 DEF Passed
    <2>3. b.state # "Failed" => api'.state \in {b.state, "Failed"}
      BY DEF Passed
    <2>4. b.state # "Failed" => \A c \in Through' : c.state \in {b.state, "Failed"}
      BY <1>5, <2>3 DEF Passed
    <2>5. b.stage = "Volumes" /\ b.state = "Processing" => attempt' <= 1
      BY <1>2 DEF Passed
    <2> QED BY <2>1, <2>2, <2>4, <2>5 DEF Passed
  <1>8. Passed(api)'
    <2>1. api'.state # "Failed" => \A c \in Through' : c.state \in {api'.state, "Failed"}
      BY <1>5, <1>6 DEF Passed
    <2>2. api'.stage = "Volumes" /\ api'.state = "Processing" => attempt' <= 1
      BY <1>2, <1>6 DEF Passed
    <2> QED BY <2>1, <2>2 DEF Passed
  <1>9. QuietServer'
    <2>1. \A c \in Through' : c.fin = api'.fin /\ Passed(c)'
      BY <1>1, <1>5, <1>7, <1>8 DEF QuietServer
    <2>2. ~api'.fin => api'.state = "unset" /\ ~api'.del
      BY <1>1 DEF QuietServer
    <2>3. Untried(api') => processed' = api'.rv
      BY <1>1, <1>2 DEF QuietServer, Kept
    <2>4. Rank(api') = 0 => attempt' = 0
      <3>1. Rank(api') = Rank(api)
        BY DEF Rank
      <3> QED BY <1>1, <1>2, <3>1 DEF QuietServer
    <2> QED BY <2>1, <2>2, <2>3, <2>4 DEF QuietServer
  <1>10. pc # "idle" /\ w.rv = api'.rv => Kept
    <2>1. w.rv \in Nat /\ api.rv \in Nat
      BY <1>4 DEF TypeOK, Restore
    <2> QED BY <1>6, <2>1 DEF Stored
  <1>11. pc \in SyncerPcs \ Ahead /\ pc # "idle" => Passed(w)'
    <2>1. pc \in SyncerPcs \ Ahead /\ pc # "idle" => Passed(w)
      BY <1>1 DEF QuietWorker
    <2> QED BY <1>2, <1>7, <2>1
  <1>12. QuietWorker'
    BY <1>1, <1>2, <1>10, <1>11 DEF QuietWorker, Kept
  <1>13. QuietVolumes'
    BY <1>1, <1>2 DEF QuietVolumes, Kept
  <1> QED BY <1>3, <1>9, <1>12, <1>13

\* Who has failed a volume has the finalizer on his side.
LEMMA FailureHeld ==
    ASSUME StatusInv, QuietInv, Quiet, VolumeFailed
    PROVE  api.fin
  <1>1. CASE LiveVRCs # {}
    BY <1>1 DEF StatusInv, DeletionInv, FinalizerHeld
  <1>2. CASE Deleting
    <2>1. api.del
      BY <1>2, CopyCases DEF StatusInv, DeletionInv, MarksKept, Quiet, Deleting
    <2> QED BY <2>1 DEF QuietInv, QuietServer
  <1> QED BY <1>1, <1>2 DEF VolumeFailed

\* The annotations of the reconciler
LEMMA RcAnnotateStays ==
    ASSUME StatusInv, StatusInv', QuietInv, Quiet',
           \/ RcAnnotate("annCompleted", "volume-restore-completed")
           \/ RcAnnotate("annDeleted", "volume-restore-delete-completed")
    PROVE  QuietInv' /\ (api.state = "Failed" => api'.state = "Failed")
  <1>0. TypeOK /\ api \in Restore /\ ~Fault
    BY NoFault DEF StatusInv, DeletionInv, TypeOK, Quiet
  <1>1. UNCHANGED <<cache, queueVars, processed, workerVars, volVars, envVars, countVars>> /\ rpc' = "idle"
    BY <1>0 DEF RcAnnotate, RcGoto
  <1>2. disturbed = 0
    BY <1>1, CountSame DEF Quiet
  <1>3. PICK a \in Annotations :
           /\ \/ /\ api.rv # 0
                 /\ Commit([api EXCEPT !.ann = @ \cup {a}])
              \/ UNCHANGED apiVars
           /\ a = "volume-restore-completed" \/ rpc = "annDeleted"
    BY <1>0 DEF RcAnnotate, Annotations
  <1>4. CASE UNCHANGED apiVars
    <2>1. Kept /\ Stored /\ Quiet
      BY <1>2, <1>4 DEF apiVars, Kept, Stored, Quiet
    <2>2. api.del => api.fin
      BY <2>1 DEF QuietInv, QuietServer
    <2>3. QuietServer' /\ QuietWorker' /\ QuietVolumes' /\ (VolumeFailed => VolumeFailed')
      BY <1>1, <2>1, <2>2, OtherWrites DEF Kept
    <2>4. QuietReconciler'
      BY <1>1, <2>1 DEF QuietInv, QuietReconciler, Deleting, workerVars, volVars
    <2> QED BY <2>1, <2>3, <2>4 DEF QuietInv, Kept
  <1>5. CASE api.rv # 0 /\ Commit([api EXCEPT !.ann = @ \cup {a}])
    <2> DEFINE b == [api EXCEPT !.ann = @ \cup {a}]
    <2>1. /\ b \in Restore /\ b.fin = api.fin /\ b.del = api.del /\ b.stage = api.stage
          /\ b.state = api.state
      BY <1>0, Annotated
    <2>2. a \in b.ann /\ Commit(b)
      BY <1>0, <1>5 DEF Restore
    <2> HIDE DEF b
    <2>3. Stored /\ Is(b) /\ api'.ann = b.ann /\ Quiet
      BY <1>0, <1>2, <1>5, <2>1, <2>2, CommitStores, CommitAnn DEF TypeOK, Quiet
    <2>4. ~Untried(api')
      BY <1>3, <2>1, <2>2, <2>3 DEF Untried, Is, QuietInv, QuietReconciler
    <2>5. api.del => api.fin
      BY <2>3 DEF QuietInv, QuietServer
    <2>6. QuietServer' /\ QuietWorker' /\ QuietVolumes' /\ (VolumeFailed => VolumeFailed')
      BY <1>1, <2>1, <2>3, <2>4, <2>5, OtherWrites DEF Is
    <2>7. QuietReconciler'
      BY <1>1, <2>3 DEF QuietInv, QuietReconciler, Deleting, workerVars, volVars
    <2> QED BY <2>1, <2>3, <2>6, <2>7 DEF QuietInv, Is
  <1> QED BY <1>3, <1>4, <1>5

\* The failure the reconciler writes
LEMMA RcFailureStays ==
    ASSUME StatusInv, StatusInv', QuietInv, Quiet', RcUpdateFailure
    PROVE  QuietInv' /\ (api.state = "Failed" => api'.state = "Failed")
  <1>0. TypeOK /\ api \in Restore /\ rc \in Restore /\ ~Fault
    BY NoFault DEF StatusInv, DeletionInv, TypeOK, Quiet
  <1>1. /\ UNCHANGED <<cache, queueVars, processed, workerVars, volVars, envVars, countVars>>
        /\ rpc = "fail" /\ rpc' = "idle"
    BY <1>0 DEF RcUpdateFailure, RcGoto
  <1>2. disturbed = 0
    BY <1>1, CountSame DEF Quiet
  <1>3. \/ rc.rv = api.rv /\ Commit([StatusOf(rc) EXCEPT !.state = "Failed"])
        \/ UNCHANGED apiVars
    BY <1>0 DEF RcUpdateFailure
  <1>4. CASE UNCHANGED apiVars
    <2>1. Kept /\ Stored /\ Quiet
      BY <1>2, <1>4 DEF apiVars, Kept, Stored, Quiet
    <2>2. api.del => api.fin
      BY <2>1 DEF QuietInv, QuietServer
    <2>3. QuietServer' /\ QuietWorker' /\ QuietVolumes' /\ (VolumeFailed => VolumeFailed')
      BY <1>1, <2>1, <2>2, OtherWrites DEF Kept
    <2>4. QuietReconciler'
      BY <1>1, <2>1 DEF QuietInv, QuietReconciler, Deleting, workerVars, volVars
    <2> QED BY <2>1, <2>3, <2>4 DEF QuietInv, Kept
  <1>5. CASE rc.rv = api.rv /\ Commit([StatusOf(rc) EXCEPT !.state = "Failed"])
    <2> DEFINE b == [StatusOf(rc) EXCEPT !.state = "Failed"]
    <2>1. /\ b \in Restore /\ b.stage = rc.stage /\ b.state = "Failed" /\ b.fin = api.fin
          /\ b.del = api.del
      BY <1>0, Values DEF StatusOf, Restore
    <2>2. Commit(b) /\ rc.rv # 0
      BY <1>1, <1>5 DEF StatusInv, DeletionInv, HandlersHold
    <2> HIDE DEF b
    <2>3. Quiet
      BY <1>2, <1>5, <2>2 DEF Quiet
    <2>4. rc.stage = api.stage
      BY <1>5, <2>3 DEF StatusInv, CopiesAgree, Quiet
    <2>5. Stored /\ Is(b)
      BY <1>0, <2>1, <2>2, <2>3, CommitStores DEF TypeOK, Quiet
    <2>6. api.stage = "Volumes" /\ VolumeFailed
      BY <1>1, <2>3, <2>4 DEF QuietInv, QuietReconciler
    <2>7. api.fin
      BY <2>3, <2>6, FailureHeld
    <2>8. api'.state = "Failed" /\ ~Untried(api')
      BY <2>1, <2>5 DEF Is, Untried
    <2>9. QuietServer' /\ QuietWorker' /\ QuietVolumes' /\ (VolumeFailed => VolumeFailed')
      BY <1>1, <2>1, <2>3, <2>4, <2>5, <2>6, <2>7, <2>8, OtherWrites DEF Is
    <2>10. QuietReconciler'
      BY <1>1, <2>3 DEF QuietInv, QuietReconciler, Deleting, workerVars, volVars
    <2> QED BY <2>8, <2>9, <2>10 DEF QuietInv
  <1> QED BY <1>3, <1>4, <1>5

\* What the reconciler reads
LEMMA RcReadsStay ==
    ASSUME StatusInv, StatusInv', QuietInv, Quiet', RcStart \/ RcCheckDeleted \/ RcList
    PROVE  QuietInv' /\ api' = api
  <1>0. TypeOK /\ ~Fault
    BY NoFault DEF StatusInv, DeletionInv, Quiet
  <1>1. UNCHANGED <<apiVars, cache, queueVars, processed, workerVars, volVars, envVars, countVars>>
    BY <1>0 DEF RcStart, RcCheckDeleted, RcList, RcGoto
  <1>2. Kept /\ Stored /\ Quiet /\ api' = api
    BY <1>1, CountSame DEF apiVars, Kept, Stored, Quiet
  <1>3. api.del => api.fin
    BY <1>2 DEF QuietInv, QuietServer
  <1>4. QuietServer' /\ QuietWorker' /\ QuietVolumes' /\ (VolumeFailed => VolumeFailed')
    BY <1>1, <1>2, <1>3, OtherWrites
  <1>5. (vdel # {} => Deleting)' /\ QuietReconciler
    BY <1>1, <1>2 DEF QuietInv, QuietReconciler, Deleting, workerVars, volVars
  <1>6. rpc' \in {"checkDeleted", "annDeleted"} => api'.del
    <2>1. CASE RcStart
      <3>1. cache.del => api.del
        BY <1>2, CopyCases DEF StatusInv, DeletionInv, MarksKept, Quiet
      <3> QED BY <1>2, <2>1, <3>1 DEF RcStart, RcGoto
    <2>2. CASE RcCheckDeleted
      BY <1>2, <1>5, <2>2 DEF RcCheckDeleted, QuietReconciler
    <2>3. CASE RcList
      BY <2>3 DEF RcList, RcVerdicts, RcGoto
    <2> QED BY <2>1, <2>2, <2>3
  <1>7. rpc' = "fail" => rc'.stage = "Volumes" /\ VolumeFailed'
    <2>1. CASE RcStart \/ RcCheckDeleted
      BY <2>1 DEF RcStart, RcCheckDeleted, RcGoto
    <2>2. CASE RcList
      <3>1. rpc' = "fail" => /\ isReconcileRequired(rc) /\ rc' = rc
                             /\ \E v \in LiveVRCs : vrc[v] = "Failed"
        BY <2>2 DEF RcList, RcVerdicts, RcGoto
      <3> QED BY <1>4, <3>1 DEF isReconcileRequired, VolumeFailed
    <2> QED BY <2>1, <2>2
  <1> QED BY <1>2, <1>4, <1>5, <1>6, <1>7 DEF QuietInv, QuietReconciler
-----------------------------------------------------------------------------
(* The service, the informer and the user; every step *)

\* The volume restore service: a failed VRC stays failed until the Restore is deleted.
LEMMA ServicesStay ==
    ASSUME StatusInv, QuietInv, Quiet', ServiceFinishes \/ ServiceRemoves
    PROVE  QuietInv' /\ api' = api
  <1>1. /\ UNCHANGED <<cache, queueVars, processed, workerVars, rcVars, envVars, apiVars, countVars>>
        /\ backed' = backed /\ attempt' = attempt
    BY DEF ServiceFinishes, ServiceRemoves, EnvUnchanged
  <1>2. Kept /\ Quiet /\ api' = api /\ cache' = cache /\ pc' = pc /\ w' = w
    BY <1>1, CountSame DEF apiVars, Kept, Quiet, workerVars
  <1>3. TypeOK /\ QuietServer /\ QuietReconciler /\ QuietWorker /\ QuietVolumes
    BY <1>2 DEF QuietInv, StatusInv, DeletionInv
  <1>4. PICK v \in VRCs :
           /\ \/ vrc[v] = "New" /\ vdel' = vdel
                 /\ \E phase \in {"Completed", "Failed"} : vrc' = [vrc EXCEPT ![v] = phase]
              \/ v \in vdel /\ vdel' = vdel \ {v} /\ vrc' = [vrc EXCEPT ![v] = "absent"]
    BY <1>3 DEF ServiceFinishes, ServiceRemoves, TypeOK
  <1>5. Deleting => Deleting'
    BY <1>2 DEF Deleting
  <1>6. /\ VolumeFailed => VolumeFailed'
        /\ \A u \in LiveVRCs' : u \in LiveVRCs /\ (vrc[u] = "Completed" => vrc'[u] = "Completed")
    <2>1. CASE vrc[v] = "New" /\ \E phase \in {"Completed", "Failed"} : vrc' = [vrc EXCEPT ![v] = phase]
      <3>1. LiveVRCs' = LiveVRCs /\ \A u \in VRCs : vrc[u] # "New" => vrc'[u] = vrc[u]
        BY <1>3, <2>1 DEF LiveVRCs, TypeOK, VRCs
      <3>2. (\E u \in LiveVRCs : vrc[u] = "Failed") => \E u \in LiveVRCs' : vrc'[u] = "Failed"
        BY <3>1 DEF LiveVRCs, VRCs
      <3> QED BY <1>5, <3>1, <3>2 DEF VolumeFailed, LiveVRCs, VRCs
    <2>2. CASE v \in vdel /\ vrc' = [vrc EXCEPT ![v] = "absent"]
      <3>1. Deleting
        BY <1>3, <2>2 DEF QuietReconciler
      <3>2. \A u \in LiveVRCs' : u \in LiveVRCs /\ vrc'[u] = vrc[u]
        BY <1>3, <2>2 DEF LiveVRCs, TypeOK, VRCs
      <3> QED BY <1>5, <3>1, <3>2 DEF VolumeFailed
    <2> QED BY <1>4, <2>1, <2>2
  <1>7. QuietServer' /\ \A b : Passed(b) => Passed(b)'
    BY <1>1, <1>2, <1>3, <1>6, SilentServer
  <1>8. QuietReconciler'
    <2>1. vdel' # {} => vdel # {}
      BY <1>4
    <2> QED BY <1>1, <1>2, <1>3, <1>5, <1>6, <2>1 DEF QuietReconciler, rcVars
  <1>9. QuietWorker'
    <2>1. Passed(w) => Passed(w)'
      BY <1>2, <1>7
    <2> QED BY <1>1, <1>2, <1>3, <2>1 DEF QuietWorker
  <1>10. QuietVolumes'
    <2>1. \A u \in LiveVRCs' : u[1] <= attempt' /\ u[2] \in backed'
      BY <1>1, <1>3, <1>6 DEF QuietVolumes
    <2>2. pc' = "annVolume" => \A u \in LiveVRCs' : vrc'[u] = "Completed"
      BY <1>2, <1>3, <1>6 DEF QuietVolumes
    <2> QED BY <1>1, <1>2, <1>3, <2>1, <2>2 DEF QuietVolumes
  <1> QED BY <1>2, <1>7, <1>8, <1>9, <1>10 DEF QuietInv

\* A delivery: a deletion that was seen stays seen.
LEMMA DeliveryStays ==
    ASSUME StatusInv, QuietInv, Quiet', Informer
    PROVE  QuietInv' /\ api' = api
  <1>1. /\ TypeOK /\ api' = api /\ processed' = processed /\ pc' = pc /\ w' = w /\ UNCHANGED rcVars
        /\ UNCHANGED <<volVars, countVars>>
    BY DEF Informer, workerVars, StatusInv, DeletionInv
  <1>2. /\ LiveVRCs' = LiveVRCs /\ vrc' = vrc /\ vdel' = vdel /\ backed' = backed /\ attempt' = attempt
        /\ Quiet
    BY <1>1, SameVRCs, CountSame DEF Quiet
  <1>3. QuietServer /\ QuietReconciler /\ QuietWorker /\ QuietVolumes
    BY <1>2 DEF QuietInv
  <1>4. Through' \subseteq Through
    BY <1>1, Delivered DEF Through
  <1>5. (Deleting => Deleting') /\ (VolumeFailed => VolumeFailed')
    <2>1. cache.del => cache'.del
      <3>1. cache.del => Gone(watch[1])
        BY <1>1, Delivered DEF StatusInv, DeletionInv, DeletionOrdered
      <3>2. watch[1].rv # 0
        BY <1>1, <1>2, Delivered DEF StatusInv, DeletionInv, RemovalSeen, Quiet
      <3> QED BY <1>1, <3>1, <3>2, Delivered DEF Gone
    <2>2. Deleting => Deleting'
      BY <1>1, <2>1 DEF Deleting
    <2> QED BY <1>2, <2>2 DEF VolumeFailed
  <1>6. \A b : Passed(b) => Passed(b)'
    BY <1>1, <1>2, <1>4, <1>5 DEF Passed
  <1>7. QuietServer'
    <2>1. \A c \in Through' : c.fin = api'.fin /\ Passed(c)'
      BY <1>1, <1>3, <1>4, <1>6 DEF QuietServer
    <2> QED BY <1>1, <1>2, <1>3, <2>1 DEF QuietServer
  <1>8. QuietReconciler'
    BY <1>1, <1>2, <1>3, <1>5 DEF QuietReconciler, rcVars
  <1>9. QuietWorker'
    <2>1. Passed(w) => Passed(w)'
      BY <1>1, <1>6
    <2> QED BY <1>1, <1>3, <2>1 DEF QuietWorker
  <1>10. QuietVolumes'
    BY <1>1, <1>2, <1>3 DEF QuietVolumes
  <1> QED BY <1>1, <1>7, <1>8, <1>9, <1>10 DEF QuietInv

\* The user deletes the Restore.
LEMMA UserDeleteStays ==
    ASSUME StatusInv, StatusInv', QuietInv, Quiet', UserDelete
    PROVE  QuietInv' /\ (api.state = "Failed" => api'.state = "Failed")
  <1> DEFINE b == [api EXCEPT !.del = TRUE]
  <1>1. /\ TypeOK /\ api \in Restore /\ api.rv # 0
        /\ UNCHANGED <<cache, queueVars, processed, workerVars, rcVars, envVars, volVars, countVars>>
    BY DEF StatusInv, DeletionInv, TypeOK, UserDelete, EnvUnchanged
  <1>2. Quiet
    BY <1>1, CountSame DEF Quiet
  <1>3. api.fin /\ Commit(b)
    BY NoRestoreType DEF UserDelete, Remove, Quiet
  <1>4. /\ b \in Restore /\ b.fin = api.fin /\ b.del /\ b.stage = api.stage /\ b.state = api.state
    BY <1>1 DEF Restore
  <1> HIDE DEF b
  <1>5. Stored /\ Is(b)
    BY <1>1, <1>3, <1>4, CommitStores DEF TypeOK
  <1>6. ~Untried(api')
    BY <1>4, <1>5 DEF Is, Untried
  <1>7. QuietServer' /\ QuietWorker' /\ QuietVolumes' /\ (VolumeFailed => VolumeFailed')
    BY <1>1, <1>2, <1>3, <1>4, <1>5, <1>6, OtherWrites DEF Is
  <1>8. QuietReconciler'
    BY <1>1, <1>2, <1>4, <1>5, <1>7
       DEF QuietInv, QuietReconciler, Deleting, workerVars, volVars, rcVars, Is
  <1> QED BY <1>4, <1>5, <1>7, <1>8 DEF QuietInv, Is

\* In the beginning nothing has happened.
LEMMA InitQuiet == Init => QuietInv
  <1> SUFFICES ASSUME Init PROVE QuietInv
    OBVIOUS
  <1>1. /\ api = [NoRestore EXCEPT !.rv = 1] /\ watch = <<api>> /\ cache = NoRestore /\ pc = "idle"
        /\ rpc = "idle" /\ vdel = {} /\ attempt = 0 /\ vrc = [v \in VRCs |-> "absent"]
    BY DEF Init
  <1>2. /\ api.rv = 1 /\ api.stage = "unset" /\ api.state = "unset" /\ ~api.fin /\ ~api.del
        /\ cache.rv = 0
    BY <1>1 DEF NoRestore
  <1>3. \A c \in Through : c = api
    BY <1>1, <1>2 DEF Through, Copies
  <1>4. LiveVRCs = {}
    BY <1>1 DEF LiveVRCs
  <1>5. QuietServer
    BY <1>1, <1>2, <1>3 DEF QuietServer, Passed, Untried
  <1> QED BY <1>1, <1>4, <1>5 DEF QuietInv, QuietReconciler, QuietWorker, QuietVolumes

\* Every step after which nothing has been disturbed keeps the invariant.
LEMMA QuietStays ==
    ASSUME StatusInv, StatusInv', QuietInv, [Next]_vars, Quiet'
    PROVE  QuietInv'
  <1>1. CASE Worker
    BY <1>1, QueueStays, FinalizerStays, StateWritersStay, StageWritersStay, LocalsStay, AnnotationStays,
       PrepareStays, CreateStays, DeletersStay
    DEF Worker
  <1>2. CASE Reconciler
    BY <1>2, RcReadsStay, RcFailureStays, RcAnnotateStays DEF Reconciler
  <1>3. CASE Informer
    BY <1>3, DeliveryStays
  <1>4. CASE UserDelete
    BY <1>4, UserDeleteStays
  <1>5. CASE ServiceFinishes \/ ServiceRemoves
    BY <1>5, ServicesStay
  <1>6. ~UserTouch /\ ~Crash
    <2>1. faults \in Nat /\ touches \in Nat /\ crashes \in Nat
      BY DEF StatusInv, DeletionInv, TypeOK
    <2>2. faults' + touches' + crashes' = 0
      BY DEF Quiet, disturbed
    <2>3. ~UserTouch
      <3>1. UserTouch => touches' = touches + 1 /\ faults' = faults /\ crashes' = crashes
        BY DEF UserTouch
      <3> QED BY <2>1, <2>2, <3>1
    <2>4. ~Crash
      <3>1. Crash => crashes' = crashes + 1 /\ faults' = faults /\ touches' = touches
        BY DEF Crash
      <3> QED BY <2>1, <2>2, <3>1
    <2> QED BY <2>3, <2>4
  <1>7. CASE UNCHANGED vars
    <2>1. /\ UNCHANGED <<apiVars, cache, queueVars, processed>>
          /\ UNCHANGED <<workerVars, rcVars, volVars, envVars, countVars>>
      BY <1>7 DEF vars, apiVars, queueVars, workerVars, rcVars, volVars, envVars, countVars
    <2>2. /\ api' = api /\ watch' = watch /\ cache' = cache /\ processed' = processed
          /\ pc' = pc /\ w' = w /\ rpc' = rpc /\ rc' = rc /\ vrc' = vrc /\ vdel' = vdel
          /\ backed' = backed /\ attempt' = attempt
      BY <2>1 DEF apiVars, workerVars, rcVars, volVars
    <2>3. /\ Quiet /\ LiveVRCs' = LiveVRCs
      BY <2>1, <2>2, CountSame, SameVRCs DEF Quiet
    <2>4. Through' = Through /\ Deleting' = Deleting /\ VolumeFailed' = VolumeFailed
      BY <2>2, <2>3 DEF Through, Copies, Deleting, VolumeFailed
    <2>5. \A b : Passed(b) => Passed(b)'
      BY <2>2, <2>4 DEF Passed
    <2>6. QuietServer /\ QuietReconciler /\ QuietWorker /\ QuietVolumes
      BY <2>3 DEF QuietInv
    <2>7. QuietServer'
      BY <2>2, <2>4, <2>5, <2>6 DEF QuietServer, Untried
    <2>8. QuietReconciler'
      BY <2>2, <2>4, <2>6 DEF QuietReconciler
    <2>9. QuietWorker'
      <3>1. Passed(w) => Passed(w)'
        BY <2>2, <2>5
      <3> QED BY <2>2, <2>6, <3>1 DEF QuietWorker
    <2>10. QuietVolumes'
      BY <2>2, <2>3, <2>6 DEF QuietVolumes
    <2> QED BY <2>7, <2>8, <2>9, <2>10 DEF QuietInv
  <1> QED BY <1>1, <1>2, <1>3, <1>4, <1>5, <1>6, <1>7 DEF Next, PrepareVolumePanics

-----------------------------------------------------------------------------
(* A failed restore stays failed, the step included that disturbs it first *)

\* A status write from another revision changes nothing.
LEMMA RefusedWrite ==
    ASSUME NEW b, b.rv # api.rv, NEW next, NEW onError, UpdateRestoreStatus(b, next, onError)
    PROVE  api' = api
  BY DEF UpdateRestoreStatus, apiVars

\* A commit stores the state it is given.
LEMMA CommitState ==
    ASSUME TypeOK, NEW b \in Restore, Commit(b)
    PROVE  api'.state = b.state
  BY DEF TypeOK, Restore, Commit, apiVars

\* A failure written over a failure leaves one, whether or not the write is refused.
LEMMA FailureWrite ==
    ASSUME TypeOK, api.state = "Failed", NEW b, b.state = "Failed", NEW next, NEW onError,
           UpdateRestoreStatus(b, next, onError)
    PROVE  api'.state = "Failed"
  <1>1. StatusOf(b).state = "Failed" /\ StatusOf(b).stage = b.stage
    BY DEF TypeOK, Restore, StatusOf
  <1>2. Commit(StatusOf(b)) => api'.state = "Failed"
    BY <1>1 DEF Commit, apiVars, StatusOf, TypeOK, Restore
  <1> QED BY <1>2 DEF UpdateRestoreStatus, apiVars

\* A step that writes no status leaves the state, or removes the object.
LEMMA PatchState ==
    ASSUME TypeOK, NEW next,
           \/ PatchRestore([api EXCEPT !.fin = TRUE], next)
           \/ \E a \in Annotations : PatchRestore([api EXCEPT !.ann = @ \cup {a}], next)
           \/ Local(next) \/ CallFails(next) \/ EnvStep(next)
    PROVE  api'.state = api.state
  <1>1. CASE PatchRestore([api EXCEPT !.fin = TRUE], next)
    <2>1. [api EXCEPT !.fin = TRUE] \in Restore /\ [api EXCEPT !.fin = TRUE].state = api.state
      BY DEF TypeOK, Restore
    <2>2. Commit([api EXCEPT !.fin = TRUE]) => api'.state = api.state
      BY <2>1, CommitState
    <2> QED BY <1>1, <2>2 DEF PatchRestore, apiVars
  <1>2. ASSUME NEW a \in Annotations, PatchRestore([api EXCEPT !.ann = @ \cup {a}], next)
        PROVE  api'.state = api.state
    <2>1. Commit([api EXCEPT !.ann = @ \cup {a}]) => api'.state = api.state
      BY Annotated, CommitState
    <2> QED BY <1>2, <2>1 DEF PatchRestore, apiVars
  <1>3. CASE Local(next) \/ CallFails(next) \/ EnvStep(next)
    BY <1>3 DEF Local, CallFails, EnvStep, apiVars
  <1> QED BY <1>1, <1>2, <1>3

\* The worker: a copy of the failed object is on its way to popFailed2, and any other copy
\* is out of date.
LEMMA WorkerHoldsFailed ==
    ASSUME StatusInv, QuietInv, Quiet, api.state = "Failed", Worker, api'.rv # 0
    PROVE  api'.state = "Failed"
  <1>1. TypeOK /\ w \in Restore /\ QuietWorker
    BY DEF StatusInv, DeletionInv, TypeOK, QuietInv
  <1>2. pc \in SyncPcs /\ pc # "popFailed2" => w.rv # api.rv
    BY <1>1, PathPcs DEF QuietWorker, SyncerPcs
  <1>3. \A stage, state :
           /\ WithState(state).rv = w.rv /\ WithState(state).state = state
           /\ [w EXCEPT !.stage = stage].rv = w.rv
           /\ [w EXCEPT !.res = TRUE].rv = w.rv
    BY <1>1 DEF Restore, WithState
  <1>4. CASE \/ InitRestore \/ ValidationFailed \/ Validated \/ PatchRestoreObjects
             \/ VolumeRestoreFailed \/ VolumeRestoreCompleted \/ VolumeRestoreProcessing \/ ToResources
    <2>1. CASE InitRestore
      <3>1. pc \in SyncPcs /\ pc # "popFailed2"
        BY <2>1 DEF InitRestore, SyncPcs, DeletePcs, Pcs
      <3>2. [w EXCEPT !.stage = IF @ = "unset" THEN "Initial" ELSE @,
                      !.state = IF @ = "unset" THEN "New" ELSE @].rv = w.rv
        BY <1>1 DEF Restore
      <3> QED BY <1>2, <2>1, <3>1, <3>2, RefusedWrite DEF InitRestore
    <2>2. CASE \/ ValidationFailed \/ Validated \/ PatchRestoreObjects \/ VolumeRestoreFailed
               \/ VolumeRestoreCompleted \/ VolumeRestoreProcessing \/ ToResources
      <3>1. pc \in SyncPcs /\ pc # "popFailed2"
        BY <2>2 DEF ValidationFailed, Validated, PatchRestoreObjects, VolumeRestoreFailed,
                    VolumeRestoreCompleted, VolumeRestoreProcessing, ToResources, SyncPcs, DeletePcs, Pcs
      <3>2. CASE \/ ValidationFailed \/ VolumeRestoreFailed \/ VolumeRestoreCompleted
                 \/ VolumeRestoreProcessing
        BY <1>2, <1>3, <3>1, <3>2, RefusedWrite
        DEF ValidationFailed, VolumeRestoreFailed, VolumeRestoreCompleted, VolumeRestoreProcessing
      <3>3. CASE Validated
        <4>1. [w EXCEPT !.stage = "Volumes", !.state = "New"].rv = w.rv
          BY <1>1 DEF Restore
        <4> QED BY <1>2, <3>1, <3>3, <4>1, RefusedWrite DEF Validated
      <3>4. CASE PatchRestoreObjects
        BY <1>2, <1>3, <3>1, <3>4, RefusedWrite DEF PatchRestoreObjects
      <3>5. CASE ToResources
        <4>1. [w EXCEPT !.stage = "Resources", !.state = "New"].rv = w.rv
          BY <1>1 DEF Restore
        <4> QED BY <1>2, <3>1, <3>5, <4>1, RefusedWrite DEF ToResources
      <3> QED BY <2>2, <3>2, <3>3, <3>4, <3>5
    <2> QED BY <1>4, <2>1, <2>2
  <1>5. CASE \/ ApplyCompleted \/ ToPostHook \/ HooksCompleted \/ MetadataCompleted
             \/ MetadataFailed \/ ToFinished
    <2>1. pc \in SyncPcs /\ pc # "popFailed2"
      BY <1>5 DEF ApplyCompleted, ToPostHook, HooksCompleted, MetadataCompleted, MetadataFailed,
                  ToFinished, SyncPcs, DeletePcs, Pcs
    <2>2. CASE ApplyCompleted \/ HooksCompleted \/ MetadataCompleted \/ MetadataFailed
      BY <1>2, <1>3, <2>1, <2>2, RefusedWrite
      DEF ApplyCompleted, HooksCompleted, MetadataCompleted, MetadataFailed
    <2>3. CASE ToPostHook
      <3>1. [w EXCEPT !.state = "Processing", !.stage = "PostHook"].rv = w.rv
        BY <1>1 DEF Restore
      <3> QED BY <1>2, <2>1, <2>3, <3>1, RefusedWrite DEF ToPostHook
    <2>4. CASE ToFinished
      BY <1>2, <1>3, <2>1, <2>4, RefusedWrite DEF ToFinished
    <2> QED BY <1>5, <2>2, <2>3, <2>4
  <1>6. CASE PopulateFailed
    <2>1. WithState("Failed").state = "Failed"
      BY <1>3
    <2> QED BY <1>1, <1>6, <2>1, FailureWrite DEF PopulateFailed
  <1>7. CASE Finish
    <2>1. pc \in SyncPcs /\ pc # "popFailed2"
      BY <1>7 DEF Finish, SyncPcs, DeletePcs, Pcs
    <2> QED BY <1>1, <1>2, <1>3, <1>7, <2>1, RefusedWrite, PatchState DEF Finish
  <1>8. CASE \/ ValidateRestore \/ PopulateRestoreResources \/ SyncRestore \/ SyncVolumeRestore
             \/ CheckPVCRestored \/ CheckVolumeRestoreStatus \/ ListVolumeRestore
    BY <1>1, <1>8, PatchState
    DEF ValidateRestore, PopulateRestoreResources, SyncRestore, SyncVolumeRestore, CheckPVCRestored,
        CheckVolumeRestoreStatus, ListVolumeRestore
  <1>9. CASE ApplyResources \/ RunPostHooks
    BY <1>1, <1>9, PatchState DEF ApplyResources, RunPostHooks
  <1>10. CASE EnsureFinalizer
    BY <1>1, <1>10, PatchState DEF EnsureFinalizer
  <1>11. CASE AnnotateCleaned
    <2>1. "restore-cleanup-done" \in Annotations
      BY DEF Annotations
    <2> QED BY <1>1, <1>11, <2>1, PatchState DEF AnnotateCleaned
  <1>12. CASE AnnotateVolumeRestore
    <2>1. "volume-restore-completed" \in Annotations
      BY DEF Annotations
    <2>2. CASE UNCHANGED apiVars
      BY <2>2 DEF apiVars
    <2>3. CASE PatchRestore([api EXCEPT !.ann = @ \cup {"volume-restore-completed"}], "volCompleted")
      BY <1>1, <2>1, <2>3, PatchState
    <2> QED BY <1>12, <2>2, <2>3 DEF AnnotateVolumeRestore, AnnotateRestore
  <1>13. CASE ProcessQueue \/ RemoveVolumeRestore \/ PrepareVolumeRestore \/ CreateVRC
    <2>1. UNCHANGED apiVars
      BY <1>13 DEF ProcessQueue, RemoveVolumeRestore, PrepareVolumeRestore, CreateVRC, CallFails,
                   Local
    <2> QED BY <2>1 DEF apiVars
  <1>14. CASE CleanupRestoredMetadata
    <2>1. UNCHANGED apiVars
      BY <1>14 DEF CleanupRestoredMetadata, Local, EnvStep
    <2> QED BY <2>1 DEF apiVars
  <1>15. CASE RemoveFinalizer
    <2>1. UNCHANGED apiVars \/ api' = NoRestore
      BY <1>15 DEF RemoveFinalizer, Remove
    <2>2. NoRestore.rv = 0
      BY NoRestoreType
    <2> QED BY <2>1, <2>2 DEF apiVars
  <1> QED BY <1>4, <1>5, <1>6, <1>7, <1>8, <1>9, <1>10, <1>11, <1>12, <1>13, <1>14, <1>15 DEF Worker

\* No step takes Failed away from a restore that nothing has disturbed yet.
LEMMA FailedStays ==
    ASSUME StatusInv, QuietInv, Quiet, api.state = "Failed", [Next]_vars, api'.rv # 0
    PROVE  api'.state = "Failed"
  <1>1. TypeOK /\ HandlersHold /\ api \in Restore
    BY DEF StatusInv, DeletionInv, TypeOK
  <1>2. CASE Worker
    BY <1>2, WorkerHoldsFailed
  <1>3. CASE Reconciler
    BY <1>1, <1>3, ReconcilerStep DEF ReconcilerOutcome, Kept, Is
  <1>4. CASE UserDelete
    <2>1. [api EXCEPT !.del = TRUE] \in Restore /\ [api EXCEPT !.del = TRUE].state = "Failed"
      BY <1>1 DEF Restore
    <2>2. Commit([api EXCEPT !.del = TRUE]) => api'.state = "Failed"
      BY <1>1, <2>1, CommitState
    <2> QED BY <1>4, <2>2, NoRestoreType DEF UserDelete, Remove
  <1>5. CASE UserTouch
    BY <1>1, <1>5 DEF UserTouch, Restore
  <1>6. CASE Informer \/ ServiceFinishes \/ ServiceRemoves \/ Crash \/ UNCHANGED vars
    BY <1>6 DEF Informer, ServiceFinishes, ServiceRemoves, Crash, vars, apiVars
  <1> QED BY <1>2, <1>3, <1>4, <1>5, <1>6 DEF Next, PrepareVolumePanics

\* The stage in the API server never moves back, although worker and reconciler write the
\* whole status from copies of different age and three writes of applyIndexedResource go on
\* after an error (metadatarestore.go:225-314); and while no call fails, nobody else writes
\* and nothing crashes, a failed restore is not taken up again, by the worker that reads a
\* cache behind its own writes (restorecontroller.go:245-290) or by the reconciler.
THEOREM StatusGoesForward == Spec => OnlyForward
  <1>1. Init => ServerKnown /\ QuietInv
    BY InitQuiet DEF Init, ServerKnown
  <1>2. ServerKnown /\ QuietInv /\ StatusInv /\ StatusInv' /\ [Next]_vars => ServerKnown' /\ QuietInv'
    <2> SUFFICES ASSUME ServerKnown, QuietInv, StatusInv, StatusInv', [Next]_vars
                 PROVE  ServerKnown' /\ QuietInv'
      OBVIOUS
    <2>1. ServerKnown'
      BY ServerKnownStays DEF StatusInv, DeletionInv
    <2>2. Quiet' => QuietInv'
      BY QuietStays
    <2>3. ~Quiet' => QuietInv'
      BY DEF QuietInv
    <2>4. QuietInv'
      BY <2>2, <2>3
    <2> QED BY <2>1, <2>4
  <1>3. ServerKnown /\ QuietInv /\ StatusInv /\ StatusInv' /\ [Next]_vars
          => [api'.rv # 0 /\ api.rv # 0 =>
                /\ Rank(api') >= Rank(api)
                /\ api.state = "Failed" /\ disturbed = 0 => api'.state = "Failed"]_vars
    <2> SUFFICES ASSUME ServerKnown, QuietInv, StatusInv, StatusInv', [Next]_vars,
                        api'.rv # 0, api.rv # 0
                 PROVE  /\ Rank(api') >= Rank(api)
                        /\ api.state = "Failed" /\ disturbed = 0 => api'.state = "Failed"
      OBVIOUS
    <2>1. Rank(api') >= Rank(api)
      BY StageStays DEF StatusInv, DeletionInv
    <2>2. api.state = "Failed" /\ disturbed = 0 => api'.state = "Failed"
      BY FailedStays DEF Quiet
    <2> QED BY <2>1, <2>2
  <1> QED BY <1>1, <1>2, <1>3, StatusInOrder, PTL DEF Spec, OnlyForward
-----------------------------------------------------------------------------
(* What an unfinished restore takes along when it goes: no call failed *)

\* A step fails no call, or counts the failure.
Counts == faults' = faults \/ faults' = faults + 1

\* The calls of the worker count their failures.
LEMMA CallCounts ==
    ASSUME NEW b, NEW next, NEW onError,
           \/ UpdateRestoreStatus(b, next, onError) \/ PatchRestore(b, next)
           \/ Local(next) \/ CallFails(next) \/ EnvStep(next)
    PROVE  Counts
  <1>1. UNCHANGED countVars \/ Fault
    BY DEF UpdateRestoreStatus, PatchRestore, Local, CallFails, EnvStep
  <1> QED BY <1>1 DEF Counts, countVars, Fault

\* So does every step of the worker.
LEMMA WorkerCounts ==
    ASSUME Worker
    PROVE  Counts
  <1>0. UNCHANGED countVars \/ Fault => Counts
    BY DEF Counts, countVars, Fault
  <1>1. CASE \/ InitRestore \/ ValidationFailed \/ Validated \/ PopulateFailed
             \/ PatchRestoreObjects \/ VolumeRestoreFailed \/ VolumeRestoreCompleted
             \/ VolumeRestoreProcessing \/ ToResources
    BY <1>1, CallCounts
    DEF InitRestore, ValidationFailed, Validated, PopulateFailed, PatchRestoreObjects,
        VolumeRestoreFailed, VolumeRestoreCompleted, VolumeRestoreProcessing, ToResources
  <1>2. CASE \/ ApplyCompleted \/ ToPostHook \/ HooksCompleted \/ MetadataCompleted
             \/ MetadataFailed \/ ToFinished
    BY <1>2, CallCounts
    DEF ApplyCompleted, ToPostHook, HooksCompleted, MetadataCompleted, MetadataFailed, ToFinished
  <1>3. CASE ValidateRestore \/ PopulateRestoreResources \/ SyncRestore \/ SyncVolumeRestore
    BY <1>3, CallCounts DEF ValidateRestore, PopulateRestoreResources, SyncRestore, SyncVolumeRestore
  <1>4. CASE CheckPVCRestored \/ CheckVolumeRestoreStatus \/ ListVolumeRestore
    BY <1>4, CallCounts DEF CheckPVCRestored, CheckVolumeRestoreStatus, ListVolumeRestore
  <1>5. CASE ApplyResources \/ RunPostHooks
    BY <1>5, CallCounts DEF ApplyResources, RunPostHooks
  <1>6. CASE Finish \/ EnsureFinalizer \/ AnnotateCleaned
    BY <1>6, CallCounts DEF Finish, EnsureFinalizer, AnnotateCleaned
  <1>7. CASE AnnotateVolumeRestore
    <2>1. AnnotateRestore("volume-restore-completed", "volCompleted")
      BY <1>7 DEF AnnotateVolumeRestore
    <2>2. UNCHANGED countVars \/ Counts
      BY <2>1, CallCounts DEF AnnotateRestore
    <2> QED BY <1>0, <2>2
  <1>8. CASE ProcessQueue \/ RemoveVolumeRestore \/ RemoveFinalizer
    <2>1. UNCHANGED countVars \/ Fault
      BY <1>8 DEF ProcessQueue, RemoveVolumeRestore, RemoveFinalizer
    <2> QED BY <1>0, <2>1
  <1>9. CASE PrepareVolumeRestore \/ CreateVRC
    <2>1. UNCHANGED countVars \/ Fault
      BY <1>9 DEF PrepareVolumeRestore, CreateVRC, CallFails, Local
    <2> QED BY <1>0, <2>1
  <1>10. CASE CleanupRestoredMetadata
    <2>1. UNCHANGED countVars \/ Fault
      BY <1>10 DEF CleanupRestoredMetadata, Local, EnvStep
    <2> QED BY <1>0, <2>1
  <1> QED BY <1>1, <1>2, <1>3, <1>4, <1>5, <1>6, <1>7, <1>8, <1>9, <1>10 DEF Worker

\* If no call has failed after a step, none had before.
LEMMA FaultsStay ==
    ASSUME TypeOK, [Next]_vars, faults' = 0
    PROVE  faults = 0
  <1>1. CASE Reconciler
    <2>1. UNCHANGED countVars \/ Fault
      BY <1>1 DEF Reconciler, RcStart, RcCheckDeleted, RcList, RcUpdateFailure, RcAnnotate
    <2> QED BY <2>1 DEF countVars, Fault, TypeOK
  <1>2. CASE Informer \/ UserDelete \/ UserTouch \/ ServiceFinishes \/ ServiceRemoves \/ Crash
    BY <1>2 DEF Informer, UserDelete, UserTouch, ServiceFinishes, ServiceRemoves, Crash, countVars
  <1>3. CASE UNCHANGED vars
    BY <1>3 DEF vars
  <1>4. CASE Worker
    BY <1>4, WorkerCounts DEF Counts, TypeOK
  <1> QED BY <1>1, <1>2, <1>3, <1>4 DEF Next, PrepareVolumePanics

\* A commit stores the list of resources of the object given.
LEMMA CommitRes ==
    ASSUME api \in Restore, NEW b \in Restore, Commit(b)
    PROVE  api'.res = b.res
  <1>1. CASE [b EXCEPT !.rv = api.rv] = api
    BY <1>1 DEF Commit, Restore, apiVars
  <1>2. CASE [b EXCEPT !.rv = api.rv] # api
    BY <1>2 DEF Commit, Restore
  <1> QED BY <1>1, <1>2

\* What a status write comes to if no call fails: it is carried out, or refused.
FreeStatus(b, next) ==
    \/ /\ Wrote(b) /\ api'.res = b.res
       /\ processed' = (IF processed > api'.rv THEN processed ELSE api'.rv)
       /\ Leads(next, api')
    \/ b.rv # api.rv /\ Kept /\ processed' = processed /\ (Stopped \/ Leads(next, b))

\* A status write without a failed call has one of these outcomes.
LEMMA FreeStatusStep ==
    ASSUME TypeOK, faults = 0, faults' = 0, NEW b \in Restore, b.rv # 0, NEW next \in Nexts,
           NEW onError, UpdateRestoreStatus(b, next, onError)
    PROVE  WriteFrame /\ FreeStatus(b, next)
  <1>0. api \in Restore /\ watch \in Seq(Restore)
    BY DEF TypeOK
  <1>1. WriteFrame
    BY DEF UpdateRestoreStatus, WriteFrame, WorkerFrame
  <1>2. CASE /\ b.rv = api.rv /\ Commit(StatusOf(b)) /\ StoreRevisionUpdate(api'.rv)
             /\ Continue(next, api')
    <2>1. StatusOf(b) \in Restore /\ StatusOf(b).res = b.res
      BY <1>0, StatusOfType DEF StatusOf, Restore
    <2>2. api' \in Restore /\ Wrote(b) /\ api'.res = b.res
      BY <1>0, <1>2, <2>1, StatusOfType, CommitStores, CommitRes DEF Wrote, Is
    <2>3. Leads(next, api')
      BY <1>2, <2>2, ContinueType
    <2> QED BY <1>1, <1>2, <2>2, <2>3 DEF FreeStatus, StoreRevisionUpdate
  <1>3. CASE /\ b.rv # api.rv
             /\ IF onError = "ignore" THEN Continue(next, b)
                ELSE IF api.rv = 0 THEN ReturnErr ELSE Return
             /\ UNCHANGED <<apiVars, processed, countVars>>
    <2>1. Kept
      BY <1>3 DEF apiVars, Kept
    <2>2. Leads(next, b) \/ Stopped
      BY <1>3, ContinueType, ReturnErrType, ReturnType DEF Stopped
    <2> QED BY <1>1, <1>3, <2>1, <2>2 DEF FreeStatus
  <1>4. ~Fault
    BY DEF Fault
  <1> QED BY <1>2, <1>3, <1>4 DEF UpdateRestoreStatus

\* What a patch comes to if the object exists and no call fails.
FreePatch(b, next) ==
    /\ Stored /\ Is(b) /\ api'.res = b.res
    /\ processed' = (IF processed > api'.rv THEN processed ELSE api'.rv)
    /\ Leads(next, api')

\* A patch without a failed call is carried out.
LEMMA FreePatchStep ==
    ASSUME TypeOK, faults = 0, faults' = 0, api.rv # 0, NEW b \in Restore, NEW next \in Nexts,
           PatchRestore(b, next)
    PROVE  WriteFrame /\ FreePatch(b, next)
  <1>0. api \in Restore /\ watch \in Seq(Restore)
    BY DEF TypeOK
  <1>1. WriteFrame
    BY DEF PatchRestore, WriteFrame, WorkerFrame
  <1>2. ~Fault
    BY DEF Fault
  <1>3. Commit(b) /\ StoreRevisionUpdate(api'.rv) /\ Continue(next, api')
    BY <1>2 DEF PatchRestore
  <1>4. api' \in Restore /\ Stored /\ Is(b) /\ api'.res = b.res
    BY <1>0, <1>3, CommitStores, CommitRes
  <1>5. Leads(next, api')
    BY <1>3, <1>4, ContinueType
  <1> QED BY <1>1, <1>3, <1>4, <1>5 DEF FreePatch, StoreRevisionUpdate

\* What a step of worker, reconciler or environment does to the object and to the copies
\* that will be written from: a stored Finished is Completed, listed resources stay listed,
\* and whoever lists them tells the store.
Records ==
    /\ Stored /\ cache' = cache
    /\ Kept \/ (api'.stage = "Finished" => api'.state = "Completed")
    /\ pc' \notin DeletePcs \cup {"idle", "finished"} => w'.stage # "Finished"
    /\ rpc' = "fail" => rc'.stage = "Volumes"
    /\ api.res => api'.res
    /\ processed <= processed'
    /\ api'.res => api.res \/ api'.rv <= processed'
    /\ pc' # "idle" /\ w'.rv = api'.rv => w'.res = api'.res
    /\ api'.res /\ pc' \in DeletePcs => w'.res

\* Such a step keeps both.
LEMMA RecordsKeep ==
    ASSUME StatusInv, TypeOK', api.rv # 0, FinishedIsCompleted, ResourcesListed, Records
    PROVE  FinishedIsCompleted' /\ ResourcesListed'
  <1>0. TypeOK /\ Stored /\ cache' = cache
    BY DEF StatusInv, DeletionInv, Records
  <1>1. /\ \A c \in Copies' : c \in Copies \/ c = api'
        /\ Kept => api' = api
    BY <1>0, StoredCopies DEF Kept
  <1>2. FinishedIsCompleted'
    <2>1. api'.stage = "Finished" => api'.state = "Completed"
      BY <1>1 DEF Records, FinishedIsCompleted
    <2>2. \A c \in (Copies \cup {api})' : c.stage = "Finished" => c.state = "Completed"
      BY <1>1, <2>1 DEF FinishedIsCompleted
    <2> QED BY <2>2 DEF Records, FinishedIsCompleted
  <1>3. ASSUME api'.res, NEW c \in Copies', c.rv # 0, c.rv >= processed'
        PROVE  c.res
    <2>1. CASE c = api'
      BY <1>3, <2>1
    <2>2. CASE c \in Copies
      <3>1. /\ c \in Restore /\ c.rv \in Nat /\ api'.rv \in Nat /\ api.rv \in Nat
            /\ processed \in Nat /\ processed' \in Nat
        <4>1. c \in Restore /\ api' \in Restore /\ api \in Restore
          BY <1>0, <2>2 DEF TypeOK, Copies
        <4> QED BY <1>0, <4>1 DEF TypeOK, Restore
      <3>2. c.rv <= api.rv
        BY <2>2 DEF StatusInv, CopiesAgree
      <3>3. CASE api.res
        BY <1>3, <2>2, <3>1, <3>3 DEF Records, ResourcesListed
      <3>4. CASE ~api.res
        <4>1. ~Kept
          BY <1>1, <1>3, <3>4
        <4>2. api'.rv = api.rv + 1
          BY <1>0, <4>1 DEF Stored
        <4>3. api'.rv <= processed'
          BY <1>3, <3>4 DEF Records
        <4> QED BY <1>3, <3>1, <3>2, <4>2, <4>3
      <3> QED BY <3>3, <3>4
    <2> QED BY <1>1, <1>3, <2>1, <2>2
  <1>4. ResourcesListed'
    BY <1>3 DEF Records, ResourcesListed
  <1> QED BY <1>2, <1>4

\* A step that takes no VRC away and cleans nothing up keeps what a deletion relies on.
LEMMA TakenKeeps ==
    ASSUME TakenAlong, UNCHANGED <<vdel, vclean, bound>>, LiveVRCs \subseteq LiveVRCs',
           pc' \in CleanedPcs /\ w'.res => CleanedUp(applied')
    PROVE  TakenAlong'
  <1>1. \A p \in bound' : \E v \in LiveVRCs' : v[2] = p
    BY DEF TakenAlong
  <1> QED BY <1>1 DEF TakenAlong

\* What the lemmas about a step start from, and what they show of it
Removable ==
    /\ StatusInv /\ api.rv # 0 /\ faults = 0 /\ FinishedIsCompleted /\ ResourcesListed
    /\ api.stage # "Finished" => TakenAlong
Taken == api.stage # "Finished" /\ api'.stage # "Finished" => TakenAlong'

\* The facts of the invariant in one place
LEMMA RemovableFacts ==
    ASSUME Removable
    PROVE  /\ StatusInv /\ DeletionInv /\ TypeOK /\ api.rv # 0 /\ faults = 0
           /\ FinishedIsCompleted /\ ResourcesListed /\ WorkerStage /\ WorkerAgrees
           /\ api \in Restore /\ w \in Restore /\ api.rv \in Nat /\ processed \in Nat
           /\ processed <= api.rv /\ (pc # "idle" => w.rv # 0 /\ w.rv <= api.rv)
  <1>1. StatusInv /\ DeletionInv /\ TypeOK /\ ProcessedBounds /\ HandlersHold
    BY DEF Removable, StatusInv, DeletionInv
  <1>2. api \in Restore /\ w \in Restore /\ api.rv \in Nat /\ w.rv \in Nat /\ processed \in Nat
    BY <1>1 DEF TypeOK, Restore
  <1> QED BY <1>1, <1>2 DEF Removable, StatusInv, ProcessedBounds, HandlersHold

\* The steps of syncRestore lead nowhere behind a cleanup.
LEMMA SyncTakes ==
    ASSUME Removable, SyncMove, UNCHANGED <<vdel, vclean, bound>>, LiveVRCs \subseteq LiveVRCs'
    PROVE  Taken
  <1>1. pc' \notin CleanedPcs
    BY PathPcs DEF SyncMove, CleanedPcs, DeletePcs
  <1> QED BY <1>1, TakenKeeps DEF Taken, Removable

\* A status write of syncRestore
LEMMA StatusRecords ==
    ASSUME Removable, faults' = 0, pc \in SyncPcs, NEW b \in Restore, b.rv = w.rv,
           w.res => b.res, NEW next \in SyncNexts, NEW onError,
           UpdateRestoreStatus(b, next, onError),
           b.stage = "Finished" => b.state = "Completed" /\ next \in {"finished", "return"}
    PROVE  Records /\ Taken
  <1>0. /\ TypeOK /\ StatusInv /\ api.rv # 0 /\ faults = 0 /\ ResourcesListed /\ FinishedIsCompleted
        /\ processed \in Nat /\ api.rv \in Nat /\ pc # "idle" /\ b.rv # 0 /\ next \in Nexts
    BY RemovableFacts, PathPcs DEF SyncNexts, Nexts
  <1>1. WriteFrame /\ FreeStatus(b, next) /\ TypeOK'
    BY <1>0, FreeStatusStep, UpdateStatusOutcome
  <1>2. cache' = cache /\ rpc' = rpc /\ rc' = rc
    BY <1>1 DEF WriteFrame, WorkerFrame, rcVars
  <1>3. api'.rv \in Nat /\ processed' \in Nat
    BY <1>1 DEF TypeOK, Restore
  <1>4. pc' \notin DeletePcs /\ (pc' # "idle" => pc' = next /\ next # "return" /\ w' \in {b, api'})
    BY <1>1, PathPcs DEF FreeStatus, Leads, Stopped, SyncNexts
  <1>5. ASSUME /\ Wrote(b) /\ api'.res = b.res
               /\ processed' = (IF processed > api'.rv THEN processed ELSE api'.rv)
               /\ Leads(next, api')
        PROVE  Records
    <2>1. Stored /\ b.rv = api.rv /\ api'.stage = b.stage /\ api'.state = b.state
      BY <1>5 DEF Wrote
    <2>2. w.res = api.res
      BY <1>0, <2>1 DEF ResourcesListed
    <2>3. processed <= processed' /\ api'.rv <= processed'
      BY <1>0, <1>3, <1>5
    <2>4. pc' # "idle" => w' = api'
      BY <1>5, PathPcs DEF Leads
    <2>5. pc' \notin {"idle", "finished"} => w'.stage # "Finished"
      BY <1>4, <2>1, <2>4
    <2>6. api.res => api'.res
      BY <1>5, <2>2
    <2>7. Kept \/ (api'.stage = "Finished" => api'.state = "Completed")
      BY <2>1
    <2>8. rpc' = "fail" => rc'.stage = "Volumes"
      BY <1>0, <1>2 DEF FinishedIsCompleted
    <2>9. pc' \notin DeletePcs \cup {"idle", "finished"} => w'.stage # "Finished"
      BY <2>5
    <2>10. api'.res => api.res \/ api'.rv <= processed'
      BY <2>3
    <2>11. pc' # "idle" /\ w'.rv = api'.rv => w'.res = api'.res
      BY <2>4
    <2>12. api'.res /\ pc' \in DeletePcs => w'.res
      BY <1>4
    <2>13. Stored /\ cache' = cache /\ processed <= processed'
      BY <1>2, <2>1, <2>3
    <2> QED BY ONLY <2>6, <2>7, <2>8, <2>9, <2>10, <2>11, <2>12, <2>13, Zenon DEF Records
  <1>6. ASSUME /\ b.rv # api.rv /\ Kept /\ processed' = processed
               /\ Stopped \/ Leads(next, b)
        PROVE  Records
    <2>1. Stored /\ api' = api
      BY <1>6 DEF Stored, Kept
    <2>2. pc' # "idle" => pc' = next /\ next # "return" /\ w' = b
      BY <1>6, PathPcs DEF Leads, Stopped
    <2>3. pc' \notin {"idle", "finished"} => w'.stage # "Finished"
      BY <2>2
    <2>4. rpc' = "fail" => rc'.stage = "Volumes"
      BY <1>0, <1>2 DEF FinishedIsCompleted
    <2>5. processed <= processed'
      BY <1>0, <1>6
    <2>6. pc' # "idle" => w'.rv # api'.rv
      BY <1>6, <2>1, <2>2
    <2>7. pc' \notin DeletePcs \cup {"idle", "finished"} => w'.stage # "Finished"
      BY <2>3
    <2>8. (api.res => api'.res) /\ (api'.res => api.res \/ api'.rv <= processed')
      BY <2>1
    <2>9. api'.res /\ pc' \in DeletePcs => w'.res
      BY <1>4
    <2>10. pc' # "idle" /\ w'.rv = api'.rv => w'.res = api'.res
      BY <2>6
    <2>11. Stored /\ cache' = cache /\ (Kept \/ (api'.stage = "Finished" => api'.state = "Completed"))
      BY <1>2, <1>6, <2>1
    <2> QED BY ONLY <2>4, <2>5, <2>7, <2>8, <2>9, <2>10, <2>11, Zenon DEF Records
  <1>7. Records
    BY <1>1, <1>5, <1>6 DEF FreeStatus
  <1>8. SyncMove
    <2>1. pc' \in SyncPcs \cup {"idle"}
      BY <1>1, PathPcs DEF FreeStatus, Leads, Stopped, SyncNexts
    <2>2. api'.rv # 0
      BY <1>0, <1>1, <1>2, <1>7, StoredCopies DEF Records
    <2> QED BY <1>0, <1>4, <2>1, <2>2 DEF SyncMove
  <1>9. Taken
    <2>1. UNCHANGED <<vrc, vdel, vclean, bound>>
      BY <1>1 DEF WriteFrame, volVars
    <2>2. LiveVRCs' = LiveVRCs
      BY <2>1 DEF LiveVRCs, VRCs
    <2> QED BY <1>8, <2>1, <2>2, SyncTakes
  <1> QED BY <1>7, <1>9

\* A step of the worker without a write of the object
LEMMA LocalRecords ==
    ASSUME Removable, TypeOK', WorkerFrame, NEW next \in Nexts, LocalOutcome(next), pc # "idle",
           next \in DeletePcs => pc \in DeletePcs,
           pc \in DeletePcs \cup {"finished"} =>
               next \in DeletePcs \cup {"finished", "return", "error"}
    PROVE  Records /\ (pc' # "idle" => pc' = next /\ w' = w /\ next \notin {"return", "error"})
  <1>0. /\ TypeOK /\ ResourcesListed /\ FinishedIsCompleted /\ processed \in Nat
    BY RemovableFacts
  <1>1. Kept /\ Stored /\ api' = api /\ processed' = processed
    BY DEF LocalOutcome, Kept, Stored
  <1>2. pc' # "idle" => pc' = next /\ w' = w /\ next \notin {"return", "error"}
    BY PathPcs DEF LocalOutcome, Leads
  <1>3. cache' = cache /\ rpc' = rpc /\ rc' = rc
    BY DEF WorkerFrame, rcVars
  <1>4. pc' \notin DeletePcs \cup {"idle", "finished"} => w'.stage # "Finished"
    BY <1>0, <1>2 DEF FinishedIsCompleted
  <1>5. /\ pc' # "idle" /\ w'.rv = api'.rv => w'.res = api'.res
        /\ api'.res /\ pc' \in DeletePcs => w'.res
    BY <1>0, <1>1, <1>2, PathPcs DEF ResourcesListed
  <1>6. rpc' = "fail" => rc'.stage = "Volumes"
    BY <1>0, <1>3 DEF FinishedIsCompleted
  <1>7. processed <= processed'
    BY <1>0, <1>1
  <1> QED BY <1>1, <1>2, <1>3, <1>4, <1>5, <1>6, <1>7 DEF Records

\* A step of syncRestore without a write of the object
LEMMA SyncRecords ==
    ASSUME Removable, TypeOK', WorkerFrame, pc \in SyncPcs, NEW next \in SyncNexts,
           LocalOutcome(next), pc = "finished" => next = "return",
           UNCHANGED <<vdel, vclean, bound>>, LiveVRCs \subseteq LiveVRCs'
    PROVE  Records /\ Taken
  <1>1. next \in Nexts /\ pc # "idle" /\ next \notin DeletePcs /\ pc \notin DeletePcs
    BY PathPcs DEF SyncNexts, Nexts, DeletePcs
  <1>2. Records /\ (pc' # "idle" => pc' = next /\ w' = w)
    BY <1>1, LocalRecords
  <1>3. SyncMove
    BY <1>1, <1>2, RemovableFacts, PathPcs DEF SyncMove, SyncNexts, LocalOutcome, Leads
  <1> QED BY <1>2, <1>3, SyncTakes

\* What the writers of a status keep of the worker's copy
LEMMA CopiedRes ==
    ASSUME TypeOK, NEW stage \in Stages, NEW state \in States
    PROVE  /\ [w EXCEPT !.stage = stage].res = w.res
           /\ [w EXCEPT !.stage = stage].stage = stage
           /\ [w EXCEPT !.stage = stage].state = w.state
           /\ [w EXCEPT !.stage = stage, !.state = state].res = w.res
           /\ [w EXCEPT !.stage = stage, !.state = state].stage = stage
           /\ [w EXCEPT !.state = state, !.stage = stage].res = w.res
           /\ [w EXCEPT !.state = state, !.stage = stage].stage = stage
           /\ WithState(state).res = w.res /\ WithState(state).stage = w.stage
           /\ WithState(state).state = state
           /\ [w EXCEPT !.res = TRUE].res /\ [w EXCEPT !.res = TRUE].stage = w.stage
  BY DEF TypeOK, Restore, WithState

\* The status writes of syncRestore
LEMMA WritersRecord ==
    ASSUME Removable, faults' = 0,
           \/ InitRestore \/ ValidationFailed \/ Validated \/ PopulateFailed
           \/ PatchRestoreObjects \/ VolumeRestoreFailed \/ VolumeRestoreCompleted
           \/ VolumeRestoreProcessing \/ ToResources \/ ApplyCompleted \/ ToPostHook
           \/ HooksCompleted \/ MetadataCompleted \/ MetadataFailed \/ ToFinished
    PROVE  Records /\ Taken
  <1>0. TypeOK /\ FinishedIsCompleted /\ WorkerStage
    BY RemovableFacts
  <1>1. {"init", "invalid", "validated", "popFailed", "popFailed2", "record", "volFailed",
         "volCompleted", "processing", "toResources", "appliedAll", "toPostHook", "hooksDone",
         "resCompleted", "resFailed", "toFinished"} \subseteq SyncPcs \ {"finished"}
    BY DEF SyncPcs, DeletePcs, Pcs
  <1>2. {"validate", "error", "populate", "popFailed2", "return", "dispatch", "toResources", "apply",
         "toPostHook", "hooks", "resCompleted", "toFinished", "finished"} \subseteq SyncNexts
    BY DEF SyncNexts, SyncPcs, DeletePcs, Pcs
  <1>3. pc \in SyncPcs \ {"finished"} => w.stage # "Finished"
    BY <1>0, PathPcs DEF FinishedIsCompleted
  <1>4. ASSUME NEW b \in Restore, b.rv = w.rv, w.res => b.res, b.stage # "Finished",
               pc \in SyncPcs \ {"finished"}, NEW next \in SyncNexts, NEW onError,
               UpdateRestoreStatus(b, next, onError)
        PROVE  Records /\ Taken
    BY <1>4, StatusRecords
  <1>5. ASSUME NEW state \in States, pc \in SyncPcs \ {"finished"}, NEW next \in SyncNexts,
               NEW onError, UpdateRestoreStatus(WithState(state), next, onError)
        PROVE  Records /\ Taken
    <2>1. WithState(state) \in Restore /\ WithState(state).rv = w.rv
      BY <1>0, <1>5, Copied, Values
    <2>2. WithState(state).res = w.res /\ WithState(state).stage = w.stage
      BY <1>0, <1>5, CopiedRes, Values
    <2> QED BY <1>3, <1>4, <1>5, <2>1, <2>2
  <1>6. CASE InitRestore
    <2> DEFINE stage == IF w.stage = "unset" THEN "Initial" ELSE w.stage
               state == IF w.state = "unset" THEN "New" ELSE w.state
               b == [w EXCEPT !.stage = stage, !.state = state]
    <2>1. stage \in Stages /\ state \in States
      BY <1>0, Values DEF TypeOK, Restore
    <2>2. UpdateRestoreStatus(b, "validate", "return") /\ pc = "init"
      BY <1>6 DEF InitRestore
    <2>3. w.stage # "Finished"
      BY <1>1, <1>3, <2>2
    <2>4. stage # "Finished"
      BY <2>3
    <2> HIDE DEF stage, state
    <2>5. b \in Restore /\ b.rv = w.rv /\ b.res = w.res /\ b.stage = stage
      BY <1>0, <2>1, Copied, CopiedRes
    <2> HIDE DEF b
    <2> QED BY <1>1, <1>2, <1>4, <2>2, <2>4, <2>5
  <1>7. CASE ValidationFailed \/ VolumeRestoreFailed \/ MetadataFailed \/ PopulateFailed
    BY <1>1, <1>2, <1>5, <1>7, Values
    DEF ValidationFailed, VolumeRestoreFailed, MetadataFailed, PopulateFailed
  <1>8. CASE \/ VolumeRestoreCompleted \/ ApplyCompleted \/ HooksCompleted \/ MetadataCompleted
             \/ VolumeRestoreProcessing
    BY <1>1, <1>2, <1>5, <1>8, Values
    DEF VolumeRestoreCompleted, ApplyCompleted, HooksCompleted, MetadataCompleted,
        VolumeRestoreProcessing
  <1>9. CASE Validated
    <2> DEFINE b == [w EXCEPT !.stage = "Volumes", !.state = "New"]
    <2>1. pc = "validated" /\ UpdateRestoreStatus(b, "populate", "return")
      BY <1>9 DEF Validated
    <2>2. b \in Restore /\ b.rv = w.rv /\ b.res = w.res
      BY <1>0, Values DEF TypeOK, Restore
    <2>3. b.stage # "Finished"
      BY <1>0, <1>1, <2>1, CopiedRes, Values
    <2> HIDE DEF b
    <2> QED BY <1>1, <1>2, <1>4, <2>1, <2>2, <2>3
  <1>10. CASE ToResources
    <2> DEFINE b == [w EXCEPT !.stage = "Resources", !.state = "New"]
    <2>1. pc = "toResources" /\ UpdateRestoreStatus(b, "apply", "return")
      BY <1>10 DEF ToResources
    <2>2. b \in Restore /\ b.rv = w.rv /\ b.res = w.res
      BY <1>0, Values DEF TypeOK, Restore
    <2>3. b.stage # "Finished"
      BY <1>0, <1>1, <2>1, CopiedRes, Values
    <2> HIDE DEF b
    <2> QED BY <1>1, <1>2, <1>4, <2>1, <2>2, <2>3
  <1>11. CASE ToPostHook
    <2> DEFINE b == [w EXCEPT !.state = "Processing", !.stage = "PostHook"]
    <2>1. pc = "toPostHook" /\ UpdateRestoreStatus(b, "hooks", "ignore")
      BY <1>11 DEF ToPostHook
    <2>2. b \in Restore /\ b.rv = w.rv /\ b.res = w.res
      BY <1>0, Values DEF TypeOK, Restore
    <2>3. b.stage # "Finished"
      BY <1>0, <1>1, <2>1, CopiedRes, Values
    <2> HIDE DEF b
    <2> QED BY <1>1, <1>2, <1>4, <2>1, <2>2, <2>3
  <1>12. CASE PatchRestoreObjects
    <2> DEFINE b == [w EXCEPT !.res = TRUE]
    <2>1. pc = "record" /\ UpdateRestoreStatus(b, "dispatch", "ignore")
      BY <1>12 DEF PatchRestoreObjects
    <2>2. b \in Restore /\ b.rv = w.rv /\ b.res
      BY <1>0, Values DEF TypeOK, Restore
    <2>3. b.stage # "Finished"
      BY <1>0, <1>1, <1>3, <2>1, CopiedRes, Values
    <2> HIDE DEF b
    <2> QED BY <1>1, <1>2, <1>4, <2>1, <2>2, <2>3
  <1>13. CASE ToFinished
    <2>1. pc = "toFinished" /\ UpdateRestoreStatus([w EXCEPT !.stage = "Finished"], "finished", "return")
      BY <1>13 DEF ToFinished
    <2>2. w.state = "Completed"
      BY <1>0, <2>1 DEF WorkerStage
    <2> DEFINE b == [w EXCEPT !.stage = "Finished"]
    <2>3. b \in Restore /\ b.rv = w.rv /\ b.res = w.res /\ b.state = w.state
      BY <1>0, Copied, CopiedRes, Values
    <2> HIDE DEF b
    <2>4. UpdateRestoreStatus(b, "finished", "return")
      BY <2>1 DEF b
    <2> QED BY <1>1, <1>2, <2>1, <2>2, <2>3, <2>4, StatusRecords
  <1> QED BY <1>6, <1>7, <1>8, <1>9, <1>10, <1>11, <1>12, <1>13

\* A patch that keeps the status
LEMMA PatchRecords ==
    ASSUME Removable, faults' = 0, pc # "idle", NEW b \in Restore,
           b.stage = api.stage, b.state = api.state, b.res = api.res,
           NEW next \in Pcs, next # "idle", PatchRestore(b, next),
           next \notin DeletePcs \cup {"finished"} => api.stage # "Finished"
    PROVE  /\ Records /\ WriteFrame /\ pc' = next /\ w' = api' /\ api'.rv # 0
           /\ api'.res = api.res
  <1>0. /\ TypeOK /\ StatusInv /\ api.rv # 0 /\ faults = 0 /\ ResourcesListed /\ FinishedIsCompleted
        /\ processed \in Nat /\ next \in Nexts
    BY RemovableFacts, PathPcs DEF Nexts
  <1>1. WriteFrame /\ FreePatch(b, next) /\ TypeOK'
    BY <1>0, FreePatchStep, PatchRestoreOutcome
  <1>2. cache' = cache /\ rpc' = rpc /\ rc' = rc
    BY <1>1 DEF WriteFrame, WorkerFrame, rcVars
  <1>3. api'.rv \in Nat /\ processed' \in Nat
    BY <1>1 DEF TypeOK, Restore
  <1>4. pc' = next /\ w' = api'
    BY <1>1, PathPcs DEF FreePatch, Leads
  <1>5. /\ Stored /\ api'.stage = api.stage /\ api'.state = api.state /\ api'.res = api.res
        /\ processed' = (IF processed > api'.rv THEN processed ELSE api'.rv)
    BY <1>1 DEF FreePatch, Is
  <1>6. processed <= processed' /\ api'.rv <= processed'
    BY <1>0, <1>3, <1>5
  <1>7. api'.rv # 0
    BY <1>0, <1>1, <1>2, <1>5, StoredCopies
  <1>8. /\ api'.stage = "Finished" => api'.state = "Completed"
        /\ rpc' = "fail" => rc'.stage = "Volumes"
    BY <1>0, <1>2, <1>5 DEF FinishedIsCompleted
  <1>9. Records
    BY <1>2, <1>4, <1>5, <1>6, <1>8 DEF Records
  <1> QED BY <1>1, <1>4, <1>5, <1>7, <1>9

\* The other steps of syncRestore that write at most an annotation
LEMMA SyncersRecord ==
    ASSUME Removable, faults' = 0, TypeOK',
           \/ ValidateRestore \/ PopulateRestoreResources \/ SyncRestore \/ SyncVolumeRestore
           \/ CheckPVCRestored \/ CheckVolumeRestoreStatus
    PROVE  Records /\ Taken
  <1>0. TypeOK
    BY RemovableFacts
  <1>1. {"validate", "populate", "dispatch", "volumes", "checkPVC", "count"}
            \subseteq SyncPcs \ {"finished"}
    BY DEF SyncPcs, DeletePcs, Pcs
  <1>2. {"validated", "invalid", "record", "popFailed", "volumes", "apply", "toFinished", "finished",
         "return", "error", "toResources", "checkPVC", "annVolume", "count", "prepare",
         "volCompleted", "volFailed"} \subseteq SyncNexts
    BY DEF SyncNexts, SyncPcs, DeletePcs, Pcs
  <1>3. ASSUME pc \in SyncPcs \ {"finished"}, NEW next \in SyncNexts, Local(next) \/ CallFails(next)
        PROVE  Records /\ Taken
    <2>1. next \in Nexts
      BY PathPcs DEF SyncNexts, Nexts
    <2>2. WriteFrame /\ LocalOutcome(next)
      BY <1>0, <1>3, <2>1, LocalStep
    <2>3. WorkerFrame /\ UNCHANGED <<vrc, vdel, vclean, bound>>
      BY <2>2 DEF WriteFrame, volVars
    <2>4. LiveVRCs' = LiveVRCs
      BY <2>3 DEF LiveVRCs, VRCs
    <2> QED BY <1>3, <2>2, <2>3, <2>4, SyncRecords
  <1>4. CASE ValidateRestore \/ PopulateRestoreResources \/ CheckPVCRestored
    BY <1>1, <1>2, <1>3, <1>4 DEF ValidateRestore, PopulateRestoreResources, CheckPVCRestored
  <1>5. CASE SyncRestore
    <2>1. PICK next \in {"volumes", "apply", "toFinished", "finished", "return"} : Local(next)
      BY <1>5 DEF SyncRestore
    <2> QED BY <1>1, <1>2, <1>3, <1>5, <2>1 DEF SyncRestore
  <1>6. CASE SyncVolumeRestore
    <2>1. PICK next \in {"toResources", "checkPVC", "annVolume", "count", "prepare"} : Local(next)
      BY <1>6 DEF SyncVolumeRestore
    <2> QED BY <1>1, <1>2, <1>3, <1>6, <2>1 DEF SyncVolumeRestore
  <1>7. CASE CheckVolumeRestoreStatus
    <2>1. PICK next \in {"annVolume", "return", "error"} : Local(next) \/ CallFails(next)
      BY <1>7 DEF CheckVolumeRestoreStatus
    <2> QED BY <1>1, <1>2, <1>3, <1>7, <2>1 DEF CheckVolumeRestoreStatus
  <1> QED BY <1>4, <1>5, <1>6, <1>7

\* The steps of syncRestore on VRCs and resources
LEMMA WorkersRecord ==
    ASSUME Removable, faults' = 0, TypeOK',
           PrepareVolumeRestore \/ CreateVRC \/ ApplyResources \/ RunPostHooks \/ Finish
    PROVE  Records /\ Taken
  <1>0. TypeOK /\ DeletionInv
    BY RemovableFacts
  <1>1. {"prepare", "createVRC", "apply", "hooks"} \subseteq SyncPcs \ {"finished"} /\ "finished" \in SyncPcs
    BY DEF SyncPcs, DeletePcs, Pcs
  <1>2. {"return", "error", "processing", "createVRC", "appliedAll", "resFailed", "hooksDone"}
            \subseteq SyncNexts
    BY DEF SyncNexts, SyncPcs, DeletePcs, Pcs
  <1>3. SyncNexts \subseteq Nexts /\ ~Fault
    BY PathPcs, RemovableFacts DEF SyncNexts, Nexts, Fault
  <1>12. CASE PrepareVolumeRestore /\ Local("error")
    <2>1. pc = "prepare" /\ "error" \in Nexts
      BY <1>2, <1>3, <1>12 DEF PrepareVolumeRestore
    <2>2. WriteFrame /\ LocalOutcome("error")
      BY <1>0, <1>12, <2>1, LocalStep
    <2>3. WorkerFrame /\ UNCHANGED <<vrc, vdel, vclean, bound>>
      BY <2>2 DEF WriteFrame, volVars
    <2>4. LiveVRCs' = LiveVRCs
      BY <2>3 DEF LiveVRCs, VRCs
    <2> QED BY <1>1, <1>2, <2>1, <2>2, <2>3, <2>4, SyncRecords
  <1>4. CASE PrepareVolumeRestore /\ ~Local("error")
    <2>1. /\ pc = "prepare" /\ Continue(IF backed = {} THEN "processing" ELSE "createVRC", w)
          /\ UNCHANGED <<apiVars, cache, processed, rcVars, vrc, vdel, vclean, bound>>
      BY <1>3, <1>4 DEF PrepareVolumeRestore, CallFails
    <2>2. PICK next \in {"processing", "createVRC"} : Continue(next, w)
      BY <2>1
    <2>3. WorkerFrame /\ LocalOutcome(next)
      BY <1>0, <1>2, <1>3, <2>1, <2>2, ContinueType, Zenon
      DEF WorkerFrame, LocalOutcome, Kept, apiVars, TypeOK
    <2>4. LiveVRCs' = LiveVRCs
      BY <2>1 DEF LiveVRCs, VRCs
    <2> QED BY <1>1, <1>2, <2>1, <2>2, <2>3, <2>4, SyncRecords
  <1>5. CASE CreateVRC
    <2>1. PICK next \in {"processing", "createVRC", "error"} : WorkerFrame /\ LocalOutcome(next)
      BY <1>0, <1>5, CreateVRCStep
    <2>2. PICK p \in backed : /\ vrc' = [vrc EXCEPT ![<<attempt, p>>] = "New"]
                              /\ UNCHANGED <<vdel, vclean, bound>>
      BY <1>3, <1>5 DEF CreateVRC, CallFails
    <2>3. LiveVRCs \subseteq LiveVRCs'
      BY <1>0, <2>2 DEF LiveVRCs, VRCs, TypeOK
    <2>4. pc = "createVRC"
      BY <1>5 DEF CreateVRC
    <2> QED BY <1>1, <1>2, <2>1, <2>2, <2>3, <2>4, SyncRecords
  <1>6. CASE ApplyResources \/ RunPostHooks
    <2>1. PICK next \in {"appliedAll", "resFailed", "hooksDone"} : EnvStep(next)
      BY <1>6 DEF ApplyResources, RunPostHooks
    <2>2. Continue(next, w) /\ UNCHANGED <<apiVars, cache, processed, rcVars, vrc, vdel, vclean, bound>>
      BY <2>1 DEF EnvStep, volVars
    <2>3. WorkerFrame /\ LocalOutcome(next)
      BY <1>0, <1>2, <1>3, <2>2, ContinueType, Zenon
      DEF WorkerFrame, LocalOutcome, Kept, apiVars, TypeOK
    <2>4. LiveVRCs' = LiveVRCs
      BY <2>2 DEF LiveVRCs, VRCs
    <2>5. pc \in {"apply", "hooks"}
      BY <1>6 DEF ApplyResources, RunPostHooks
    <2> QED BY <1>1, <1>2, <2>2, <2>3, <2>4, <2>5, SyncRecords
  <1>7. CASE Finish
    <2>1. pc = "finished"
      BY <1>7 DEF Finish
    <2>2. CASE Local("return")
      <3>1. WriteFrame /\ LocalOutcome("return")
        BY <1>0, <1>2, <1>3, <2>2, LocalStep
      <3>2. WorkerFrame /\ UNCHANGED <<vrc, vdel, vclean, bound>>
        BY <3>1 DEF WriteFrame, volVars
      <3>3. LiveVRCs' = LiveVRCs
        BY <3>2 DEF LiveVRCs, VRCs
      <3> QED BY <1>1, <1>2, <2>1, <3>1, <3>2, <3>3, SyncRecords
    <2>3. CASE UpdateRestoreStatus(WithState("Completed"), "return", "return")
      BY <1>0, <1>1, <1>2, <2>1, <2>3, Copied, CopiedRes, Values, StatusRecords
    <2> QED BY <1>7, <2>2, <2>3 DEF Finish
  <1> QED BY <1>4, <1>12, <1>5, <1>6, <1>7

\* The object of a worker that has not passed the stage Volumes is not Finished.
LEMMA StartNotFinished ==
    ASSUME Removable, \/ pc = "finalizer" /\ ~w.fin
                      \/ pc = "annVolume"
    PROVE  api.stage # "Finished"
  <1>0. TypeOK /\ BoundedLag /\ WorkerStage /\ api.rv # 0 /\ api \in Restore /\ w \in Restore
    BY RemovableFacts DEF StatusInv
  <1>1. CASE pc = "finalizer" /\ ~w.fin
    <2>1. Rank(api) = 0
      BY <1>0, <1>1 DEF BoundedLag
    <2> QED BY <1>0, <2>1, RankType
  <1>2. CASE pc = "annVolume"
    <2>1. Unfinished(w)
      BY <1>0, <1>2 DEF WorkerStage, Unfinished
    <2>2. pc \notin DeletePcs \cup Ahead \cup {"idle"}
      BY <1>2 DEF DeletePcs, Ahead
    <2>3. Rank(api) <= 1
      BY <1>0, <2>1, <2>2 DEF BoundedLag
    <2> QED BY <1>0, <2>3, RankType
  <1> QED BY <1>1, <1>2

\* The patches of syncRestore: finalizer and annotation
LEMMA PatchersRecord ==
    ASSUME Removable, faults' = 0, TypeOK', EnsureFinalizer \/ AnnotateVolumeRestore
    PROVE  Records /\ Taken
  <1>0. TypeOK /\ FinishedIsCompleted /\ api \in Restore /\ (pc # "idle" => w.rv # 0)
    BY RemovableFacts
  <1>1. {"init", "populate", "volCompleted"} \subseteq SyncPcs \ {"finished"} /\ "annVolume" \in SyncPcs
    BY DEF SyncPcs, DeletePcs, Pcs
  <1>2. SyncPcs \subseteq SyncNexts /\ SyncNexts \subseteq Nexts
    BY PathPcs DEF SyncNexts, Nexts
  <1>3. ASSUME NEW next \in SyncPcs \ {"finished"}, SyncMove, WriteFrame, Records
        PROVE  Records /\ Taken
    <2>1. UNCHANGED <<vrc, vdel, vclean, bound>>
      BY <1>3 DEF WriteFrame, volVars
    <2>2. LiveVRCs' = LiveVRCs
      BY <2>1 DEF LiveVRCs, VRCs
    <2> QED BY <1>3, <2>1, <2>2, SyncTakes
  <1>4. ASSUME NEW next \in SyncPcs \ {"finished"}, LocalOutcome(next), WriteFrame,
               pc \in {"finalizer", "annVolume"}
        PROVE  Records /\ Taken
    <2>1. pc \notin DeletePcs \cup {"finished", "idle"} /\ next \notin DeletePcs
      BY <1>4, PathPcs DEF DeletePcs
    <2>2. Records /\ (pc' # "idle" => pc' = next /\ w' = w)
      BY <1>2, <1>4, <2>1, LocalRecords DEF WriteFrame
    <2>3. SyncMove
      BY <1>0, <2>1, <2>2 DEF SyncMove
    <2> QED BY <1>3, <1>4, <2>2, <2>3
  <1>5. ASSUME NEW b \in Restore, b.stage = api.stage, b.state = api.state, b.res = api.res,
               NEW next \in SyncPcs \ {"finished"}, PatchRestore(b, next), pc # "idle",
               api.stage # "Finished"
        PROVE  Records /\ Taken
    <2>1. next \in Pcs /\ next # "idle"
      BY PathPcs
    <2>2. Records /\ WriteFrame /\ pc' = next /\ w' = api' /\ api'.rv # 0
      BY <1>5, <2>1, PatchRecords
    <2>3. SyncMove
      BY <2>2 DEF SyncMove
    <2> QED BY <1>3, <2>2, <2>3
  <1>6. CASE EnsureFinalizer
    <2> DEFINE next == IF w.stage \in {"unset", "Initial"} THEN "init" ELSE "populate"
               b == [api EXCEPT !.fin = TRUE]
    <2>1. pc = "finalizer" /\ (IF w.fin THEN Local(next) ELSE PatchRestore(b, next))
      BY <1>6 DEF EnsureFinalizer
    <2>2. next \in SyncPcs \ {"finished"}
      BY <1>1
    <2>3. b \in Restore /\ b.stage = api.stage /\ b.state = api.state /\ b.res = api.res
      BY <1>0 DEF Restore
    <2> HIDE DEF next, b
    <2>4. CASE w.fin
      <3>1. WriteFrame /\ LocalOutcome(next)
        BY <1>0, <1>2, <2>1, <2>2, <2>4, LocalStep
      <3> QED BY <1>4, <2>1, <2>2, <3>1
    <2>5. CASE ~w.fin
      <3>1. api.stage # "Finished"
        BY <2>1, <2>5, StartNotFinished
      <3> QED BY <1>5, <2>1, <2>2, <2>3, <2>5, <3>1
    <2> QED BY <2>4, <2>5
  <1>7. CASE AnnotateVolumeRestore
    <2> DEFINE b == [api EXCEPT !.ann = @ \cup {"volume-restore-completed"}]
    <2>1. /\ pc = "annVolume"
          /\ Local("volCompleted") \/ PatchRestore(b, "volCompleted")
      BY <1>7 DEF AnnotateVolumeRestore, AnnotateRestore, Local
    <2>2. b \in Restore /\ b.stage = api.stage /\ b.state = api.state /\ b.res = api.res
      BY <1>0 DEF Restore, Annotations
    <2> HIDE DEF b
    <2>3. CASE Local("volCompleted")
      <3>1. WriteFrame /\ LocalOutcome("volCompleted")
        BY <1>0, <1>1, <1>2, <2>3, LocalStep
      <3> QED BY <1>1, <1>4, <2>1, <3>1
    <2>4. CASE PatchRestore(b, "volCompleted")
      <3>1. api.stage # "Finished"
        BY <2>1, StartNotFinished
      <3> QED BY <1>1, <1>5, <2>1, <2>2, <2>4, <3>1
    <2> QED BY <2>1, <2>3, <2>4
  <1> QED BY <1>6, <1>7

\* Taking the key: the copy is one that lists the resources if the server's object does.
LEMMA QueueRecords ==
    ASSUME Removable, faults' = 0, TypeOK', ProcessQueue
    PROVE  Records /\ Taken
  <1>0. /\ TypeOK /\ StatusInv /\ api.rv # 0 /\ ResourcesListed /\ FinishedIsCompleted
        /\ processed \in Nat /\ cache \in Copies
    BY RemovableFacts, CopyCases
  <1>1. /\ pc = "idle" /\ Kept /\ api' = api /\ UNCHANGED <<cache, rcVars, volVars, envVars>>
        /\ \/ pc' = pc /\ w' = w /\ processed' = processed
           \/ /\ cache.rv # 0 /\ processed <= cache.rv /\ processed' = cache.rv
              /\ (pc' = pc /\ w' = w) \/ (w' = cache /\ pc' = IF cache.del THEN "delVRC" ELSE "finalizer")
    BY <1>0, ProcessQueueStep DEF QueueOutcome, ProcessQueue, Kept
  <1>2. pc' = "finalizer" => w'.stage # "Finished"
    <2>1. ASSUME pc' = "finalizer"
          PROVE  w' = cache /\ ~restoreCompleted(cache)
      BY <1>1, <2>1 DEF ProcessQueue, workerVars
    <2> QED BY <1>0, <2>1 DEF FinishedIsCompleted, restoreCompleted
  <1>3. pc' \in {"idle", "finalizer", "delVRC"}
    BY <1>1
  <1>4. pc' # "idle" => /\ w' = cache /\ cache.rv # 0 /\ cache.rv >= processed
    <2>1. cache.rv \in Nat
      BY <1>0 DEF TypeOK, Restore
    <2> QED BY <1>0, <1>1, <2>1
  <1>5. pc' # "idle" /\ w'.rv = api'.rv => w'.res = api'.res
    BY <1>0, <1>1, <1>4 DEF StatusInv, CopiesAgree
  <1>6. api'.res /\ pc' # "idle" => w'.res
    BY <1>0, <1>1, <1>4 DEF ResourcesListed
  <1>7. processed <= processed' /\ (rpc' = "fail" => rc'.stage = "Volumes")
    BY <1>0, <1>1 DEF FinishedIsCompleted, rcVars
  <1>8. Records
    BY <1>1, <1>2, <1>3, <1>5, <1>6, <1>7 DEF Records, Stored, DeletePcs
  <1>9. UNCHANGED <<vrc, vdel, vclean, bound>>
    BY <1>1 DEF volVars
  <1>10. LiveVRCs' = LiveVRCs
    BY <1>9 DEF LiveVRCs, VRCs
  <1> QED BY <1>3, <1>8, <1>9, <1>10, TakenKeeps DEF Taken, Removable, CleanedPcs

\* A deletion of an unfinished restore knows that it is unfinished.
LEMMA DeleterNotFinished ==
    ASSUME Removable, pc \in DeletePcs, api.stage # "Finished"
    PROVE  w.stage # "Finished" /\ ~restoreCompleted(w)
  <1>1. Rank(w) <= Rank(api) /\ api \in Restore /\ w \in Restore
    BY RemovableFacts, AheadPcs, PathPcs DEF WorkerAgrees
  <1>2. Rank(api) \in 0..3
    BY <1>1, RankType
  <1> QED BY <1>1, <1>2, RankType DEF restoreCompleted

\* The steps of deleteRestore before the last: unless the restore is finished they mark
\* every VRC for the cleanup and delete what the status lists.
LEMMA DeletersRecord ==
    ASSUME Removable, faults' = 0, TypeOK',
           RemoveVolumeRestore \/ CleanupRestoredMetadata \/ AnnotateCleaned \/ ListVolumeRestore
    PROVE  Records /\ Taken
  <1>0. TypeOK /\ ResourcesListed /\ api \in Restore /\ faults = 0
    BY RemovableFacts
  <1>1. /\ DeletePcs \subseteq Nexts /\ DeletePcs \subseteq Pcs /\ "return" \in Nexts /\ "error" \in Nexts
        /\ "idle" \notin DeletePcs
    BY DEF Nexts, Pcs, DeletePcs
  <1>2. pc \in DeletePcs /\ pc # "idle" /\ ~Fault
    BY <1>0 DEF RemoveVolumeRestore, CleanupRestoredMetadata, AnnotateCleaned, ListVolumeRestore,
                DeletePcs, Fault
  <1>3. ASSUME NEW next \in DeletePcs \cup {"return", "error"}, LocalOutcome(next), WorkerFrame
        PROVE  Records /\ (pc' # "idle" => pc' = next /\ w' = w /\ next \notin {"return", "error"})
    BY <1>1, <1>2, <1>3, LocalRecords
  <1>4. api.stage # "Finished" => TakenAlong /\ ~restoreCompleted(w)
    BY <1>2, DeleterNotFinished DEF Removable
  <1>5. CASE RemoveVolumeRestore
    <2>1. LocalOutcome("cleanup") \/ LocalOutcome("error")
      BY <1>0, <1>5, RemoveVolumeRestoreStep
    <2>2. Records /\ pc' \in {"cleanup", "idle"}
      BY <1>0, <1>3, <1>5, <2>1, RemoveVolumeRestoreStep DEF DeletePcs
    <2>3. /\ vclean' = (IF restoreCompleted(w) THEN vclean ELSE vclean \cup (LiveVRCs \ vdel))
          /\ vdel' = LiveVRCs /\ vrc' = vrc /\ bound' = bound
      BY <1>2, <1>5 DEF RemoveVolumeRestore
    <2>4. LiveVRCs' = LiveVRCs
      BY <2>3 DEF LiveVRCs, VRCs
    <2>5. ASSUME api.stage # "Finished"
          PROVE  TakenAlong'
      <3>1. vclean' = vclean \cup (LiveVRCs \ vdel) /\ vdel \subseteq vclean
        BY <1>4, <2>3, <2>5 DEF TakenAlong
      <3>2. vdel' \subseteq vclean'
        BY <2>3, <3>1
      <3>3. \A p \in bound' : \E v \in LiveVRCs' : v[2] = p
        BY <1>4, <2>3, <2>4, <2>5 DEF TakenAlong
      <3> QED BY <2>2, <3>2, <3>3 DEF TakenAlong, CleanedPcs
    <2> QED BY <2>2, <2>5 DEF Taken
  <1>6. CASE CleanupRestoredMetadata
    <2>1. /\ WorkerFrame /\ UNCHANGED <<vrc, vdel, vclean, bound>>
          /\ LocalOutcome("delList") \/ LocalOutcome("annCleaned")
      BY <1>0, <1>6, CleanupStep DEF volVars
    <2>2. Records /\ (pc' # "idle" => w' = w)
      BY <1>3, <2>1 DEF DeletePcs
    <2>3. LiveVRCs' = LiveVRCs
      BY <2>1 DEF LiveVRCs, VRCs
    <2>4. ASSUME api.stage # "Finished"
          PROVE  TakenAlong'
      <3>1. w.res => applied' \in Leftovers(applied)
        BY <1>2, <1>4, <1>6, <2>4 DEF CleanupRestoredMetadata
      <3>2. w.res => CleanedUp(applied')
        BY <3>1 DEF Leftovers, CleanedUp
      <3>3. pc' \in CleanedPcs /\ w'.res => CleanedUp(applied')
        BY <2>2, <3>2 DEF CleanedPcs
      <3> QED BY <1>4, <2>1, <2>3, <2>4, <3>3, TakenKeeps
    <2> QED BY <2>2, <2>4 DEF Taken
  <1>7. CASE ListVolumeRestore
    <2>1. PICK next \in {"delFinalizer", "return"} : Local(next)
      BY <1>2, <1>7 DEF ListVolumeRestore, CallFails
    <2>2. next \in DeletePcs \cup {"return", "error"} /\ next \in Nexts
      BY <1>1 DEF DeletePcs
    <2>3. WriteFrame /\ LocalOutcome(next)
      BY <1>0, <2>1, <2>2, LocalStep
    <2>4. WorkerFrame /\ UNCHANGED <<vrc, vdel, vclean, bound>> /\ applied' = applied
      BY <2>3 DEF WriteFrame, volVars, envVars
    <2>5. Records /\ (pc' # "idle" => w' = w)
      BY <1>3, <2>2, <2>3, <2>4
    <2>6. LiveVRCs' = LiveVRCs
      BY <2>4 DEF LiveVRCs, VRCs
    <2>7. ASSUME api.stage # "Finished"
          PROVE  TakenAlong'
      <3>1. pc \in CleanedPcs
        BY <1>7 DEF ListVolumeRestore, CleanedPcs
      <3>2. w.res => CleanedUp(applied)
        BY <1>4, <2>7, <3>1 DEF TakenAlong
      <3>3. pc' \in CleanedPcs /\ w'.res => CleanedUp(applied')
        BY <2>4, <2>5, <3>2 DEF CleanedPcs
      <3> QED BY <1>4, <2>4, <2>6, <2>7, <3>3, TakenKeeps
    <2> QED BY <2>5, <2>7 DEF Taken
  <1>8. CASE AnnotateCleaned
    <2> DEFINE b == [api EXCEPT !.ann = @ \cup {"restore-cleanup-done"}]
    <2>1. b \in Restore /\ b.stage = api.stage /\ b.state = api.state /\ b.res = api.res
      BY <1>0 DEF Restore, Annotations
    <2>2. pc = "annCleaned" /\ PatchRestore(b, "delList")
      BY <1>8 DEF AnnotateCleaned
    <2> HIDE DEF b
    <2>3. "delList" \in Pcs /\ "delList" # "idle" /\ "delList" \in DeletePcs
      BY <1>1 DEF DeletePcs
    <2>4. Records /\ WriteFrame /\ w' = api' /\ api'.res = api.res
      BY <1>2, <2>1, <2>2, <2>3, PatchRecords
    <2>5. UNCHANGED <<vrc, vdel, vclean, bound>> /\ applied' = applied
      BY <2>4 DEF WriteFrame, volVars, envVars
    <2>6. LiveVRCs' = LiveVRCs
      BY <2>5 DEF LiveVRCs, VRCs
    <2>7. ASSUME api.stage # "Finished"
          PROVE  TakenAlong'
      <3>1. w'.res => w.res
        BY <1>0, <1>2, <2>4 DEF ResourcesListed
      <3>2. w.res => CleanedUp(applied)
        BY <1>4, <2>2, <2>7 DEF TakenAlong, CleanedPcs
      <3> QED BY <1>4, <2>5, <2>6, <2>7, <3>1, <3>2, TakenKeeps
    <2> QED BY <2>4, <2>7 DEF Taken
  <1> QED BY <1>5, <1>6, <1>7, <1>8

\* A step of somebody else that leaves the status alone, or fails a restore in the stage
\* Volumes, records nothing new.
LEMMA OthersRecord ==
    ASSUME Removable, TypeOK', Stored, UNCHANGED <<cache, workerVars, processed>>,
           api'.res = api.res,
           Kept \/ (api'.stage = "Finished" => api'.state = "Completed"),
           rpc' = "fail" => rc'.stage = "Volumes"
    PROVE  Records
  <1>0. /\ TypeOK /\ FinishedIsCompleted /\ ResourcesListed /\ processed \in Nat /\ api.rv \in Nat
        /\ api.rv # 0 /\ (pc # "idle" => w.rv <= api.rv)
    BY RemovableFacts
  <1>1. pc' = pc /\ w' = w /\ processed' = processed /\ cache' = cache
    BY DEF workerVars
  <1>2. pc' # "idle" /\ w'.rv = api'.rv => w'.res = api'.res
    <2>1. CASE Kept
      BY <1>0, <1>1, <2>1 DEF Kept, ResourcesListed
    <2>2. CASE api'.rv = api.rv + 1
      <3>1. w.rv \in Nat
        BY <1>0 DEF TypeOK, Restore
      <3> QED BY <1>0, <1>1, <2>2, <3>1
    <2> QED BY <2>1, <2>2 DEF Stored
  <1>3. api'.res /\ pc' \in DeletePcs => w'.res
    BY <1>0, <1>1 DEF ResourcesListed
  <1>4. pc' \notin DeletePcs \cup {"idle", "finished"} => w'.stage # "Finished"
    BY <1>0, <1>1 DEF FinishedIsCompleted
  <1>5. processed <= processed'
    BY <1>0, <1>1
  <1> QED BY <1>1, <1>2, <1>3, <1>4, <1>5 DEF Records

\* The reconciler marks a restore in the stage Volumes as failed, or annotates it.
LEMMA ReconcilerRecords ==
    ASSUME Removable, TypeOK', Reconciler
    PROVE  Records /\ Taken
  <1>0. /\ TypeOK /\ HandlersHold /\ FinishedIsCompleted /\ ResourcesListed /\ api \in Restore
        /\ watch \in Seq(Restore) /\ api.rv # 0 /\ StatusInv /\ rc \in Restore
    BY RemovableFacts DEF DeletionInv, TypeOK
  <1>1. UNCHANGED <<cache, queueVars, processed, workerVars, volVars, envVars>>
    BY <1>0, ReconcilerStep DEF ReconcilerOutcome
  <1>2. Taken
    <2>1. UNCHANGED <<vrc, vdel, vclean, bound>> /\ pc' = pc /\ w' = w /\ applied' = applied
      BY <1>1 DEF volVars, workerVars, envVars
    <2>2. LiveVRCs' = LiveVRCs
      BY <2>1 DEF LiveVRCs, VRCs
    <2>3. TakenAlong => TakenAlong'
      BY <2>1, <2>2, TakenKeeps DEF TakenAlong
    <2> QED BY <2>3 DEF Taken, Removable
  <1>3. ASSUME NEW b \in Restore, Commit(b), b.stage = "Finished" => b.state = "Completed",
               b.res = api.res, rpc' = "idle"
        PROVE  Records
    <2>1. Stored /\ Is(b) /\ api'.res = b.res
      BY <1>0, <1>3, CommitStores, CommitRes
    <2>2. api'.stage = "Finished" => api'.state = "Completed"
      BY <1>3, <2>1 DEF Is
    <2> QED BY <1>1, <1>3, <2>1, <2>2, OthersRecord
  <1>4. ASSUME UNCHANGED apiVars, rpc' = "fail" => rc'.stage = "Volumes"
        PROVE  Records
    <2>1. Kept /\ Stored /\ api' = api
      BY <1>4 DEF Kept, Stored, apiVars
    <2> QED BY <1>1, <1>4, <2>1, OthersRecord
  <1>5. CASE RcStart \/ RcCheckDeleted
    <2>1. UNCHANGED apiVars /\ rpc' # "fail"
      BY <1>5 DEF RcStart, RcCheckDeleted, RcGoto
    <2> QED BY <1>2, <1>4, <2>1
  <1>6. CASE RcList
    <2>1. UNCHANGED apiVars
      BY <1>6 DEF RcList
    <2>2. ASSUME rpc' = "fail"
          PROVE  rc' = rc /\ isReconcileRequired(rc)
      <3>1. PICK verdicts : /\ verdicts = (IF isReconcileRequired(rc) /\ LiveVRCs # {}
                                           THEN RcVerdicts ELSE {"idle"})
                            /\ \E v \in verdicts : RcGoto(v, IF v = "fail" THEN rc ELSE NoRestore)
        BY <1>6, <2>2 DEF RcList, RcGoto
      <3> QED BY <2>2, <3>1 DEF RcGoto
    <2> QED BY <1>2, <1>4, <2>1, <2>2 DEF isReconcileRequired
  <1>7. CASE RcUpdateFailure
    <2>1. rpc = "fail" /\ rpc' = "idle"
      BY <1>7 DEF RcUpdateFailure, RcGoto
    <2>2. CASE rc.rv = api.rv /\ Commit([StatusOf(rc) EXCEPT !.state = "Failed"])
      <3> DEFINE b == [StatusOf(rc) EXCEPT !.state = "Failed"]
      <3>1. rc = api /\ rc.stage = "Volumes"
        BY <1>0, <2>1, <2>2 DEF StatusInv, CopiesAgree, FinishedIsCompleted
      <3>2. b \in Restore /\ b.stage = "Volumes" /\ b.res = api.res
        BY <1>0, <3>1, Values DEF StatusOf, Restore
      <3>3. Commit(b)
        BY <2>2
      <3> HIDE DEF b
      <3> QED BY <1>2, <1>3, <2>1, <3>2, <3>3
    <2>3. CASE UNCHANGED apiVars
      BY <1>2, <1>4, <2>1, <2>3
    <2> QED BY <1>7, <2>2, <2>3 DEF RcUpdateFailure
  <1>8. ASSUME NEW at, NEW a \in Annotations, RcAnnotate(at, a)
        PROVE  Records /\ Taken
    <2> DEFINE b == [api EXCEPT !.ann = @ \cup {a}]
    <2>1. rpc' = "idle" /\ (Commit(b) \/ UNCHANGED apiVars)
      BY <1>8 DEF RcAnnotate, RcGoto
    <2>2. b \in Restore /\ b.stage = api.stage /\ b.state = api.state /\ b.res = api.res
      BY <1>0 DEF Restore
    <2> HIDE DEF b
    <2>3. b.stage = "Finished" => b.state = "Completed"
      BY <1>0, <2>2 DEF FinishedIsCompleted
    <2> QED BY <1>2, <1>3, <1>4, <2>1, <2>2, <2>3
  <1> QED BY <1>5, <1>6, <1>7, <1>8 DEF Reconciler, Annotations

\* What the volume restore service does: a bound claim has a VRC, and the claim of a VRC
\* that was marked for the cleanup goes with it.
LEMMA ServicesTake ==
    ASSUME Removable, TypeOK', ServiceFinishes \/ ServiceRemoves
    PROVE  Records /\ Taken
  <1>0. TypeOK /\ FinishedIsCompleted
    BY RemovableFacts
  <1>1. /\ UNCHANGED <<apiVars, cache, queueVars, processed, workerVars, rcVars, envVars>>
        /\ vclean' = vclean
    BY DEF ServiceFinishes, ServiceRemoves, EnvUnchanged
  <1>2. Records
    <2>1. Kept /\ Stored /\ api' = api /\ rpc' = rpc /\ rc' = rc
      BY <1>1 DEF Kept, Stored, apiVars, rcVars
    <2> QED BY <1>0, <1>1, <2>1, OthersRecord DEF FinishedIsCompleted
  <1>3. pc' = pc /\ w' = w /\ applied' = applied
    BY <1>1 DEF workerVars, envVars
  <1>4. ASSUME TakenAlong, ServiceFinishes
        PROVE  TakenAlong'
    <2>1. PICK v \in VRCs, phase \in {"Completed", "Failed"} :
             /\ vrc[v] = "New" /\ vrc' = [vrc EXCEPT ![v] = phase]
             /\ bound' = (IF phase = "Completed" THEN bound \cup {v[2]} ELSE bound)
             /\ vdel' = vdel
      BY <1>4 DEF ServiceFinishes
    <2>2. v \in LiveVRCs /\ LiveVRCs' = LiveVRCs
      BY <1>0, <2>1 DEF LiveVRCs, VRCs, TypeOK
    <2>3. ASSUME NEW p \in bound'
          PROVE  \E u \in LiveVRCs' : u[2] = p
      <3>1. p \in bound \/ p = v[2]
        BY <2>1
      <3> QED BY <1>4, <2>2, <3>1 DEF TakenAlong
    <2> QED BY <1>1, <1>3, <1>4, <2>1, <2>3 DEF TakenAlong
  <1>5. ASSUME TakenAlong, ServiceRemoves
        PROVE  TakenAlong'
    <2>1. PICK v \in vdel :
             /\ vrc' = [vrc EXCEPT ![v] = "absent"] /\ vdel' = vdel \ {v}
             /\ bound' = (IF v \in vclean THEN bound \ {v[2]} ELSE bound)
      BY <1>5 DEF ServiceRemoves
    <2>2. bound' = bound \ {v[2]} /\ vdel' \subseteq vclean
      BY <1>5, <2>1 DEF TakenAlong
    <2>3. \A u \in LiveVRCs : u # v => u \in LiveVRCs'
      BY <1>0, <2>1 DEF LiveVRCs, VRCs, TypeOK
    <2>4. ASSUME NEW p \in bound'
          PROVE  \E u \in LiveVRCs' : u[2] = p
      <3>1. PICK u \in LiveVRCs : u[2] = p
        BY <1>5, <2>2 DEF TakenAlong
      <3>2. u # v
        BY <2>2, <3>1
      <3> QED BY <2>3, <3>1, <3>2
    <2> QED BY <1>1, <1>3, <1>5, <2>2, <2>4 DEF TakenAlong
  <1> QED BY <1>2, <1>4, <1>5 DEF Taken, Removable

\* A write of the object by somebody else that keeps its status
LEMMA MetadataRecords ==
    ASSUME Removable, TypeOK', Stored, EnvUnchanged, UNCHANGED volVars,
           api'.stage = api.stage, api'.state = api.state, api'.res = api.res
    PROVE  Records /\ Taken
  <1>0. FinishedIsCompleted
    BY RemovableFacts
  <1>1. UNCHANGED <<cache, workerVars, processed>> /\ rpc' = rpc /\ rc' = rc
    BY DEF EnvUnchanged, rcVars
  <1>2. api'.stage = "Finished" => api'.state = "Completed"
    BY <1>0 DEF FinishedIsCompleted
  <1>3. Records
    BY <1>0, <1>1, <1>2, OthersRecord DEF FinishedIsCompleted
  <1>4. UNCHANGED <<vrc, vdel, vclean, bound>> /\ pc' = pc /\ w' = w /\ applied' = applied
    BY DEF EnvUnchanged, volVars, workerVars, envVars
  <1>5. LiveVRCs' = LiveVRCs
    BY <1>4 DEF LiveVRCs, VRCs
  <1>6. TakenAlong => TakenAlong'
    BY <1>4, <1>5, TakenKeeps DEF TakenAlong
  <1> QED BY <1>3, <1>6 DEF Taken, Removable

\* The user marks an object that has the finalizer, others touch its metadata.
LEMMA UsersRecord ==
    ASSUME Removable, TypeOK', (UserDelete /\ api.fin) \/ UserTouch
    PROVE  Records /\ Taken
  <1>0. TypeOK /\ api \in Restore /\ watch \in Seq(Restore) /\ api.rv # 0 /\ api.rv \in Nat
    BY RemovableFacts DEF TypeOK
  <1>1. CASE UserDelete /\ api.fin
    <2> DEFINE b == [api EXCEPT !.del = TRUE]
    <2>1. b \in Restore /\ b.stage = api.stage /\ b.state = api.state /\ b.res = api.res
      BY <1>0 DEF Restore
    <2>2. Commit(b) /\ EnvUnchanged /\ UNCHANGED volVars
      BY <1>1 DEF UserDelete
    <2> HIDE DEF b
    <2>3. Stored /\ Is(b) /\ api'.res = b.res
      BY <1>0, <2>1, <2>2, CommitStores, CommitRes
    <2> QED BY <2>1, <2>2, <2>3, MetadataRecords DEF Is
  <1>2. CASE UserTouch
    <2> DEFINE b == [api EXCEPT !.rv = @ + 1]
    <2>1. api.rv + 1 \in Nat
      BY <1>0
    <2>2. /\ b.stage = api.stage /\ b.state = api.state /\ b.res = api.res /\ b.rv = api.rv + 1
      BY <1>0, <2>1 DEF Restore
    <2>3. api' = b /\ watch' = Append(watch, b) /\ EnvUnchanged /\ UNCHANGED volVars
      BY <1>2 DEF UserTouch
    <2> HIDE DEF b
    <2>4. Stored
      BY <1>0, <2>2, <2>3 DEF Stored
    <2> QED BY <2>2, <2>3, <2>4, MetadataRecords
  <1> QED BY <1>1, <1>2

\* A removed Restore stays removed: nobody works on it but deleteRestore.
LEMMA GoneStays ==
    ASSUME DeletionInv, api.rv = 0, [Next]_vars
    PROVE  api' = api
  <1>0. HandlersHold /\ pc \notin SyncPcs
    BY DEF DeletionInv, FinalizerHeld
  <1>1. CASE Worker
    <2>1. \A at \in Pcs : pc = at => at \in DeletePcs \cup {"idle", "finalizer"}
      BY <1>0 DEF SyncPcs
    <2>2. pc \in DeletePcs \cup {"idle", "finalizer"}
      BY <2>1 DEF DeletionInv, TypeOK
    <2>3. \/ ProcessQueue \/ EnsureFinalizer \/ RemoveVolumeRestore \/ CleanupRestoredMetadata
          \/ AnnotateCleaned \/ ListVolumeRestore \/ RemoveFinalizer
      <3>1. ~(\/ InitRestore \/ ValidationFailed \/ Validated \/ PopulateFailed
                 \/ PatchRestoreObjects \/ VolumeRestoreFailed \/ VolumeRestoreCompleted
                 \/ VolumeRestoreProcessing \/ ToResources)
        BY <2>2 DEF DeletePcs, InitRestore, ValidationFailed, Validated, PopulateFailed,
             PatchRestoreObjects, VolumeRestoreFailed, VolumeRestoreCompleted,
             VolumeRestoreProcessing, ToResources
      <3>2. ~(\/ ApplyCompleted \/ ToPostHook \/ HooksCompleted \/ MetadataCompleted
              \/ MetadataFailed \/ ToFinished \/ ApplyResources \/ RunPostHooks \/ Finish)
        BY <2>2 DEF DeletePcs, ApplyCompleted, ToPostHook, HooksCompleted, MetadataCompleted,
             MetadataFailed, ToFinished, ApplyResources, RunPostHooks, Finish
      <3>3. ~(\/ ValidateRestore \/ PopulateRestoreResources \/ SyncRestore \/ SyncVolumeRestore
              \/ CheckPVCRestored \/ CheckVolumeRestoreStatus \/ AnnotateVolumeRestore
              \/ PrepareVolumeRestore \/ CreateVRC)
        BY <2>2 DEF DeletePcs, ValidateRestore, PopulateRestoreResources, SyncRestore,
             SyncVolumeRestore, CheckPVCRestored, CheckVolumeRestoreStatus, AnnotateVolumeRestore,
             PrepareVolumeRestore, CreateVRC
      <3> QED BY <1>1, <3>1, <3>2, <3>3 DEF Worker
    <2>4. CASE ProcessQueue \/ RemoveVolumeRestore \/ CleanupRestoredMetadata \/ ListVolumeRestore
      BY <2>4 DEF ProcessQueue, RemoveVolumeRestore, CleanupRestoredMetadata, ListVolumeRestore,
                  Local, CallFails, EnvStep, apiVars
    <2>5. CASE EnsureFinalizer \/ AnnotateCleaned \/ RemoveFinalizer
      BY <2>5 DEF EnsureFinalizer, AnnotateCleaned, RemoveFinalizer, PatchRestore, Local, apiVars
    <2> QED BY <2>3, <2>4, <2>5
  <1>2. CASE Reconciler
    <2>1. ~(rpc = "fail" /\ rc.rv = 0)
      BY <1>0 DEF HandlersHold
    <2> QED BY <1>2, <2>1 DEF Reconciler, RcStart, RcCheckDeleted, RcList, RcUpdateFailure,
              RcAnnotate, apiVars
  <1>3. CASE \/ Informer \/ UserDelete \/ UserTouch \/ ServiceFinishes \/ ServiceRemoves \/ Crash
             \/ UNCHANGED vars
    BY <1>3 DEF Informer, UserDelete, UserTouch, ServiceFinishes, ServiceRemoves, Crash, apiVars, vars
  <1> QED BY <1>1, <1>2, <1>3 DEF Next, PrepareVolumePanics

\* Every step but a delivery, a crash and a removal has this shape.
LEMMA NextRecords ==
    ASSUME Removable, TypeOK', faults' = 0, [Next]_vars
    PROVE  \/ Records /\ Taken
           \/ Informer \/ Crash \/ RemoveFinalizer \/ (UserDelete /\ ~api.fin)
  <1>1. CASE Worker
    BY <1>1, WritersRecord, SyncersRecord, WorkersRecord, PatchersRecord, QueueRecords,
       DeletersRecord, Zenon
    DEF Worker
  <1>2. CASE Reconciler
    BY <1>2, ReconcilerRecords
  <1>3. CASE UserDelete \/ UserTouch
    BY <1>3, UsersRecord
  <1>4. CASE ServiceFinishes \/ ServiceRemoves
    BY <1>4, ServicesTake
  <1>5. CASE UNCHANGED vars
    <2>1. Stored /\ api' = api
      BY <1>5 DEF vars, Stored, Kept
    <2>2. EnvUnchanged /\ UNCHANGED volVars
      BY <1>5 DEF vars, EnvUnchanged, queueVars, workerVars, rcVars, envVars, volVars
    <2> QED BY <2>1, <2>2, MetadataRecords
  <1> QED BY <1>1, <1>2, <1>3, <1>4, <1>5 DEF Next, PrepareVolumePanics

\* A delivery and a crash bring no new copy.
LEMMA DeliveryRecords ==
    ASSUME Removable, Informer \/ Crash
    PROVE  /\ FinishedIsCompleted' /\ ResourcesListed'
           /\ api.stage # "Finished" => TakenAlong'
  <1>0. TypeOK /\ FinishedIsCompleted /\ ResourcesListed
    BY RemovableFacts
  <1>1. UNCHANGED <<vrc, vdel, vclean, bound>> /\ applied' = applied /\ api' = api
    BY DEF Informer, Crash, volVars, envVars
  <1>2. LiveVRCs' = LiveVRCs
    BY <1>1 DEF LiveVRCs, VRCs
  <1>3. CASE Informer
    <2>1. pc' = pc /\ w' = w /\ rpc' = rpc /\ rc' = rc /\ processed' = processed
      BY <1>3 DEF Informer, workerVars, rcVars
    <2>2. Copies' \subseteq Copies
      BY <1>0, <1>3, Delivered
    <2>3. FinishedIsCompleted' /\ ResourcesListed'
      BY <1>0, <1>1, <2>1, <2>2 DEF FinishedIsCompleted, ResourcesListed
    <2>4. TakenAlong => TakenAlong'
      BY <1>1, <1>2, <2>1, TakenKeeps DEF TakenAlong
    <2> QED BY <2>3, <2>4 DEF Removable
  <1>4. CASE Crash
    <2>1. pc' = "idle" /\ rpc' = "idle" /\ cache' = api /\ watch' = <<>>
      BY <1>4 DEF Crash
    <2>2. Copies' = {api}
      BY <2>1 DEF Copies
    <2>3. FinishedIsCompleted'
      BY <1>0, <1>1, <2>1, <2>2 DEF FinishedIsCompleted
    <2>4. ResourcesListed'
      BY <1>1, <2>1, <2>2, PathPcs DEF ResourcesListed
    <2>5. TakenAlong => TakenAlong'
      BY <1>1, <1>2, <2>1, TakenKeeps DEF CleanedPcs
    <2> QED BY <2>3, <2>4, <2>5 DEF Removable
  <1> QED BY <1>3, <1>4

\* The removal, when its time has come, leaves no volume and no listed resource.
LEMMA RemovalIsClean ==
    ASSUME Removable, api.stage # "Finished", RemoveFinalizer
    PROVE  (api.res => CleanedUp(applied)) /\ bound = {}
  <1>1. pc = "delFinalizer" /\ TakenAlong /\ ResourcesListed /\ NothingLeft
    BY RemovableFacts DEF RemoveFinalizer, Removable, DeletionInv
  <1>2. LiveVRCs = {} /\ (api.res => w.res) /\ (w.res => CleanedUp(applied))
    BY <1>1 DEF NothingLeft, ResourcesListed, TakenAlong, DeletePcs, CleanedPcs
  <1> QED BY <1>1, <1>2 DEF TakenAlong

\* A step keeps the invariant, and an unfinished restore does not go before its time.
LEMMA RemovalStep ==
    ASSUME StatusInv, StatusInv', ServerKnown, RemovalInv, [Next]_vars
    PROVE  /\ RemovalInv'
           /\ api.del /\ ~restoreCompleted(api) /\ api'.rv = 0 /\ faults' = 0
                  => (api.res => CleanedUp(applied)) /\ bound = {}
  <1>0. TypeOK /\ TypeOK' /\ RemovedIsEmpty
    BY DEF StatusInv, DeletionInv
  <1>1. CASE faults' # 0
    BY <1>1 DEF RemovalInv
  <1>2. CASE faults' = 0 /\ api.rv = 0
    <2>1. api'.rv = 0
      BY <1>2, GoneStays DEF StatusInv
    <2> QED BY <1>0, <1>2, <2>1, NoRestoreType DEF RemovalInv, RemovedIsEmpty
  <1>3. CASE faults' = 0 /\ api.rv # 0
    <2>1. Removable
      BY <1>0, <1>3, FaultsStay DEF RemovalInv, Removable
    <2>2. api'.rv # 0 /\ api'.stage # "Finished" => api.stage # "Finished"
      <3>1. api'.rv # 0 => Rank(api') >= Rank(api)
        BY <1>0, <1>3, StageStays
      <3> QED BY <1>0, <3>1, RankType DEF TypeOK
    <2>3. ~restoreCompleted(api) => api.stage # "Finished"
      BY <2>1, RemovableFacts DEF FinishedIsCompleted, restoreCompleted
    <2>4. CASE Records /\ Taken
      <3>1. api'.rv # 0
        BY <1>0, <1>3, <2>4, StoredCopies DEF Records
      <3>2. FinishedIsCompleted' /\ ResourcesListed'
        BY <1>0, <1>3, <2>1, <2>4, RecordsKeep, RemovableFacts
      <3> QED BY <2>2, <2>4, <3>1, <3>2 DEF RemovalInv, Taken
    <2>5. CASE Informer \/ Crash
      <3>1. api' = api
        BY <2>5 DEF Informer, Crash
      <3> QED BY <1>3, <2>1, <2>5, <3>1, DeliveryRecords DEF RemovalInv
    <2>6. CASE RemoveFinalizer
      <3>1. api'.rv = 0
        <4>1. Remove
          BY <1>3, <2>1, <2>6, RemovableFacts DEF RemoveFinalizer, Fault
        <4> QED BY <4>1, NoRestoreType DEF Remove
      <3> QED BY <2>1, <2>3, <2>6, <3>1, RemovalIsClean DEF RemovalInv
    <2>7. CASE UserDelete /\ ~api.fin
      <3>1. ~api.del /\ api'.rv = 0
        BY <2>7, NoRestoreType DEF UserDelete, Remove
      <3> QED BY <3>1 DEF RemovalInv
    <2> QED BY <1>0, <1>3, <2>1, <2>4, <2>5, <2>6, <2>7, NextRecords
  <1> QED BY <1>1, <1>2, <1>3

\* The first Restore lists nothing and has restored nothing.
LEMMA InitRemoval == Init => RemovalInv
  <1> SUFFICES ASSUME Init PROVE RemovalInv
    OBVIOUS
  <1>1. /\ api.stage = "unset" /\ ~api.res /\ pc = "idle" /\ rpc = "idle" /\ vdel = {} /\ bound = {}
    BY DEF Init, NoRestore
  <1>2. watch = <<api>> /\ cache = NoRestore
    BY DEF Init
  <1>3. Copies = {NoRestore, api}
    <2>1. DOMAIN watch = {1} /\ watch[1] = api
      BY <1>2
    <2> QED BY <1>2, <2>1 DEF Copies
  <1>4. FinishedIsCompleted
    BY <1>1, <1>3, NoRestoreType DEF FinishedIsCompleted
  <1>5. ResourcesListed /\ TakenAlong
    BY <1>1 DEF ResourcesListed, TakenAlong, CleanedPcs
  <1> QED BY <1>4, <1>5 DEF RemovalInv

\* What the removal of an unfinished restore rests on holds in every state before a call
\* fails: whoever deletes knows of the resources the status lists, behind the cleanup only
\* those are left that it passes over (isCleanupNeeded, metadatarestore.go:433-459), every
\* bound claim has a VRC that takes it along, and Finished is Completed
\* (restorecontroller.go:245-330).
THEOREM RemovalInOrder == Spec => []RemovalInv
  <1>1. Init => RemovalInv /\ ServerKnown
    BY InitRemoval DEF Init, ServerKnown
  <1>2. StatusInv /\ StatusInv' /\ ServerKnown /\ RemovalInv /\ [Next]_vars => ServerKnown' /\ RemovalInv'
    BY ServerKnownStays, RemovalStep DEF StatusInv, DeletionInv
  <1> QED BY <1>1, <1>2, StatusInOrder, PTL DEF Spec

\* When an unfinished restore goes it has taken its restored volumes along and every
\* resource but CRDs, default service accounts, PVs and PVCs, which the cleanup passes over,
\* if no call failed and its status came to list them, however worker, reconciler, volume
\* restore service, user and crashes interleave (removeVolumeRestore, cleanupRestoredMetadata).
THEOREM UnfinishedGoesClean == Spec => UnfinishedLeavesNothing
  <1>1. Init => ServerKnown
    BY DEF Init, ServerKnown
  <1>2. StatusInv /\ StatusInv' /\ ServerKnown /\ [Next]_vars => ServerKnown'
    BY ServerKnownStays DEF StatusInv, DeletionInv
  <1>3. StatusInv /\ StatusInv' /\ ServerKnown /\ RemovalInv /\ [Next]_vars
            => [api.del /\ ~restoreCompleted(api) /\ api'.rv = 0 /\ faults' = 0
                   => (api.res => CleanedUp(applied)) /\ bound = {}]_vars
    BY RemovalStep
  <1> QED BY <1>1, <1>2, <1>3, StatusInOrder, RemovalInOrder, PTL DEF Spec, UnfinishedLeavesNothing

=============================================================================
