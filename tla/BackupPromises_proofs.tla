------------------------ MODULE BackupPromises_proofs ------------------------
(***************************************************************************)
(* Further proofs about BackupController, on top of its inductive          *)
(* invariant IInv: a Backup goes only after its last VolumeBackupContent,  *)
(* snapshots wait for the pre hooks, the post hooks for a volume backup, a *)
(* Finished Backup has its archive and has it deleted when it goes, and a  *)
(* failed one stays failed.                                                *)
(***************************************************************************)
EXTENDS BackupController_proofs

-----------------------------------------------------------------------------
(* What the calls of the worker do *)

\* The fields of a Backup
LEMMA BackupFields ==
    ASSUME NEW b \in Backup
    PROVE  /\ b.rv \in Nat /\ b.stage \in Stages /\ b.state \in States
           /\ b.fin \in BOOLEAN /\ b.del \in BOOLEAN /\ b.ann \in SUBSET Annotations
           /\ Rank(b) \in Nat
BY RankIsInt DEF Backup

\* The empty object has no marks and no stage.
LEMMA EmptyBackup ==
    /\ NoBackup \in Backup /\ NoBackup.rv = 0 /\ ~NoBackup.fin /\ ~NoBackup.del
    /\ NoBackup.stage = "unset" /\ NoBackup.state = "unset" /\ NoBackup.ann = {}
    /\ Rank(NoBackup) = 0
<1>1. /\ NoBackup \in Backup /\ NoBackup.rv = 0 /\ ~NoBackup.fin /\ ~NoBackup.del
      /\ NoBackup.stage = "unset" /\ NoBackup.state = "unset" /\ NoBackup.ann = {}
  BY NoBackupType DEF NoBackup
<1>2. toOrdinal(NoBackup.stage) = -1 BY <1>1, OrdinalOf
<1> QED BY <1>1, <1>2, RankType

\* Stages and states, one by one
LEMMA Names ==
    /\ \A s \in {"unset", "Initial", "PreHook", "Volumes", "PostHook", "Resources", "Finished"} :
          s \in Stages
    /\ \A s \in {"unset", "New", "Processing", "Completed", "Failed"} : s \in States
BY DEF Stages, States

\* The rank by stage, and the stage by rank
LEMMA RankOf ==
    ASSUME NEW b \in Backup
    PROVE  /\ b.stage \in {"unset", "Initial"} <=> Rank(b) = 0
           /\ b.stage = "PreHook" <=> Rank(b) = 1
           /\ b.stage = "Volumes" <=> Rank(b) = 2
           /\ b.stage = "PostHook" <=> Rank(b) = 3
           /\ b.stage = "Resources" <=> Rank(b) = 4
           /\ b.stage = "Finished" <=> Rank(b) = 5
<1>1. b.stage \in Stages BY DEF Backup
<1>2. /\ b.stage \in {"unset", "Initial"} => Rank(b) = 0
      /\ b.stage = "PreHook" => Rank(b) = 1
      /\ b.stage = "Volumes" => Rank(b) = 2
      /\ b.stage = "PostHook" => Rank(b) = 3
      /\ b.stage = "Resources" => Rank(b) = 4
      /\ b.stage = "Finished" => Rank(b) = 5
  BY RankType, OrdinalOf
<1> QED BY <1>1, <1>2 DEF Stages

\* What a write leaves in the server: the old object, or a new revision of an object that
\* is still there.
Kept == api' = api /\ watch' = watch
Written == Kept \/ (api.rv # 0 /\ api'.rv = api.rv + 1 /\ watch' = Append(watch, api'))
Is(b) ==
    /\ api'.stage = b.stage /\ api'.state = b.state
    /\ api'.fin = b.fin /\ api'.del = b.del /\ api'.ann = b.ann

\* The fields of the next revision of an object
LEMMA Revised ==
    ASSUME NEW b \in Backup, NEW r \in Nat
    PROVE  /\ [b EXCEPT !.rv = r] \in Backup /\ [b EXCEPT !.rv = r].rv = r
           /\ [b EXCEPT !.rv = r].stage = b.stage /\ [b EXCEPT !.rv = r].state = b.state
           /\ [b EXCEPT !.rv = r].fin = b.fin /\ [b EXCEPT !.rv = r].del = b.del
           /\ [b EXCEPT !.rv = r].ann = b.ann
BY DEF Backup

\* A commit stores the fields of the object given.
LEMMA CommitIs ==
    ASSUME TypeOK, api.rv # 0, NEW b \in Backup, Commit(b)
    PROVE  Written /\ Is(b)
<1> DEFINE old == [b EXCEPT !.rv = api.rv]
           new == [b EXCEPT !.rv = api.rv + 1]
<1>0. api.rv \in Nat /\ api.rv + 1 \in Nat BY BackupFields DEF TypeOK
<1>1. /\ old.stage = b.stage /\ old.state = b.state /\ old.fin = b.fin /\ old.del = b.del
      /\ old.ann = b.ann
  BY <1>0, Revised
<1>2. /\ new.rv = api.rv + 1 /\ new.stage = b.stage /\ new.state = b.state /\ new.fin = b.fin
      /\ new.del = b.del /\ new.ann = b.ann
  BY <1>0, Revised
<1>3. \/ old = api /\ UNCHANGED apiVars
      \/ api' = new /\ watch' = Append(watch, new)
  BY DEF Commit
<1> HIDE DEF old, new
<1>4. CASE old = api /\ UNCHANGED apiVars BY <1>1, <1>4 DEF Written, Kept, Is, apiVars
<1>5. CASE api' = new /\ watch' = Append(watch, new) BY <1>2, <1>5 DEF Written, Is
<1> QED BY <1>3, <1>4, <1>5

\* A status write takes the metadata from the server.
LEMMA StatusOfFields ==
    ASSUME api \in Backup, NEW b \in Backup
    PROVE  /\ StatusOf(b) \in Backup
           /\ StatusOf(b).stage = b.stage /\ StatusOf(b).state = b.state
           /\ StatusOf(b).fin = api.fin /\ StatusOf(b).del = api.del /\ StatusOf(b).ann = api.ann
BY DEF StatusOf, Backup

\* The status of b was stored over the revision b was made from; or a patch was stored.
Wrote(b) ==
    /\ Written /\ api.rv # 0 /\ b.rv = api.rv
    /\ api'.stage = b.stage /\ api'.state = b.state
    /\ api'.fin = api.fin /\ api'.del = api.del /\ api'.ann = api.ann
Patched(b) == Written /\ api.rv # 0 /\ w.rv # 0 /\ Is(b)

\* Where a call leads: to the next one with the copy given, or back to the queue.
Stopped == pc' = "idle" /\ w' = NoBackup
Leads(next, b) ==
    \/ next = "return" /\ Stopped
    \/ next # "return" /\ pc' = next /\ w' = b

StoredRevision == processed' = IF processed > api'.rv THEN processed ELSE api'.rv

\* The outcomes of a status write, a patch, an annotation and a step without a write
StatusOutcome(b, next) ==
    \/ Wrote(b) /\ StoredRevision /\ Leads(next, api')
    \/ (Kept \/ Wrote(b)) /\ processed' = processed /\ (Stopped \/ Leads(next, NoBackup))
    \/ /\ Kept /\ processed' = processed /\ b = w /\ next # "volumeGroup"
       /\ Leads(next, w)
PatchOutcome(b, next) ==
    \/ Patched(b) /\ StoredRevision /\ Leads(next, api')
    \/ (Kept \/ Patched(b)) /\ processed' = processed /\ Stopped
AnnotateOutcome(b, next) ==
    /\ processed' = processed
    /\ \/ Kept /\ Leads(next, w)
       \/ Patched(b) /\ Leads(next, api')
       \/ (Kept \/ Patched(b)) /\ Leads(next, NoBackup)
LocalOutcome(next, b) == Kept /\ processed' = processed /\ Leads(next, b)

\* What every step of the worker leaves alone, and what most of them do
WorkerFrame == UNCHANGED <<cache, rpc, rc, wanted>>
VolumesKept == UNCHANGED <<vbc, vdel, attempt>>
HostsKept == UNCHANGED <<apps, archive>>

\* Leaving a call
LEMMA Leaving ==
    /\ \A next, b : Continue(next, b) => Leads(next, b)
    /\ \A next, b : next # "return" /\ Goto(next, b) => Leads(next, b)
    /\ ReturnErr => Stopped
    /\ Return => Stopped
BY Zenon DEF Continue, Goto, Return, ReturnErr, Stopped, Leads

\* A status write has one of these outcomes.
LEMMA WriteStatusIs ==
    ASSUME TypeOK, NEW b \in Backup, NEW next, NEW err, WriteStatus(b, next, err)
    PROVE  StatusOutcome(b, next)
<1>1. ASSUME b.rv # 0 /\ b.rv = api.rv, Commit(StatusOf(b))
      PROVE  Wrote(b)
  <2>1. api \in Backup BY DEF TypeOK
  <2>2. Written /\ Is(StatusOf(b)) BY <1>1, <2>1, StatusOfFields, CommitIs
  <2> QED BY <1>1, <2>1, <2>2, StatusOfFields DEF Wrote, Is
<1>2. UNCHANGED apiVars => Kept BY DEF apiVars, Kept
<1>3. CASE /\ b.rv # 0 /\ b.rv = api.rv /\ Commit(StatusOf(b))
           /\ StoreRevisionUpdate(api'.rv) /\ Continue(next, api')
  BY <1>1, <1>3, Leaving DEF StoreRevisionUpdate, StoredRevision, StatusOutcome
<1>4. CASE /\ \/ UNCHANGED apiVars
              \/ b.rv # 0 /\ b.rv = api.rv /\ Commit(StatusOf(b))
           /\ processed' = processed
           /\ Continue(next, NoBackup) \/ ReturnErr \/ Return
  <2>1. Kept \/ Wrote(b) BY <1>1, <1>2, <1>4
  <2>2. Stopped \/ Leads(next, NoBackup) BY <1>4, Leaving
  <2> QED BY <1>4, <2>1, <2>2 DEF StatusOutcome
<1> QED BY <1>3, <1>4 DEF WriteStatus

\* So has updateBackupStatus, which may have nothing to write.
LEMMA UpdateStatusIs ==
    ASSUME TypeOK, NEW stage \in Stages, NEW state \in States, NEW next,
           next # "volumeGroup", UpdateStatus(stage, state, next)
    PROVE  /\ StatusOutcome(Updated(w, stage, state), next)
           /\ WorkerFrame /\ VolumesKept /\ HostsKept
<1> DEFINE b == Updated(w, stage, state)
<1>1. b \in Backup BY UpdatedType DEF TypeOK
<1>2. WorkerFrame /\ VolumesKept /\ HostsKept
  BY DEF UpdateStatus, WorkerFrame, VolumesKept, HostsKept, rcVars, volVars, envVars
<1>3. IF b # w THEN WriteStatus(b, next, "retry")
      ELSE Continue(next, w) /\ UNCHANGED <<apiVars, storeVars, faults>>
  BY DEF UpdateStatus
<1> HIDE DEF b
<1>4. CASE b = w
  BY <1>2, <1>3, <1>4, Leaving DEF StatusOutcome, Kept, apiVars, storeVars, b
<1>5. CASE b # w BY <1>1, <1>2, <1>3, <1>5, WriteStatusIs DEF b
<1> QED BY <1>4, <1>5

\* A patch has one of these outcomes.
LEMMA PatchBackupIs ==
    ASSUME TypeOK, NEW b \in Backup, NEW next, next # "return", PatchBackup(b, next)
    PROVE  PatchOutcome(b, next) /\ WorkerFrame /\ VolumesKept /\ HostsKept
<1>1. WorkerFrame /\ VolumesKept /\ HostsKept
  BY DEF PatchBackup, WorkerFrame, VolumesKept, HostsKept, rcVars, volVars, envVars
<1>2. w.rv # 0 /\ api.rv # 0 /\ Commit(b) => Patched(b) BY CommitIs DEF Patched
<1>3. CASE /\ w.rv # 0 /\ api.rv # 0 /\ Commit(b) /\ StoreRevisionUpdate(api'.rv)
           /\ Goto(next, api')
  BY <1>1, <1>2, <1>3, Leaving DEF StoreRevisionUpdate, StoredRevision, PatchOutcome
<1>4. CASE /\ UNCHANGED apiVars \/ (w.rv # 0 /\ api.rv # 0 /\ Commit(b))
           /\ ReturnErr /\ UNCHANGED storeVars
  BY <1>1, <1>2, <1>4, Leaving DEF PatchOutcome, Kept, apiVars, storeVars
<1> QED BY <1>1, <1>3, <1>4 DEF PatchBackup

\* So has an annotation by the worker; it does not tell the store.
LEMMA AnnotateBackupIs ==
    ASSUME TypeOK, NEW a \in Annotations, NEW next, AnnotateBackup(a, next)
    PROVE  /\ AnnotateOutcome([api EXCEPT !.ann = @ \cup {a}], next)
           /\ WorkerFrame /\ VolumesKept /\ HostsKept
<1> DEFINE b == [api EXCEPT !.ann = @ \cup {a}]
<1>1. /\ WorkerFrame /\ VolumesKept /\ HostsKept /\ processed' = processed
  BY DEF AnnotateBackup, WorkerFrame, VolumesKept, HostsKept, rcVars, volVars, envVars, storeVars
<1>2. b \in Backup BY DEF TypeOK, Backup
<1>3. \/ Continue(next, w) /\ UNCHANGED apiVars
      \/ w.rv # 0 /\ api.rv # 0 /\ Commit(b) /\ Continue(next, api')
      \/ /\ UNCHANGED apiVars \/ (w.rv # 0 /\ api.rv # 0 /\ Commit(b))
         /\ Continue(next, NoBackup)
  BY DEF AnnotateBackup
<1> HIDE DEF b
<1>4. w.rv # 0 /\ api.rv # 0 /\ Commit(b) => Patched(b) BY <1>2, CommitIs DEF Patched
<1>5. AnnotateOutcome(b, next)
  BY <1>1, <1>3, <1>4, Leaving DEF AnnotateOutcome, Kept, apiVars
<1> QED BY <1>1, <1>5 DEF b

\* A step that writes nothing, and one whose call fails
LEMMA LocalIs ==
    ASSUME NEW b, NEW next, Local(next, b)
    PROVE  LocalOutcome(next, b) /\ WorkerFrame /\ VolumesKept
BY Leaving
   DEF Local, LocalOutcome, Kept, WorkerFrame, VolumesKept, apiVars, storeVars, rcVars, volVars

\* A call that fails ends the run and writes nothing.
LEMMA CallFailsIs ==
    ASSUME CallFails
    PROVE  LocalOutcome("return", w) /\ WorkerFrame /\ VolumesKept /\ HostsKept
BY Leaving
   DEF CallFails, LocalOutcome, Leads, Kept, WorkerFrame, VolumesKept, HostsKept, apiVars,
       storeVars, rcVars, volVars, envVars

-----------------------------------------------------------------------------
(* The deletion in order: the server's object and the informer's copies *)

\* Nobody takes the finalizer or the deletion mark away, and a stage is written only with
\* the finalizer in place.
MarksStay ==
    /\ api.rv # 0 => (api.fin => api'.fin) /\ (api.del => api'.del)
    /\ Rank(api') # 0 => api'.fin

\* A copy, by place
LEMMA CopyCases ==
    /\ cache \in Copies
    /\ \A i \in DOMAIN watch : watch[i] \in Copies
    /\ \A c \in Copies : c = cache \/ \E i \in DOMAIN watch : c = watch[i]
BY DEF Copies

\* The types of the copies
LEMMA CopyTypes ==
    ASSUME TypeOK
    PROVE  /\ api \in Backup /\ w \in Backup /\ rc \in Backup /\ watch \in Seq(Backup)
           /\ processed \in Nat
           /\ \A c \in Copies : c \in Backup /\ c.rv \in Nat
           /\ api.rv \in Nat /\ w.rv \in Nat /\ rc.rv \in Nat
<1>1. \A c \in Copies : c \in Backup BY DEF Copies, TypeOK
<1> QED BY <1>1 DEF TypeOK, Backup

\* After a write the informer has what it had and will be told of the new revision.
LEMMA WrittenCopies ==
    ASSUME TypeOK, TypeOK', Written, cache' = cache
    PROVE  /\ \A c \in Copies' : c \in Copies \/ (c = api' /\ api.rv # 0)
           /\ Kept => Copies' = Copies
           /\ \A i \in DOMAIN watch' :
                 (i \in DOMAIN watch /\ watch'[i] = watch[i]) \/ (watch'[i] = api' /\ api.rv # 0)
           /\ api.rv = 0 => api' = api
           /\ api.rv # 0 => api'.rv # 0 /\ api'.rv >= api.rv
           /\ ~Kept => api'.rv = api.rv + 1
<1>0. watch \in Seq(Backup) /\ api.rv \in Nat /\ api' \in Backup BY CopyTypes DEF TypeOK
<1>1. CASE Kept
  <2>1. Copies' = Copies BY <1>1 DEF Kept, Copies
  <2> QED BY <1>0, <1>1, <2>1 DEF Kept
<1>2. CASE api.rv # 0 /\ api'.rv = api.rv + 1 /\ watch' = Append(watch, api')
  <2>1. \A i \in DOMAIN watch' :
           (i \in DOMAIN watch /\ watch'[i] = watch[i]) \/ watch'[i] = api'
    BY <1>0, <1>2
  <2>2. \A c \in Copies' : c \in Copies \/ c = api'
    BY <2>1 DEF Copies
  <2>3. ~Kept BY <1>0, <1>2 DEF Kept
  <2> QED BY <1>0, <1>2, <2>1, <2>2, <2>3
<1> QED BY <1>1, <1>2 DEF Written

\* The part of MarksKept that is about the server's object and its copies
CopiesMarked ==
    /\ api.rv # 0 => \A c \in Copies : (c.fin => api.fin) /\ (c.del => api.del)
    /\ api.rv # 0 => \A c \in Copies \cup {api} : Rank(c) # 0 => c.fin

\* The worker's copy has the marks it had, or those of the server's object, or none.
WorkerMarked == w' = NoBackup \/ w' = api' \/ (w'.fin = w.fin /\ w'.del = w.del)

\* Together they are MarksKept.
LEMMA BothMarked ==
    ASSUME MarksKept, CopiesMarked', WorkerMarked, MarksStay, api'.rv # 0 => api.rv # 0
    PROVE  MarksKept'
BY EmptyBackup DEF MarksKept, CopiesMarked, WorkerMarked, MarksStay

\* A write that keeps the marks keeps what the informer will learn of the deletion.
LEMMA WrittenKeeps ==
    ASSUME TypeOK, MarksKept, RemovalSeen, DeletionOrdered, TypeOK', Written, MarksStay,
           cache' = cache
    PROVE  CopiesMarked' /\ RemovalSeen' /\ DeletionOrdered'
<1>1. CASE Kept
  <2>1. Copies' = Copies BY <1>1, WrittenCopies
  <2> QED BY <1>1, <2>1 DEF Kept, MarksKept, CopiesMarked, RemovalSeen, DeletionOrdered, Gone
<1>2. CASE api.rv # 0 /\ api'.rv = api.rv + 1 /\ watch' = Append(watch, api')
  <2>0. watch \in Seq(Backup) /\ api'.rv # 0 BY <1>2, WrittenCopies DEF TypeOK
  <2>2. CopiesMarked'
    BY <1>2, WrittenCopies, Zenon DEF MarksKept, CopiesMarked, MarksStay
  <2>3. RemovalSeen'
    <3>1. \A i \in DOMAIN watch : watch[i].rv # 0 BY <1>2 DEF RemovalSeen
    <3>2. \A i \in DOMAIN watch' : watch'[i].rv # 0 BY <2>0, <3>1, WrittenCopies
    <3> QED BY <2>0, <3>2 DEF RemovalSeen
  <2>4. DeletionOrdered'
    <3>1. \A i \in DOMAIN watch : Gone(watch[i]) => Gone(api')
      BY <1>2, CopyCases DEF RemovalSeen, MarksKept, MarksStay, Gone
    <3>2. cache.del => Gone(api')
      BY <1>2, CopyCases DEF MarksKept, MarksStay, Gone
    <3>3. /\ DOMAIN watch' = 1..(Len(watch) + 1) /\ DOMAIN watch = 1..Len(watch)
          /\ Len(watch) \in Nat
          /\ \A i \in DOMAIN watch : watch'[i] = watch[i]
          /\ watch'[Len(watch) + 1] = api'
      BY <1>2, <2>0
    <3>4. \A i \in DOMAIN watch' : i \in DOMAIN watch \/ i = Len(watch) + 1 BY <3>3
    <3>5. cache'.del => \A i \in DOMAIN watch' : Gone(watch'[i])
      BY <3>2, <3>3, <3>4 DEF DeletionOrdered
    <3>6. ASSUME NEW i \in DOMAIN watch', NEW j \in DOMAIN watch', i <= j, Gone(watch'[i])
          PROVE  Gone(watch'[j])
      BY <3>1, <3>3, <3>4, <3>6 DEF DeletionOrdered
    <3> QED BY <3>5, <3>6 DEF DeletionOrdered, Gone
  <2> QED BY <2>2, <2>3, <2>4
<1> QED BY <1>1, <1>2 DEF Written

\* The removal of the object: nothing follows it, and what the informer still has is
\* gone, marked, or without finalizer and stage.
LEMMA RemovedKeeps ==
    ASSUME TypeOK, DeletionOrdered, api.rv # 0, Remove, cache' = cache,
           \A c \in Copies : Gone(c) \/ (~c.fin /\ Rank(c) = 0)
    PROVE  /\ MarksKept' /\ RemovalSeen' /\ DeletionOrdered'
           /\ \A c \in Copies' : c \in Copies \/ c = NoBackup
<1>1. api' = NoBackup /\ api'.rv = 0 /\ watch' = Append(watch, NoBackup) /\ Gone(NoBackup)
  BY EmptyBackup DEF Remove, Gone
<1>2. /\ DOMAIN watch' = 1..(Len(watch) + 1) /\ DOMAIN watch = 1..Len(watch)
      /\ Len(watch) \in Nat
      /\ \A i \in DOMAIN watch : watch'[i] = watch[i]
      /\ watch'[Len(watch) + 1] = NoBackup
      /\ \A i \in DOMAIN watch' : i \in DOMAIN watch \/ i = Len(watch) + 1
  BY <1>1, EmptyBackup, CopyTypes
<1>3. MarksKept' BY <1>1 DEF MarksKept
<1>4. \A c \in Copies' : c \in Copies \/ c = NoBackup BY <1>2 DEF Copies
<1>5. RemovalSeen' BY <1>1, <1>4 DEF RemovalSeen, Gone
<1>6. cache'.del => \A i \in DOMAIN watch' : Gone(watch'[i])
  BY <1>1, <1>2 DEF DeletionOrdered
<1>7. ASSUME NEW i \in DOMAIN watch', NEW j \in DOMAIN watch', i <= j, Gone(watch'[i])
      PROVE  Gone(watch'[j])
  BY <1>1, <1>2, <1>7 DEF DeletionOrdered
<1>8. DeletionOrdered' BY <1>6, <1>7 DEF DeletionOrdered, Gone
<1> QED BY <1>3, <1>4, <1>5, <1>8

\* What is delivered was on its way, and the rest keeps its order.
LEMMA Delivered ==
    ASSUME TypeOK, Informer
    PROVE  /\ Len(watch) \in Nat /\ Len(watch) # 0 /\ 1 \in DOMAIN watch
           /\ cache' = watch[1]
           /\ \A i \in DOMAIN watch' : i + 1 \in DOMAIN watch /\ watch'[i] = watch[i + 1]
           /\ Copies' \subseteq Copies
           /\ DOMAIN watch' \subseteq Nat
<1>1. watch \in Seq(Backup) /\ watch # <<>> BY DEF TypeOK, Informer
<1>2. cache' = Head(watch) /\ watch' = Tail(watch) BY DEF Informer
<1>3. Len(watch) \in Nat /\ Len(watch) # 0 /\ 1 \in DOMAIN watch /\ cache' = watch[1] BY <1>1, <1>2
<1>4. watch' \in Seq(Backup) /\ Len(watch') = Len(watch) - 1 BY <1>1, <1>2
<1>5. \A i \in DOMAIN watch' : i + 1 \in DOMAIN watch /\ watch'[i] = watch[i + 1] BY <1>1, <1>2
<1>6. Copies' \subseteq Copies BY <1>3, <1>5 DEF Copies
<1> QED BY <1>3, <1>4, <1>5, <1>6

-----------------------------------------------------------------------------
(* The steps of the worker behind the finalizer *)

\* A status write of b that leads to next fits the worker's place and copy.
StatusNexts ==
    {"validate", "sync", "preProcessing", "preExec", "preReverse", "volumes", "volumeGroup",
     "volSynced", "postExec", "resources", "resSynced", "finished", "return"}
StatusFits(b, next) ==
    /\ Follows(w, b) /\ (Rank(w) = 0 => ~Late(b))
    /\ StateAt(next, b.state)
    /\ next \in StartPcs => pc \in StartPcs /\ Rank(b) = 0
    /\ ~VolumesFailed(b)
    /\ MayTakeSnapshots(b) => Held(apps)
    /\ Archived(b) /\ ~Gone(api) => archive = "stored"
    /\ b.stage = "Finished" => b.state # "Failed"
    /\ VolumesPassed(b) => VolumesDone(w)
    /\ pc = "scheduled" => b # w
StatusStep(b, next) ==
    /\ pc \in SyncPcs \ Locked /\ next \in StatusNexts /\ b.rv = w.rv
    /\ w.rv # 0 => StatusFits(b, next)
    /\ StatusOutcome(b, next) /\ WorkerFrame /\ VolumesKept /\ HostsKept

\* The two patches: the finalizer, and the list of resources
PatchStep(b, next) ==
    /\ \/ pc = "finalizer" /\ ~w.fin /\ next = "initStatus" /\ b.fin /\ b.ann = api.ann
       \/ /\ pc = "supported" /\ next = "validated" /\ b.fin = api.fin
          /\ b.ann = api.ann \cup {"backup-resources"}
    /\ b.stage = api.stage /\ b.state = api.state /\ b.del = api.del
    /\ PatchOutcome(b, next) /\ WorkerFrame /\ VolumesKept /\ HostsKept

\* The two annotations: the volumes are done, and the hooks of a failure
AnnotateStep(b, next) ==
    /\ \/ /\ pc = "noVolume" /\ next = "scheduled"
          /\ b.ann = api.ann \cup {"volume-backup-completed"}
       \/ /\ pc = "annFailHooks" /\ next = "return"
          /\ b.ann = api.ann \cup {"fail-hooks-completed"}
    /\ b.stage = api.stage /\ b.state = api.state /\ b.fin = api.fin /\ b.del = api.del
    /\ AnnotateOutcome(b, next) /\ WorkerFrame /\ VolumesKept /\ HostsKept

\* A step without a write moves the worker on with its copy, or ends its run.
SnapshotPcs == {"sync", "volumes", "collect", "volumeGroup", "createVBC"}
UnfreezePcs == {"preReverse", "volReverse", "postExec"}
MoveFits(next) ==
    /\ pc = "finalizer" => w.fin
    /\ StateAt(next, w.state)
    /\ next \in StartPcs => pc \in StartPcs
    /\ next = "validated" => pc = "supported"
    /\ next \in Locked => pc \in Locked
    /\ next \in {"sync", "volumes"} => pc = "sync"
    /\ next \in SnapshotPcs => pc \in SnapshotPcs
    /\ next = "toVolumes" => Held(apps')
    /\ next = "resOK" => archive' = "stored"
QuietStep ==
    /\ pc \in (SyncPcs \ {"scheduled"}) \cup {"finalizer"} /\ pc' \in SyncPcs \cup {"idle"}
    /\ Kept /\ processed' = processed /\ WorkerFrame /\ vdel' = vdel
    /\ w' = NoBackup \/ (w'.rv = w.rv /\ SameVersion(w', w))
    /\ w'.rv # 0 => MoveFits(pc')
    /\ pc' = "createVBC" => w'.rv # 0
    /\ pc' = "noVolume" => wanted = {}
    /\ \A v \in VBCs : \/ vbc'[v] = vbc[v]
                       \/ vbc[v] = "absent" /\ vbc'[v] = "New" /\ wanted # {} /\ pc = "createVBC"
    /\ Held(apps) => Held(apps') \/ (w.rv # 0 /\ pc \in UnfreezePcs)
    /\ archive = "stored" => archive' = "stored"

\* The sets of calls
LEMMA PcSets ==
    /\ SyncPcs \subseteq Pcs /\ DeletePcs \subseteq Pcs /\ SyncPcs \cap DeletePcs = {}
    /\ "idle" \notin SyncPcs /\ "finalizer" \notin SyncPcs /\ "return" \notin Pcs
    /\ "idle" \notin DeletePcs /\ "finalizer" \notin DeletePcs
    /\ "delMeta" \in DeletePcs /\ "delFinalizer" \in DeletePcs /\ "delVBC" \in DeletePcs
    /\ "delList" \in DeletePcs
    /\ StatusNexts \subseteq SyncPcs \cup {"return"}
    /\ {"initStatus", "validated", "scheduled"} \subseteq SyncPcs
    /\ StartPcs \subseteq SyncPcs \cup {"finalizer"}
    /\ Locked \subseteq SyncPcs /\ SnapshotPcs \subseteq SyncPcs /\ UnfreezePcs \subseteq SyncPcs
    /\ {"supported", "noVolume", "annFailHooks", "toVolumes", "resOK"} \subseteq SyncPcs
BY DEF SyncPcs, DeletePcs, Pcs, StatusNexts, StartPcs, Locked, SnapshotPcs, UnfreezePcs

\* The deletion stays in order when the worker goes on behind the finalizer.
LEMMA SyncKeepsDeletion ==
    ASSUME TypeOK, DeletionInv, TypeOK', pc \in SyncPcs \cup {"finalizer"}, Written, MarksStay,
           cache' = cache, vdel' = vdel, WorkerMarked, pc' \in SyncPcs \cup {"idle"},
           pc' = "createVBC" => w'.rv # 0,
           w'.rv # 0 => api'.rv # 0 /\ api'.fin,
           LiveVBCs' # {} => LiveVBCs # {} \/ (api'.rv # 0 /\ api'.fin)
    PROVE  DeletionInv'
<1>0. MarksKept /\ RemovalSeen /\ DeletionOrdered /\ FinalizerHeld /\ DeleterKnows BY DEF DeletionInv
<1>1. /\ api.rv = 0 => api' = api
      /\ api.rv # 0 => api'.rv # 0
  BY WrittenCopies
<1>2. CopiesMarked' /\ RemovalSeen' /\ DeletionOrdered' BY <1>0, WrittenKeeps
<1>3. MarksKept' BY <1>0, <1>1, <1>2, BothMarked
<1>4. HandlersHold' /\ NothingLeft' BY PcSets DEF HandlersHold, NothingLeft
<1>5. DeleterKnows' BY <1>0, <1>1, PcSets DEF DeleterKnows, Gone, MarksStay
<1>6. FinalizerHeld' BY <1>0, <1>1, PcSets DEF FinalizerHeld, MarksStay
<1> QED BY <1>2, <1>3, <1>4, <1>5, <1>6 DEF DeletionInv

\* What a call leads to, for a copy
LEMMA LeadsTo ==
    ASSUME NEW next \in SyncPcs \cup {"return"}, NEW b, Leads(next, b) \/ Stopped
    PROVE  /\ pc' \in SyncPcs \cup {"idle"} /\ pc' \in {next, "idle"}
           /\ w' = b \/ w' = NoBackup
           /\ pc' # "idle" => w' = b
BY PcSets DEF Leads, Stopped

\* The VBCs stay the same.
LEMMA SameLive == vbc' = vbc => LiveVBCs' = LiveVBCs
BY DEF LiveVBCs, VBCs

\* A write keeps the marks if it takes none away and raises no stage without the finalizer.
LEMMA MarksWritten ==
    ASSUME IInv, DeletionInv, api.fin => api'.fin, api.del => api'.del,
           api'.stage = api.stage \/ api'.fin
    PROVE  MarksStay
<1>1. api'.stage = api.stage => Rank(api') = Rank(api) BY DEF Rank
<1>2. Rank(api) # 0 => api.fin
  BY EmptyBackup DEF IInv, RemovedIsEmpty, DeletionInv, MarksKept
<1> QED BY <1>1, <1>2 DEF MarksStay

\* Status writes keep the deletion in order.
LEMMA StatusKeepsDeletion ==
    ASSUME IInv, DeletionInv, TypeOK', NEW b, NEW next, StatusStep(b, next)
    PROVE  DeletionInv'
<1>0. /\ TypeOK /\ pc \in SyncPcs /\ next \in SyncPcs \cup {"return"} /\ next # "createVBC"
      /\ b.rv = w.rv
      /\ StatusOutcome(b, next) /\ cache' = cache /\ vdel' = vdel /\ LiveVBCs' = LiveVBCs
  BY PcSets, SameLive DEF StatusStep, StatusNexts, WorkerFrame, VolumesKept, IInv
<1>1. w.rv # 0 => api.rv # 0 /\ api.fin BY <1>0 DEF DeletionInv, FinalizerHeld
<1>2. Kept \/ Wrote(b) BY <1>0 DEF StatusOutcome
<1>3. Written BY <1>2 DEF Written, Wrote
<1>4. MarksStay
  <2>1. api.fin => api'.fin /\ (api.del => api'.del) BY <1>2 DEF Kept, Wrote
  <2>2. api'.stage = api.stage \/ api'.fin BY <1>0, <1>1, <1>2 DEF Kept, Wrote
  <2> QED BY <1>2, <2>1, <2>2, MarksWritten DEF Kept, Wrote
<1>5. /\ pc' \in SyncPcs \cup {"idle"} /\ pc' # "createVBC"
      /\ w' = NoBackup \/ (w' = api' /\ Wrote(b)) \/ (w' = w /\ Kept)
  BY <1>0, LeadsTo DEF StatusOutcome
<1>6. WorkerMarked BY <1>5 DEF WorkerMarked
<1>7. w'.rv # 0 => api'.rv # 0 /\ api'.fin
  <2>1. w'.rv # 0 => w.rv # 0 BY <1>0, <1>5, EmptyBackup DEF Wrote
  <2>2. api.rv # 0 => api'.rv # 0 BY <1>0, <1>3, WrittenCopies
  <2> QED BY <1>1, <1>4, <2>1, <2>2 DEF MarksStay
<1> QED BY <1>0, <1>3, <1>4, <1>5, <1>6, <1>7, SyncKeepsDeletion

\* So do the patches of the worker,
LEMMA PatchKeepsDeletion ==
    ASSUME IInv, DeletionInv, TypeOK', NEW b, NEW next, PatchStep(b, next)
    PROVE  DeletionInv'
<1>0. /\ TypeOK /\ pc \in SyncPcs \cup {"finalizer"} /\ next \in {"initStatus", "validated"}
      /\ next \in SyncPcs \cup {"return"}
      /\ PatchOutcome(b, next) /\ cache' = cache /\ vdel' = vdel /\ LiveVBCs' = LiveVBCs
      /\ b.stage = api.stage /\ b.del = api.del
      /\ b.fin \/ (pc \in SyncPcs /\ b.fin = api.fin)
  BY PcSets, SameLive DEF PatchStep, WorkerFrame, VolumesKept, IInv
<1>1. pc \in SyncPcs /\ w.rv # 0 => api.rv # 0 /\ api.fin BY DEF DeletionInv, FinalizerHeld
<1>2. Kept \/ Patched(b) BY <1>0 DEF PatchOutcome
<1>3. Written BY <1>2 DEF Written, Patched
<1>4. MarksStay
  <2>1. api.fin => api'.fin BY <1>0, <1>2 DEF Kept, Patched, Is
  <2>2. (api.del => api'.del) /\ api'.stage = api.stage
    BY <1>0, <1>2 DEF Kept, Patched, Is
  <2> QED BY <2>1, <2>2, MarksWritten
<1>5. /\ pc' \in SyncPcs \cup {"idle"} /\ pc' # "createVBC"
      /\ w' = NoBackup \/ (w' = api' /\ Patched(b))
  BY <1>0, LeadsTo DEF PatchOutcome
<1>6. WorkerMarked BY <1>5 DEF WorkerMarked
<1>7. w'.rv # 0 => api'.rv # 0 /\ api'.fin
  <2>1. api.rv # 0 => api'.rv # 0 BY <1>0, <1>3, WrittenCopies
  <2>2. Patched(b) => api.rv # 0 /\ api'.fin BY <1>0, <1>1 DEF Patched, Is
  <2> QED BY <1>5, <2>1, <2>2, EmptyBackup
<1> QED BY <1>0, <1>3, <1>4, <1>5, <1>6, <1>7, SyncKeepsDeletion

\* its annotations,
LEMMA AnnotateKeepsDeletion ==
    ASSUME IInv, DeletionInv, TypeOK', NEW b, NEW next, AnnotateStep(b, next)
    PROVE  DeletionInv'
<1>0. /\ TypeOK /\ pc \in SyncPcs /\ next \in {"scheduled", "return"}
      /\ next \in SyncPcs \cup {"return"}
      /\ AnnotateOutcome(b, next) /\ cache' = cache /\ vdel' = vdel /\ LiveVBCs' = LiveVBCs
      /\ b.stage = api.stage /\ b.del = api.del /\ b.fin = api.fin
  BY PcSets, SameLive DEF AnnotateStep, WorkerFrame, VolumesKept, IInv
<1>1. w.rv # 0 => api.rv # 0 /\ api.fin BY <1>0 DEF DeletionInv, FinalizerHeld
<1>2. Kept \/ Patched(b) BY <1>0 DEF AnnotateOutcome
<1>3. Written BY <1>2 DEF Written, Patched
<1>4. MarksStay
  BY <1>0, <1>2, MarksWritten DEF Kept, Patched, Is
<1>5. /\ pc' \in SyncPcs \cup {"idle"} /\ pc' # "createVBC"
      /\ w' = NoBackup \/ (w' = api' /\ Patched(b)) \/ (w' = w /\ Kept)
  BY <1>0, LeadsTo DEF AnnotateOutcome
<1>6. WorkerMarked BY <1>5 DEF WorkerMarked
<1>7. w'.rv # 0 => api'.rv # 0 /\ api'.fin
  <2>1. api.rv # 0 => api'.rv # 0 BY <1>0, <1>3, WrittenCopies
  <2>2. w'.rv # 0 => w.rv # 0 BY <1>5, EmptyBackup DEF Patched
  <2> QED BY <1>1, <1>4, <2>1, <2>2 DEF MarksStay
<1> QED BY <1>0, <1>3, <1>4, <1>5, <1>6, <1>7, SyncKeepsDeletion

\* and its steps without a write of the object.
LEMMA QuietKeepsDeletion ==
    ASSUME IInv, DeletionInv, TypeOK', QuietStep
    PROVE  DeletionInv'
<1>0. /\ TypeOK /\ pc \in SyncPcs \cup {"finalizer"} /\ pc' \in SyncPcs \cup {"idle"}
      /\ cache' = cache /\ vdel' = vdel /\ Written /\ api' = api
      /\ pc' = "createVBC" => w'.rv # 0
  BY DEF QuietStep, WorkerFrame, IInv, Written, Kept
<1>1. MarksStay BY <1>0, MarksWritten
<1>2. WorkerMarked BY DEF QuietStep, WorkerMarked, SameVersion
<1>3. w'.rv # 0 => w.rv # 0 /\ MoveFits(pc') BY EmptyBackup DEF QuietStep
<1>4. w'.rv # 0 => api'.rv # 0 /\ api'.fin
  BY <1>0, <1>3 DEF MoveFits, DeletionInv, FinalizerHeld
<1>5. LiveVBCs' # {} => LiveVBCs # {} \/ (api'.rv # 0 /\ api'.fin)
  <2>1. CASE pc = "createVBC"
    BY <1>0, <2>1, PcSets DEF DeletionInv, HandlersHold, FinalizerHeld, Locked
  <2>2. CASE pc # "createVBC"
    BY <2>2 DEF QuietStep, LiveVBCs, VBCs
  <2> QED BY <2>1, <2>2
<1> QED BY <1>0, <1>1, <1>2, <1>4, <1>5, SyncKeepsDeletion

-----------------------------------------------------------------------------
(* The deletion in order: the other steps *)

\* What taking the key does: nothing, or the worker starts on the path its copy asks for.
QueueOutcome ==
    /\ Kept /\ WorkerFrame /\ VolumesKept /\ HostsKept /\ pc = "idle"
    /\ \/ pc' = pc /\ w' = w /\ processed' = processed
       \/ /\ cache.rv # 0 /\ processed <= cache.rv /\ processed' = cache.rv /\ w' = cache
          /\ pc' = IF cache.del THEN "delVBC"
                   ELSE IF cache.stage \in {"unset", "Initial"} THEN "finalizer" ELSE "sync"

\* ProcessQueue has such an outcome.
LEMMA ProcessQueueIs ==
    ASSUME TypeOK, ProcessQueue
    PROVE  QueueOutcome
<1>1. cache.rv \in Nat /\ processed \in Nat BY CopyTypes, CopyCases
<1>2. Kept /\ WorkerFrame /\ VolumesKept /\ HostsKept /\ pc = "idle"
  BY DEF ProcessQueue, Kept, WorkerFrame, VolumesKept, HostsKept, apiVars, rcVars, volVars, envVars
<1> QED BY <1>1, <1>2 DEF ProcessQueue, QueueOutcome, workerVars

\* Taking the key keeps the deletion in order.
LEMMA QueueKeepsDeletion ==
    ASSUME IInv, DeletionInv, TypeOK', QueueOutcome
    PROVE  DeletionInv'
<1>0. /\ TypeOK /\ HandlersHold /\ MarksKept /\ RemovalSeen /\ DeletionOrdered /\ DeleterKnows
      /\ FinalizerHeld
  BY DEF DeletionInv, IInv
<1>1. /\ api' = api /\ cache' = cache /\ vdel' = vdel /\ Written /\ pc = "idle"
      /\ LiveVBCs' = LiveVBCs /\ Copies' = Copies
  BY SameLive DEF QueueOutcome, Kept, WorkerFrame, VolumesKept, Written, Copies
<1>p. pc' \in {"idle", "delVBC", "finalizer", "sync"} /\ (pc' = "delVBC" => cache.del)
  BY DEF QueueOutcome
<1>2. CopiesMarked' /\ RemovalSeen' /\ DeletionOrdered' BY <1>0, <1>1, WrittenKeeps, MarksWritten
<1>3. MarksKept'
  <2>1. CASE w' = w BY <1>0, <1>1, <1>2, <2>1 DEF MarksKept, CopiesMarked
  <2>2. CASE w' = cache BY <1>1, <1>2, <2>2, CopyCases DEF MarksKept, CopiesMarked
  <2> QED BY <2>1, <2>2 DEF QueueOutcome
<1>4. HandlersHold' BY <1>0, <1>1, PcSets DEF QueueOutcome, HandlersHold
<1>5. DeleterKnows' BY <1>0, <1>1, <1>p DEF DeletePcs, DeleterKnows
<1>6. NothingLeft' BY <1>p DEF NothingLeft
<1>7. FinalizerHeld'
  <2>1. CASE pc' = pc BY <1>0, <1>1, <2>1, PcSets DEF FinalizerHeld
  <2>2. CASE pc' # pc /\ (pc' = "finalizer" => w'.fin)
    <3>1. w' = cache /\ cache.rv # 0 /\ (pc' \in SyncPcs \cup {"finalizer"} => ~cache.del)
      BY <1>1, <2>2, PcSets DEF QueueOutcome
    <3>2. pc' \in SyncPcs => Rank(cache) # 0
      <4>1. cache \in Backup BY DEF IInv, TypeOK
      <4> QED BY <1>1, <2>2, <4>1, PcSets, RankOf DEF QueueOutcome
    <3>3. pc' \in SyncPcs \cup {"finalizer"} => api.rv # 0 /\ api.fin
      BY <1>0, <2>2, <3>1, <3>2, CopyCases DEF RemovalSeen, MarksKept, Gone
    <3> QED BY <1>0, <1>1, <3>3 DEF FinalizerHeld
  <2>3. CASE pc' = "finalizer" /\ ~w'.fin
    BY <1>0, <1>1, <2>3, PcSets DEF FinalizerHeld
  <2> QED BY <2>1, <2>2, <2>3
<1> QED BY <1>2, <1>3, <1>4, <1>5, <1>6, <1>7 DEF DeletionInv

\* A step of deleteBackup before the last one
DeleteStep ==
    /\ pc \in DeletePcs /\ pc' \in DeletePcs \cup {"idle"}
    /\ Kept /\ processed' = processed /\ WorkerFrame /\ vbc' = vbc
    /\ apps' = apps /\ vdel' \subseteq vdel \cup LiveVBCs
    /\ w' = w \/ (w' = NoBackup /\ pc' = "idle")
    /\ pc' \in {"delMeta", "delFinalizer"} => LiveVBCs = {}
    /\ pc' = "delFinalizer" /\ w.state # "Failed" /\ toOrdinal(w.stage) >= 4 => archive' # "stored"

\* The three calls of deleteBackup before the last one are such steps.
LEMMA DeletersStep ==
    ASSUME IInv, DeletionInv, RemoveVolumeBackup \/ ListVolumeBackup \/ DeleteMetadataBackup
    PROVE  DeleteStep
<1>l. NothingLeft BY DEF DeletionInv
<1>1. CASE RemoveVolumeBackup
  <2>1. Stopped \/ Leads("delList", w) BY <1>1, Leaving DEF RemoveVolumeBackup
  <2>2. /\ Kept /\ processed' = processed /\ WorkerFrame /\ vbc' = vbc /\ apps' = apps
        /\ pc = "delVBC"
    BY <1>1 DEF RemoveVolumeBackup, apiVars, storeVars, rcVars, envVars, Kept, WorkerFrame
  <2>3. vdel' \subseteq vdel \cup LiveVBCs BY <1>1 DEF RemoveVolumeBackup
  <2> QED BY <2>1, <2>2, <2>3, PcSets DEF DeleteStep, Leads, Stopped
<1>2. CASE ListVolumeBackup
  <2>1. /\ pc = "delList" /\ WorkerFrame /\ VolumesKept /\ HostsKept
        /\ \/ LiveVBCs = {} /\ LocalOutcome("delMeta", w)
           \/ LocalOutcome("return", w)
    <3>1. pc = "delList" /\ (CallFails \/ (UNCHANGED envVars /\ Local(IF LiveVBCs = {} THEN "delMeta" ELSE "return", w)))
      BY <1>2 DEF ListVolumeBackup
    <3>2. UNCHANGED envVars => HostsKept BY DEF envVars, HostsKept
    <3> QED BY <3>1, <3>2, LocalIs, CallFailsIs
  <2> QED BY <2>1, PcSets DEF DeleteStep, LocalOutcome, Leads, Stopped, VolumesKept, HostsKept
<1>3. CASE DeleteMetadataBackup
  <2>1. /\ pc = "delMeta" /\ WorkerFrame /\ VolumesKept /\ apps' = apps
        /\ LocalOutcome("return", w) \/ LocalOutcome("delFinalizer", w)
    BY <1>3, LocalIs, CallFailsIs DEF DeleteMetadataBackup, HostsKept, envVars
  <2>2. \/ LocalOutcome("return", w)
        \/ w.state = "Failed" \/ toOrdinal(w.stage) < toOrdinal("Resources")
        \/ archive' = "none" \/ archive' = "left"
    BY <1>3, CallFailsIs DEF DeleteMetadataBackup
  <2>3. toOrdinal(w.stage) \in Int /\ toOrdinal("Resources") = 4
    BY RankIsInt, OrdinalValues DEF IInv, TypeOK
  <2>4. toOrdinal(w.stage) >= 4 => ~(toOrdinal(w.stage) < toOrdinal("Resources")) BY <2>3
  <2>5. LocalOutcome("return", w) => pc' = "idle" BY DEF LocalOutcome, Leads, Stopped
  <2>6. pc' = "delFinalizer" /\ w.state # "Failed" /\ toOrdinal(w.stage) >= 4 => archive' # "stored"
    BY <2>2, <2>4, <2>5, Zenon
  <2>7. LiveVBCs = {} BY <1>l, <2>1 DEF NothingLeft
  <2> QED
    BY <2>1, <2>6, <2>7, PcSets DEF DeleteStep, LocalOutcome, Leads, Stopped, VolumesKept
<1> QED BY <1>1, <1>2, <1>3

\* It keeps the deletion in order.
LEMMA DeleteKeepsDeletion ==
    ASSUME IInv, DeletionInv, TypeOK', DeleteStep
    PROVE  DeletionInv'
<1>0. /\ TypeOK /\ HandlersHold /\ MarksKept /\ RemovalSeen /\ DeletionOrdered /\ DeleterKnows
      /\ FinalizerHeld
  BY DEF DeletionInv, IInv
<1>1. /\ api' = api /\ cache' = cache /\ Written /\ LiveVBCs' = LiveVBCs
      /\ pc \in DeletePcs /\ pc' \in DeletePcs \cup {"idle"}
      /\ w' = w \/ (w' = NoBackup /\ pc' = "idle")
  BY SameLive DEF DeleteStep, Kept, WorkerFrame, Written
<1>2. CopiesMarked' /\ RemovalSeen' /\ DeletionOrdered' BY <1>0, <1>1, WrittenKeeps, MarksWritten
<1>3. MarksStay BY <1>1, MarksWritten
<1>4. MarksKept' BY <1>0, <1>1, <1>2, <1>3, BothMarked DEF WorkerMarked
<1>5. HandlersHold' BY <1>0, <1>1, PcSets DEF HandlersHold
<1>6. Gone(api)
  BY <1>0, <1>1, CopyCases DEF DeleterKnows, MarksKept, Gone
<1>7. DeleterKnows' BY <1>0, <1>1, <1>6, PcSets DEF DeleterKnows
<1>8. FinalizerHeld' BY <1>0, <1>1, PcSets DEF FinalizerHeld
<1>9. NothingLeft' BY <1>1 DEF DeleteStep, NothingLeft
<1> QED BY <1>2, <1>4, <1>5, <1>7, <1>8, <1>9 DEF DeletionInv

\* While a deletion is under way the informer has nothing but what is gone.
LEMMA AllGone ==
    ASSUME DeletionInv, pc \in DeletePcs, api.rv # 0
    PROVE  Gone(api) /\ \A c \in Copies : Gone(c)
<1>1. cache.del BY DEF DeletionInv, DeleterKnows
<1> QED BY <1>1, CopyCases DEF DeletionInv, MarksKept, DeletionOrdered, Gone

\* The removal of the finalizer, the last step of a deletion, keeps it in order.
LEMMA FinalizerKeepsDeletion ==
    ASSUME IInv, DeletionInv, TypeOK', RemoveFinalizer
    PROVE  DeletionInv'
<1>0. /\ TypeOK /\ HandlersHold /\ DeletionOrdered /\ NothingLeft /\ pc = "delFinalizer"
      /\ api.rv # 0 /\ Remove
  BY DEF DeletionInv, IInv, RemoveFinalizer
<1>1. cache' = cache /\ LiveVBCs' = LiveVBCs /\ pc' = "idle"
  BY SameLive DEF RemoveFinalizer, volVars, Return
<1>2. LiveVBCs = {} BY <1>0 DEF NothingLeft
<1>3. MarksKept' /\ RemovalSeen' /\ DeletionOrdered'
  BY <1>0, <1>1, PcSets, AllGone, RemovedKeeps
<1>4. api'.rv = 0 BY <1>0, EmptyBackup DEF Remove
<1>5. HandlersHold' /\ DeleterKnows' /\ FinalizerHeld' /\ NothingLeft'
  BY <1>1, <1>2, <1>4, PcSets DEF HandlersHold, DeleterKnows, FinalizerHeld, NothingLeft, Gone
<1> QED BY <1>3, <1>5 DEF DeletionInv

\* A restart finds the object as it is, or gone with its last VBC.
LEMMA RestartKeepsDeletion ==
    ASSUME IInv, DeletionInv, TypeOK', NEW b \in {api, NoBackup}, Restart(b), UNCHANGED volVars,
           b = api \/ LiveVBCs = {}
    PROVE  DeletionInv'
<1>0. MarksKept /\ DeleterKnows /\ FinalizerHeld BY DEF DeletionInv
<1>1. /\ api' = b /\ cache' = b /\ watch' = <<>> /\ pc' = "idle" /\ w' = NoBackup
      /\ LiveVBCs' = LiveVBCs /\ vdel' = vdel
  BY SameLive DEF Restart, volVars
<1>2. DOMAIN watch' = {} /\ Copies' = {b} BY <1>1 DEF Copies
<1>3. CASE b = api
  <2>1. MarksKept' BY <1>0, <1>1, <1>2, <1>3, EmptyBackup DEF MarksKept
  <2>2. DeleterKnows' /\ FinalizerHeld' BY <1>0, <1>1, <1>3, PcSets DEF DeleterKnows, FinalizerHeld
  <2> QED BY <1>1, <1>2, <2>1, <2>2, PcSets
          DEF DeletionInv, HandlersHold, RemovalSeen, DeletionOrdered, NothingLeft, Gone
<1>4. CASE b = NoBackup /\ LiveVBCs = {}
  <2>1. MarksKept' BY <1>1, <1>4, EmptyBackup DEF MarksKept
  <2>2. DeleterKnows' /\ FinalizerHeld'
    BY <1>1, <1>4, EmptyBackup, PcSets DEF DeleterKnows, FinalizerHeld, Gone
  <2> QED BY <1>1, <1>2, <2>1, <2>2, PcSets
          DEF DeletionInv, HandlersHold, RemovalSeen, DeletionOrdered, NothingLeft, Gone
<1> QED BY <1>3, <1>4

\* What the reconciler does: it marks the object it read as failed, or annotates the
\* object whatever its revision; it decides so on the VBCs it lists.
WorkerStays == UNCHANGED <<cache, processed, pc, w, wanted, vbc, vdel, attempt, apps, archive>>
Annotated(a) ==
    /\ Written /\ api.rv # 0 /\ api'.stage = api.stage /\ api'.state = api.state
    /\ api'.fin = api.fin /\ api'.del = api.del /\ api'.ann = api.ann \cup {a}
ReconcilerOutcome ==
    /\ WorkerStays
    /\ \/ Kept
       \/ /\ rpc = "fail" /\ rpc' = "idle" /\ rc.rv = api.rv
          /\ Written /\ api.rv # 0 /\ api'.stage = rc.stage /\ api'.state = "Failed"
          /\ api'.fin = api.fin /\ api'.del = api.del /\ api'.ann = api.ann
       \/ rpc = "annCompleted" /\ rpc' = "idle" /\ Annotated("volume-backup-completed")
       \/ rpc = "annDeleted" /\ rpc' = "idle" /\ Annotated("volume-backup-delete-completed")
    /\ rpc' = "fail" =>
          rc' = rc /\ isReconcileRequired(rc) /\ \E v \in LiveVBCs : vbc[v] = "Failed"
    /\ rpc' = "annCompleted" => LiveVBCs # {} /\ \A v \in LiveVBCs : vbc[v] = "Completed"

\* An annotation of the object
LEMMA AnnotationIs ==
    ASSUME TypeOK, api.rv # 0, NEW a \in Annotations, Commit([api EXCEPT !.ann = @ \cup {a}])
    PROVE  Annotated(a)
<1> DEFINE b == [api EXCEPT !.ann = @ \cup {a}]
<1>1. /\ b \in Backup /\ b.stage = api.stage /\ b.state = api.state /\ b.fin = api.fin
      /\ b.del = api.del /\ b.ann = api.ann \cup {a}
  BY DEF TypeOK, Backup
<1>2. Commit(b) OBVIOUS
<1> HIDE DEF b
<1>3. Written /\ Is(b) BY <1>1, <1>2, CommitIs
<1> QED BY <1>1, <1>3 DEF Annotated, Is

\* Every step of the reconciler has such an outcome.
LEMMA ReconcilerIs ==
    ASSUME IInv, Reconciler
    PROVE  ReconcilerOutcome
<1>0. TypeOK /\ rc \in Backup /\ api \in Backup BY DEF IInv, TypeOK
<1>1. ASSUME NEW next, NEW b, RcGoto(next, b)
      PROVE  WorkerStays /\ rpc' = next /\ rc' = b
  BY <1>1 DEF RcGoto, WorkerStays, storeVars, workerVars, volVars, envVars
<1>k. UNCHANGED apiVars => Kept BY DEF apiVars, Kept
<1>2. CASE RcStart
  <2>1. PICK next \in {"checkDeleted", "list"} : RcGoto(next, cache) BY <1>2 DEF RcStart
  <2> QED BY <1>1, <1>k, <1>2, <2>1 DEF RcStart, ReconcilerOutcome
<1>3. CASE RcCheckDeleted
  <2>1. PICK next \in {"annDeleted", "list"}, b \in {NoBackup, rc} : RcGoto(next, b)
    BY <1>3 DEF RcCheckDeleted
  <2> QED BY <1>1, <1>k, <1>3, <2>1 DEF RcCheckDeleted, ReconcilerOutcome
<1>4. CASE RcList
  <2>1. \/ RcGoto("idle", NoBackup)
        \/ /\ LiveVBCs # {}
           /\ \E v \in RcVerdicts : isReconcileRequired(rc) /\ RcGoto(v, IF v = "fail" THEN rc ELSE NoBackup)
    BY <1>4 DEF RcList
  <2>2. Kept BY <1>4, <1>k DEF RcList
  <2>3. CASE RcGoto("idle", NoBackup) BY <1>1, <2>2, <2>3 DEF ReconcilerOutcome
  <2>4. ASSUME NEW v \in RcVerdicts, isReconcileRequired(rc), LiveVBCs # {},
               RcGoto(v, IF v = "fail" THEN rc ELSE NoBackup)
        PROVE  ReconcilerOutcome
    <3>1. /\ v \in {"fail", "idle", "annCompleted"}
          /\ v = "fail" => \E x \in LiveVBCs : vbc[x] = "Failed"
          /\ v = "annCompleted" => \A x \in LiveVBCs : vbc[x] = "Completed"
      BY <2>4 DEF RcVerdicts
    <3>2. WorkerStays /\ rpc' = v /\ (v = "fail" => rc' = rc) BY <1>1, <2>4
    <3> QED BY <2>2, <2>4, <3>1, <3>2 DEF ReconcilerOutcome
  <2> QED BY <2>1, <2>3, <2>4
<1>5. CASE RcUpdateFailure
  <2>1. WorkerStays /\ rpc' = "idle" /\ rpc = "fail" BY <1>1, <1>5 DEF RcUpdateFailure
  <2>2. CASE rc.rv = api.rv /\ Commit([StatusOf(rc) EXCEPT !.state = "Failed"])
    <3> DEFINE b == [StatusOf(rc) EXCEPT !.state = "Failed"]
    <3>1. /\ b \in Backup /\ b.stage = rc.stage /\ b.state = "Failed" /\ b.fin = api.fin
          /\ b.del = api.del /\ b.ann = api.ann
      BY <1>0, Names DEF StatusOf, Backup
    <3>2. Commit(b) /\ api.rv # 0 BY <2>1, <2>2 DEF IInv, ReconcilerHolds
    <3> HIDE DEF b
    <3>3. Written /\ Is(b) BY <1>0, <3>1, <3>2, CommitIs
    <3> QED BY <2>1, <2>2, <3>1, <3>2, <3>3 DEF ReconcilerOutcome, Is
  <2>3. CASE UNCHANGED apiVars BY <1>k, <2>1, <2>3 DEF ReconcilerOutcome
  <2> QED BY <1>5, <2>2, <2>3 DEF RcUpdateFailure
<1>6. ASSUME NEW at, NEW a \in Annotations, RcAnnotate(at, a)
      PROVE  WorkerStays /\ rpc = at /\ rpc' = "idle" /\ (Kept \/ Annotated(a))
  <2>1. WorkerStays /\ rpc = at /\ rpc' = "idle" BY <1>1, <1>6 DEF RcAnnotate
  <2>2. \/ UNCHANGED apiVars
        \/ api.rv # 0 /\ Commit([api EXCEPT !.ann = @ \cup {a}])
    BY <1>6 DEF RcAnnotate
  <2> QED BY <1>0, <1>k, <2>1, <2>2, AnnotationIs
<1>7. CASE \/ RcAnnotate("annCompleted", "volume-backup-completed")
           \/ RcAnnotate("annDeleted", "volume-backup-delete-completed")
  <2>1. {"volume-backup-completed", "volume-backup-delete-completed"} \subseteq Annotations
    BY DEF Annotations
  <2> QED BY <1>6, <1>7, <2>1 DEF ReconcilerOutcome
<1> QED BY <1>2, <1>3, <1>4, <1>5, <1>7 DEF Reconciler

\* A step of somebody else that makes no VBC keeps the deletion in order.
LEMMA OthersKeepDeletion ==
    ASSUME IInv, DeletionInv, TypeOK', Written, MarksStay, UNCHANGED <<cache, pc, w>>,
           LiveVBCs' \subseteq LiveVBCs, vdel' \subseteq vdel
    PROVE  DeletionInv'
<1>0. /\ TypeOK /\ HandlersHold /\ MarksKept /\ RemovalSeen /\ DeletionOrdered /\ DeleterKnows
      /\ FinalizerHeld /\ NothingLeft
  BY DEF DeletionInv, IInv
<1>1. CopiesMarked' /\ RemovalSeen' /\ DeletionOrdered' BY <1>0, WrittenKeeps
<1>2. (api.rv # 0 => api'.rv # 0) /\ (api.rv = 0 => api' = api) BY <1>0, WrittenCopies
<1>3. MarksKept' BY <1>0, <1>1, <1>2, BothMarked DEF WorkerMarked
<1>4. HandlersHold' /\ NothingLeft' BY <1>0 DEF HandlersHold, NothingLeft
<1>5. DeleterKnows' BY <1>0, <1>2 DEF DeleterKnows, Gone, MarksStay
<1>6. FinalizerHeld' BY <1>0, <1>2 DEF FinalizerHeld, MarksStay
<1> QED BY <1>1, <1>3, <1>4, <1>5, <1>6 DEF DeletionInv

\* The reconciler keeps the deletion in order.
LEMMA ReconcilerKeepsDeletion ==
    ASSUME IInv, DeletionInv, TypeOK', ReconcilerOutcome
    PROVE  DeletionInv'
<1>1. UNCHANGED <<cache, pc, w, vdel>> /\ LiveVBCs' = LiveVBCs
  BY SameLive DEF ReconcilerOutcome, WorkerStays
<1>2. Written /\ api'.fin = api.fin /\ api'.del = api.del /\ api'.stage = api.stage
  <2>1. rc.rv = api.rv /\ api.rv # 0 => rc = api BY DEF IInv, CopiesAgree, Agrees
  <2> QED BY <2>1 DEF ReconcilerOutcome, Annotated, Written, Kept
<1> QED BY <1>1, <1>2, MarksWritten, OthersKeepDeletion

\* So does a delivery.
LEMMA InformerKeepsDeletion ==
    ASSUME IInv, DeletionInv, Informer
    PROVE  DeletionInv'
<1>0. /\ TypeOK /\ HandlersHold /\ MarksKept /\ RemovalSeen /\ DeletionOrdered /\ DeleterKnows
      /\ FinalizerHeld /\ NothingLeft
  BY DEF DeletionInv, IInv
<1>2. api' = api /\ pc' = pc /\ w' = w /\ LiveVBCs' = LiveVBCs /\ vdel' = vdel
  BY SameLive DEF Informer, workerVars, volVars
<1>3. HandlersHold' /\ FinalizerHeld' /\ NothingLeft'
  BY <1>0, <1>2 DEF HandlersHold, FinalizerHeld, NothingLeft
<1>4. MarksKept' BY <1>0, <1>2, Delivered DEF MarksKept
<1>5. RemovalSeen'
  <2>1. \A i \in DOMAIN watch' : watch'[i].rv = 0 => api.rv = 0
    BY <1>0, Delivered DEF RemovalSeen
  <2> QED BY <1>0, <1>2, <2>1, Delivered DEF RemovalSeen, Gone
<1>6. DeletionOrdered'
  <2>1. ASSUME cache'.del, NEW i \in DOMAIN watch' PROVE Gone(watch'[i])
    <3>1. Gone(watch[1]) /\ 1 <= i + 1 /\ i + 1 \in DOMAIN watch /\ 1 \in DOMAIN watch
      BY <1>0, <2>1, Delivered DEF Gone
    <3> QED BY <1>0, <3>1, Delivered DEF DeletionOrdered
  <2>2. ASSUME NEW i \in DOMAIN watch', NEW j \in DOMAIN watch', i <= j, Gone(watch'[i])
        PROVE  Gone(watch'[j])
    <3>1. i + 1 \in DOMAIN watch /\ j + 1 \in DOMAIN watch /\ i + 1 <= j + 1
      BY <1>0, <2>2, Delivered
    <3> QED BY <1>0, <2>2, <3>1, Delivered DEF DeletionOrdered
  <2> QED BY <2>1, <2>2 DEF DeletionOrdered, Gone
<1>7. DeleterKnows'
  <2>1. cache.del => Gone(cache') BY <1>0, Delivered DEF DeletionOrdered
  <2>2. Gone(cache') => cache'.del \/ api.rv = 0 BY <1>0, Delivered DEF Gone, RemovalSeen
  <2> QED BY <1>0, <1>2, <2>1, <2>2 DEF DeleterKnows
<1> QED BY <1>3, <1>4, <1>5, <1>6, <1>7 DEF DeletionInv

\* What users and other writers do to the object
UserOutcome ==
    /\ WorkerStays /\ rpc' = rpc /\ rc' = rc
    /\ Written /\ api'.stage = api.stage /\ api'.state = api.state /\ api'.fin = api.fin
    /\ (api.del => api'.del) /\ api'.ann = api.ann

\* UserDelete and UserTouch are such steps, but for a Backup that goes at once.
LEMMA UserIs ==
    ASSUME TypeOK, UserDelete \/ UserTouch
    PROVE  UserOutcome \/ (UserDelete /\ Remove /\ ~api.fin)
<1>0. api \in Backup /\ api.rv \in Nat /\ api.rv + 1 \in Nat BY CopyTypes
<1>1. CASE UserTouch
  <2> DEFINE b == [api EXCEPT !.rv = api.rv + 1]
  <2>1. /\ b.rv = api.rv + 1 /\ b.stage = api.stage /\ b.state = api.state /\ b.fin = api.fin
        /\ b.del = api.del /\ b.ann = api.ann
    BY <1>0, Revised
  <2>2. /\ api' = b /\ watch' = Append(watch, b) /\ api.rv # 0
        /\ WorkerStays /\ rpc' = rpc /\ rc' = rc
    BY <1>1 DEF UserTouch, WorkerStays, storeVars, workerVars, rcVars, volVars, envVars
  <2> HIDE DEF b
  <2> QED BY <2>1, <2>2 DEF UserOutcome, Written
<1>2. CASE UserDelete
  <2> DEFINE b == [api EXCEPT !.del = TRUE]
  <2>1. /\ b \in Backup /\ b.stage = api.stage /\ b.state = api.state /\ b.fin = api.fin
        /\ b.del /\ b.ann = api.ann
    BY <1>0 DEF Backup
  <2>2. /\ api.rv # 0 /\ WorkerStays /\ rpc' = rpc /\ rc' = rc
        /\ IF api.fin THEN Commit(b) ELSE Remove
    BY <1>2 DEF UserDelete, WorkerStays, storeVars, workerVars, rcVars, volVars, envVars
  <2> HIDE DEF b
  <2>3. Commit(b) => Written /\ Is(b) BY <2>1, <2>2, CommitIs
  <2> QED BY <1>2, <2>1, <2>2, <2>3 DEF UserOutcome, Is
<1> QED BY <1>1, <1>2

\* They keep the deletion in order: a Backup without finalizer has no stage yet, and
\* nobody works on it.
LEMMA UserKeepsDeletion ==
    ASSUME IInv, DeletionInv, TypeOK', UserDelete \/ UserTouch
    PROVE  DeletionInv'
<1>0. TypeOK /\ HandlersHold /\ MarksKept /\ DeletionOrdered /\ FinalizerHeld /\ DeleterKnows
  BY DEF DeletionInv, IInv
<1>1. CASE UserOutcome
  <2>1. UNCHANGED <<cache, pc, w, vdel>> /\ LiveVBCs' = LiveVBCs
    BY <1>1, SameLive DEF UserOutcome, WorkerStays
  <2>2. MarksStay BY <1>1, MarksWritten DEF UserOutcome
  <2> QED BY <1>1, <2>1, <2>2, OthersKeepDeletion DEF UserOutcome
<1>2. CASE UserDelete /\ Remove /\ ~api.fin
  <2>1. api.rv # 0 /\ cache' = cache /\ pc' = pc /\ w' = w /\ vdel' = vdel /\ LiveVBCs' = LiveVBCs
    BY <1>2, SameLive DEF UserDelete, workerVars, volVars
  <2>2. \A c \in Copies : ~c.fin /\ Rank(c) = 0
    BY <1>0, <1>2, <2>1 DEF MarksKept
  <2>3. MarksKept' /\ RemovalSeen' /\ DeletionOrdered' BY <1>0, <1>2, <2>1, <2>2, RemovedKeeps
  <2>4. api'.rv = 0 BY <1>2, EmptyBackup DEF Remove
  <2>5. HandlersHold' /\ DeleterKnows' /\ FinalizerHeld' /\ NothingLeft'
    BY <1>0, <1>2, <2>1, <2>4
       DEF HandlersHold, DeleterKnows, FinalizerHeld, NothingLeft, Gone, DeletionInv
  <2> QED BY <2>3, <2>5 DEF DeletionInv
<1> QED BY <1>0, <1>1, <1>2, UserIs

\* What the volume providers do: only VBCs being deleted leave a phase they ended in.
ProviderOutcome ==
    /\ Kept /\ UNCHANGED <<cache, processed, pc, w, rpc, rc, wanted, attempt, apps, archive>>
    /\ LiveVBCs' \subseteq LiveVBCs /\ vdel' \subseteq vdel
    /\ vdel = {} => \A v \in VBCs : vbc[v] \in {"Completed", "Failed"} => vbc'[v] = vbc[v]

\* The three steps of the providers have such an outcome.
LEMMA ProviderIs ==
    ASSUME TypeOK, ProviderFinishes \/ ProviderDeletes \/ ProviderRemoves
    PROVE  ProviderOutcome
<1>0. vbc \in [VBCs -> VBCPhases] /\ vdel \in SUBSET VBCs /\ VBCs' = VBCs BY DEF TypeOK, VBCs
<1>1. Kept /\ UNCHANGED <<cache, processed, pc, w, rpc, rc, wanted, attempt, apps, archive>>
  BY DEF ProviderFinishes, ProviderDeletes, ProviderRemoves, Kept, apiVars, storeVars,
         workerVars, rcVars, envVars
<1>2. CASE ProviderFinishes
  <2>1. PICK v \in VBCs, phase \in {"Completed", "Failed"} :
           vbc[v] = "New" /\ vbc' = [vbc EXCEPT ![v] = phase]
    BY <1>2 DEF ProviderFinishes
  <2>2. \A x \in VBCs : vbc'[x] = vbc[x] \/ (vbc[x] = "New" /\ x = v) BY <1>0, <2>1
  <2>3. LiveVBCs' \subseteq LiveVBCs BY <1>0, <2>2 DEF LiveVBCs
  <2> QED BY <1>1, <1>2, <2>2, <2>3 DEF ProviderOutcome, ProviderFinishes
<1>3. CASE ProviderDeletes
  <2>1. PICK v \in vdel : vbc[v] \in {"Completed", "Failed"} /\ vbc' = [vbc EXCEPT ![v] = "New"]
    BY <1>3 DEF ProviderDeletes
  <2>2. \A x \in VBCs : vbc'[x] = vbc[x] \/ (vbc[x] # "absent" /\ x = v) BY <1>0, <2>1
  <2>3. LiveVBCs' \subseteq LiveVBCs BY <1>0, <2>2 DEF LiveVBCs
  <2> QED BY <1>1, <1>3, <2>1, <2>3 DEF ProviderOutcome, ProviderDeletes
<1>4. CASE ProviderRemoves
  <2>1. PICK v \in vdel : vbc' = [vbc EXCEPT ![v] = "absent"] /\ vdel' = vdel \ {v}
    BY <1>4 DEF ProviderRemoves
  <2>2. \A x \in VBCs : vbc'[x] = vbc[x] \/ vbc'[x] = "absent" BY <1>0, <2>1
  <2>3. LiveVBCs' \subseteq LiveVBCs BY <1>0, <2>2 DEF LiveVBCs
  <2> QED BY <1>1, <2>1, <2>3 DEF ProviderOutcome
<1> QED BY <1>2, <1>3, <1>4

\* They keep the deletion in order.
LEMMA ProviderKeepsDeletion ==
    ASSUME IInv, DeletionInv, TypeOK', ProviderOutcome
    PROVE  DeletionInv'
<1>1. Written /\ MarksStay BY MarksWritten DEF ProviderOutcome, Written, Kept
<1> QED BY <1>1, OthersKeepDeletion DEF ProviderOutcome

\* Nothing that the invariants speak of changes.
NothingMoves ==
    /\ Kept /\ WorkerStays /\ rpc' = rpc /\ rc' = rc

\* A resync is such a step.
LEMMA IdleIs ==
    ASSUME ReSync \/ UNCHANGED vars
    PROVE  NothingMoves
BY DEF ReSync, vars, NothingMoves, Kept, WorkerStays, apiVars, storeVars, workerVars, rcVars,
       volVars, envVars

\* It keeps the deletion in order.
LEMMA IdleKeepsDeletion ==
    ASSUME IInv, DeletionInv, TypeOK', NothingMoves
    PROVE  DeletionInv'
<1>1. Written /\ MarksStay BY MarksWritten DEF NothingMoves, Written, Kept
<1>2. LiveVBCs' = LiveVBCs BY SameLive DEF NothingMoves, WorkerStays
<1> QED BY <1>1, <1>2, OthersKeepDeletion DEF NothingMoves, WorkerStays

-----------------------------------------------------------------------------
(* The steps of the worker fit its place and copy *)

AllInv == IInv /\ DeletionInv /\ OrderInv /\ PromiseInv

\* What the invariants say of the worker's copy behind the finalizer
LEMMA AtWork ==
    ASSUME AllInv, pc \in SyncPcs, w.rv # 0
    PROVE  /\ api.rv # 0 /\ api.fin /\ w \in Backup /\ Rank(w) \in Nat
           /\ StageAt(pc, w.stage) /\ StateAt(pc, w.state)
           /\ pc \in StartPcs => Rank(w) = 0
           /\ pc = "validated" => Rank(w) <= 1 /\ ~Late(w)
<1>1. api.rv # 0 /\ api.fin BY DEF AllInv, DeletionInv, FinalizerHeld
<1>2. w \in Backup /\ Rank(w) \in Nat BY BackupFields DEF AllInv, IInv, TypeOK
<1>3. StageAt(pc, w.stage) BY DEF AllInv, IInv, WorkerStage
<1>4. StateAt(pc, w.state) BY DEF AllInv, OrderInv, WorkerState
<1>5. StartsEarly BY DEF AllInv, OrderInv
<1> QED BY <1>1, <1>2, <1>3, <1>4, <1>5 DEF StartsEarly

\* A step without a write, and without an effect on the VBCs
LEMMA QuietMove ==
    ASSUME pc \in (SyncPcs \ {"scheduled"}) \cup {"finalizer"},
           NEW next \in (SyncPcs \ {"createVBC", "noVolume"}) \cup {"return"}, NEW b,
           LocalOutcome(next, b), WorkerFrame, VolumesKept, b.rv = w.rv, SameVersion(b, w),
           w.rv # 0 /\ next # "return" => MoveFits(next),
           Held(apps) => Held(apps') \/ (w.rv # 0 /\ pc \in UnfreezePcs), archive = "stored" => archive' = "stored"
    PROVE  QuietStep
<1>1. \/ pc' = next /\ next # "return" /\ w' = b
      \/ pc' = "idle" /\ w' = NoBackup /\ w'.rv = 0
  BY EmptyBackup DEF LocalOutcome, Leads, Stopped
<1>2. /\ pc' \in SyncPcs \cup {"idle"} /\ pc' # "createVBC" /\ pc' # "noVolume"
      /\ w' = NoBackup \/ (w'.rv = w.rv /\ SameVersion(w', w))
      /\ w'.rv # 0 => MoveFits(pc')
  BY <1>1
<1>3. \A v \in VBCs : vbc'[v] = vbc[v] BY DEF VolumesKept
<1> QED BY <1>2, <1>3 DEF QuietStep, LocalOutcome, VolumesKept

\* So is a failed call.
LEMMA FailedMove ==
    ASSUME CallFails, pc \in SyncPcs \ {"scheduled"}
    PROVE  QuietStep
<1>1. LocalOutcome("return", w) /\ WorkerFrame /\ VolumesKept /\ HostsKept BY CallFailsIs
<1>2. SameVersion(w, w) BY DEF SameVersion
<1> QED BY <1>1, <1>2, QuietMove DEF HostsKept

\* The steps of processQueue before the stages begin
LEMMA StartSteps ==
    ASSUME AllInv,
           InitFinalizer \/ InitStatus \/ ValidateBackup \/ EnsureSupportedResourceList
    PROVE  \/ QuietStep
           \/ \E b, next : StatusStep(b, next) \/ PatchStep(b, next)
<1>0. TypeOK /\ api \in Backup /\ w \in Backup BY DEF AllInv, IInv, TypeOK
<1>1. /\ {"initStatus", "validate", "supported", "validated"} \subseteq SyncPcs \ {"scheduled", "createVBC", "noVolume"}
      /\ {"initStatus", "validate", "supported", "finalizer"} \subseteq StartPcs
      /\ "validate" \in StatusNexts /\ "return" \in StatusNexts
      /\ {"initStatus", "validate", "supported"} \cap Locked = {}
  BY DEF SyncPcs, DeletePcs, Pcs, StartPcs, StatusNexts, Locked
<1>s. SameVersion(w, w) BY DEF SameVersion
<1>h. UNCHANGED envVars => HostsKept BY DEF envVars, HostsKept
<1>m. /\ MoveFits("initStatus") <=> (pc = "finalizer" => w.fin) /\ pc \in StartPcs
      /\ MoveFits("validate") <=> (pc = "finalizer" => w.fin) /\ pc \in StartPcs
      /\ MoveFits("supported") <=> (pc = "finalizer" => w.fin) /\ pc \in StartPcs
      /\ pc = "supported" => MoveFits("validated")
  BY <1>1 DEF MoveFits, StateAt, Locked, SnapshotPcs, StartPcs
<1>2. CASE InitFinalizer
  <2>1. CASE w.fin
    <3>1. LocalOutcome("initStatus", w) /\ WorkerFrame /\ VolumesKept /\ HostsKept
      BY <1>2, <1>h, <2>1, LocalIs DEF InitFinalizer
    <3> QED BY <1>1, <1>2, <1>m, <1>s, <2>1, <3>1, QuietMove DEF InitFinalizer, HostsKept
  <2>2. CASE ~w.fin
    <3> DEFINE b == [api EXCEPT !.fin = TRUE]
    <3>1. /\ b \in Backup /\ b.fin /\ b.ann = api.ann /\ b.stage = api.stage /\ b.state = api.state
          /\ b.del = api.del
      BY <1>0 DEF Backup
    <3>2. PatchBackup(b, "initStatus") BY <1>2, <2>2 DEF InitFinalizer
    <3> HIDE DEF b
    <3>3. PatchOutcome(b, "initStatus") /\ WorkerFrame /\ VolumesKept /\ HostsKept
      BY <1>0, <3>1, <3>2, PatchBackupIs
    <3> QED BY <1>2, <2>2, <3>1, <3>3 DEF PatchStep, InitFinalizer
  <2> QED BY <2>1, <2>2
<1>3. CASE InitStatus
  <2> DEFINE b == [w EXCEPT !.stage = IF @ = "unset" THEN "Initial" ELSE @]
  <2>1. /\ b \in Backup /\ b.rv = w.rv /\ b.state = w.state /\ b.ann = w.ann /\ b.fin = w.fin
        /\ b.del = w.del /\ b.stage = IF w.stage = "unset" THEN "Initial" ELSE w.stage
    BY <1>0, Names DEF Backup
  <2>2. /\ pc = "initStatus"
        /\ \/ WriteStatus(b, "validate", "retry") /\ UNCHANGED <<cache, rcVars, volVars, envVars, crashes>>
           \/ Local("validate", b) /\ UNCHANGED envVars
    BY <1>3 DEF InitStatus
  <2> HIDE DEF b
  <2>3. SameVersion(b, w) BY <2>1 DEF SameVersion
  <2>4. CASE Local("validate", b) /\ UNCHANGED envVars
    <3>1. LocalOutcome("validate", b) /\ WorkerFrame /\ VolumesKept /\ HostsKept
      BY <1>h, <2>4, LocalIs
    <3>2. MoveFits("validate") BY <1>1, <1>m, <2>2
    <3> QED BY <1>1, <2>1, <2>2, <2>3, <3>1, <3>2, QuietMove DEF HostsKept
  <2>5. CASE WriteStatus(b, "validate", "retry") /\ UNCHANGED <<cache, rcVars, volVars, envVars, crashes>>
    <3>1. StatusOutcome(b, "validate") /\ WorkerFrame /\ VolumesKept /\ HostsKept
      BY <1>0, <2>1, <2>5, WriteStatusIs
         DEF WorkerFrame, VolumesKept, HostsKept, rcVars, volVars, envVars
    <3>2. w.rv # 0 => StatusFits(b, "validate")
      <4>1. w.rv # 0 => Rank(w) = 0 BY <1>1, <2>2, AtWork
      <4>2. Rank(w) = 0 => b.stage \in {"unset", "Initial"} /\ Rank(b) = 0
        BY <1>0, <2>1, RankOf
      <4> QED BY <1>1, <2>2, <4>1, <4>2
              DEF StatusFits, Follows, Late, StateAt, VolumesFailed, MayTakeSnapshots, Archived,
                  VolumesPassed
    <3> QED BY <1>1, <2>1, <2>2, <3>1, <3>2 DEF StatusStep
  <2> QED BY <2>2, <2>4, <2>5
<1>4. CASE ValidateBackup
  <2> DEFINE b == [Updated(w, "unset", "Failed") EXCEPT !.verr = TRUE]
  <2>1. /\ pc = "validate"
        /\ \/ Local("supported", w) /\ UNCHANGED envVars
           \/ WriteStatus(b, "return", "drop") /\ UNCHANGED <<cache, rcVars, volVars, envVars, crashes>>
    BY <1>4 DEF ValidateBackup
  <2>2. /\ b \in Backup /\ b.rv = w.rv /\ b.stage = w.stage
    <3>1. /\ Updated(w, "unset", "Failed") \in Backup /\ Updated(w, "unset", "Failed").rv = w.rv
          /\ Updated(w, "unset", "Failed").stage
               = IF toOrdinal(w.stage) < toOrdinal("unset") THEN "unset" ELSE w.stage
      BY <1>0, Names, UpdatedType
    <3>2. ~(toOrdinal(w.stage) < toOrdinal("unset")) BY <1>0, OrdinalType, OrdinalValues DEF Backup
    <3> QED BY <3>1, <3>2 DEF Backup
  <2> HIDE DEF b
  <2>3. CASE Local("supported", w) /\ UNCHANGED envVars
    <3>1. LocalOutcome("supported", w) /\ WorkerFrame /\ VolumesKept /\ HostsKept
      BY <1>h, <2>3, LocalIs
    <3>2. MoveFits("supported") BY <1>1, <1>m, <2>1
    <3> QED BY <1>1, <1>s, <2>1, <3>1, <3>2, QuietMove DEF HostsKept
  <2>4. CASE WriteStatus(b, "return", "drop") /\ UNCHANGED <<cache, rcVars, volVars, envVars, crashes>>
    <3>1. StatusOutcome(b, "return") /\ WorkerFrame /\ VolumesKept /\ HostsKept
      BY <1>0, <2>2, <2>4, WriteStatusIs
         DEF WorkerFrame, VolumesKept, HostsKept, rcVars, volVars, envVars
    <3>2. w.rv # 0 => StatusFits(b, "return")
      <4>1. w.rv # 0 => Rank(w) = 0 BY <1>1, <2>1, AtWork
      <4>2. Rank(w) = 0 => b.stage \in {"unset", "Initial"} /\ Rank(b) = 0
        BY <1>0, <2>2, RankOf
      <4> QED BY <2>1, <4>1, <4>2
              DEF StatusFits, Follows, Late, StateAt, VolumesFailed, MayTakeSnapshots, Archived,
                  VolumesPassed, StartPcs
    <3> QED BY <1>1, <2>1, <2>2, <3>1, <3>2 DEF StatusStep
  <2> QED BY <2>1, <2>3, <2>4
<1>5. CASE EnsureSupportedResourceList
  <2> DEFINE b == [api EXCEPT !.ann = @ \cup {"backup-resources"}]
  <2>1. /\ b \in Backup /\ b.fin = api.fin /\ b.ann = api.ann \cup {"backup-resources"}
        /\ b.stage = api.stage /\ b.state = api.state /\ b.del = api.del
    BY <1>0 DEF Backup, Annotations
  <2>2. /\ pc = "supported"
        /\ PatchBackup(b, "validated") \/ (Local("validated", w) /\ UNCHANGED envVars)
    BY <1>5 DEF EnsureSupportedResourceList
  <2> HIDE DEF b
  <2>3. CASE PatchBackup(b, "validated")
    <3>1. PatchOutcome(b, "validated") /\ WorkerFrame /\ VolumesKept /\ HostsKept
      BY <1>0, <2>1, <2>3, PatchBackupIs
    <3> QED BY <2>1, <2>2, <3>1 DEF PatchStep
  <2>4. CASE Local("validated", w) /\ UNCHANGED envVars
    <3>1. LocalOutcome("validated", w) /\ WorkerFrame /\ VolumesKept /\ HostsKept
      BY <1>h, <2>4, LocalIs
    <3> QED BY <1>1, <1>m, <1>s, <2>2, <3>1, QuietMove DEF HostsKept
  <2> QED BY <2>2, <2>3, <2>4
<1> QED BY <1>2, <1>3, <1>4, <1>5

\* The calls that update the status, and where they lead
LEMMA StatusPcs ==
    /\ {"validated", "initial", "preProcessing", "preFailed", "toVolumes", "volumes", "collect",
        "scheduled", "volSynced", "postFailed", "toResources", "resOK", "resFail", "resSynced",
        "finished"} \subseteq SyncPcs \ (Locked \cup StartPcs)
    /\ {"sync", "preProcessing", "preExec", "preReverse", "volumes", "volumeGroup", "volSynced",
        "postExec", "resources", "resSynced", "finished", "return"} \subseteq StatusNexts \ StartPcs
    /\ {"preProcessing", "preExec", "preReverse", "volumes", "volumeGroup", "volSynced", "postExec",
        "resources", "resSynced", "finished", "return", "sync"} \cap {"validate", "validated"} = {}
BY DEF SyncPcs, DeletePcs, Pcs, Locked, StartPcs, StatusNexts

\* updateBackupStatus from a copy that has not failed for good
LEMMA UpdateStep ==
    ASSUME AllInv, pc \in SyncPcs \ Locked, NEW next \in StatusNexts \ StartPcs,
           next # "volumeGroup", NEW stage \in Stages, NEW state \in States \ {"unset"}, NEW s \in Stages,
           UpdateStatus(stage, state, next),
           w.rv # 0 =>
              /\ s = IF toOrdinal(w.stage) < toOrdinal(stage) THEN stage ELSE w.stage
              /\ ~Late(w) /\ (Rank(w) = 0 => state # "Failed") /\ StateAt(next, state)
              /\ s \in {"Volumes", "Finished"} => state # "Failed"
              /\ s = "Volumes" /\ state = "New" => Held(apps)
              /\ s = "Finished" \/ (s = "Resources" /\ state = "Completed") => archive = "stored" \/ Gone(api)
              /\ s \in {"PostHook", "Resources", "Finished"} \/ (s = "Volumes" /\ state = "Completed")
                    => VolumesDone(w)
              /\ pc = "scheduled" => state # w.state
    PROVE  \E b : StatusStep(b, next)
<1> DEFINE b == Updated(w, stage, state)
<1>0. TypeOK /\ w \in Backup BY DEF AllInv, IInv, TypeOK
<1>1. /\ b \in Backup /\ b.rv = w.rv /\ toOrdinal(b.stage) >= toOrdinal(w.stage)
      /\ b.stage = IF toOrdinal(w.stage) < toOrdinal(stage) THEN stage ELSE w.stage
      /\ b.state = state
  <2>1. b.state = state BY <1>0 DEF Updated, Backup
  <2> QED BY <1>0, <2>1, UpdatedType
<1>2. StatusOutcome(b, next) /\ WorkerFrame /\ VolumesKept /\ HostsKept BY <1>0, UpdateStatusIs
<1> HIDE DEF b
<1>3. Rank(w) <= Rank(b) BY <1>0, <1>1, RankType
<1>4. w.rv # 0 => StatusFits(b, next)
  BY <1>1, <1>3
     DEF StatusFits, Follows, Late, VolumesFailed, MayTakeSnapshots, Archived, VolumesPassed
<1>5. StatusStep(b, next) BY <1>1, <1>2, <1>4 DEF StatusStep
<1> QED BY <1>5

\* The status updates up to the volumes
LEMMA EarlyUpdates ==
    ASSUME AllInv,
           Validated \/ SyncInitial \/ PreHookProcessing \/ PreHookFailed \/ ToVolumes \/ Scheduled
    PROVE  \E b, next : StatusStep(b, next)
<1>0. w \in Backup /\ Quiesced BY DEF AllInv, IInv, TypeOK, PromiseInv
<1>1. /\ w.stage \in Stages /\ toOrdinal(w.stage) \in -1..5
      /\ \A x \in {"unset", "New", "Processing", "Completed", "Failed"} \ {"unset"} :
            x \in States \ {"unset"}
  BY <1>0, OrdinalType DEF Backup, States
<1>2. CASE Validated
  <2>1. pc = "validated" /\ UpdateStatus("unset", "Completed", "sync") BY <1>2 DEF Validated
  <2>2. pc \in SyncPcs \ Locked /\ "sync" \in StatusNexts \ StartPcs BY <2>1, StatusPcs
  <2>3. w.rv # 0 => Rank(w) <= 1 /\ ~Late(w) BY <2>1, <2>2, AtWork
  <2>4. w.stage \notin {"Volumes", "PostHook", "Resources", "Finished"} \/ ~(Rank(w) <= 1)
    BY <1>0, RankOf
  <2>5. ~(toOrdinal(w.stage) < toOrdinal("unset")) BY <1>1, OrdinalValues
  <2>6. StateAt("sync", "Completed") BY DEF StateAt
  <2> QED BY <1>1, <2>1, <2>2, <2>3, <2>4, <2>5, <2>6, UpdateStep, Names
<1>3. CASE SyncInitial
  <2>1. pc = "initial" /\ UpdateStatus("PreHook", "New", "preProcessing") BY <1>3 DEF SyncInitial
  <2>2. pc \in SyncPcs \ Locked /\ "preProcessing" \in StatusNexts \ StartPcs BY <2>1, StatusPcs
  <2>3. w.rv # 0 => w.stage = "Initial" BY <2>1, <2>2, AtWork DEF StageAt
  <2>4. w.stage = "Initial" => Rank(w) = 0 /\ toOrdinal(w.stage) < toOrdinal("PreHook")
    BY <1>0, RankOf, OrdinalValues
  <2>5. StateAt("preProcessing", "New") BY DEF StateAt
  <2>6. Rank(w) = 0 => ~Late(w) BY DEF Late
  <2> QED BY <1>1, <2>1, <2>2, <2>3, <2>4, <2>5, <2>6, UpdateStep, Names
<1>4. CASE PreHookProcessing
  <2>1. pc = "preProcessing" /\ UpdateStatus("unset", "Processing", "preExec")
    BY <1>4 DEF PreHookProcessing
  <2>2. pc \in SyncPcs \ Locked /\ "preExec" \in StatusNexts \ StartPcs BY <2>1, StatusPcs
  <2>3. w.rv # 0 => w.stage = "PreHook" /\ w.state # "Failed"
    BY <2>1, <2>2, AtWork DEF StageAt, StateAt
  <2>5. StateAt("preExec", "Processing") BY DEF StateAt
  <2>6. w.state # "Failed" => ~Late(w) BY DEF Late
  <2>7. ~(toOrdinal(w.stage) < toOrdinal("unset")) BY <1>1, OrdinalValues
  <2> QED BY <1>1, <2>1, <2>2, <2>3, <2>5, <2>6, <2>7, UpdateStep, Names
<1>5. CASE PreHookFailed
  <2>1. pc = "preFailed" /\ UpdateStatus("unset", "Failed", "preReverse") BY <1>5 DEF PreHookFailed
  <2>2. pc \in SyncPcs \ Locked /\ "preReverse" \in StatusNexts \ StartPcs BY <2>1, StatusPcs
  <2>3. w.rv # 0 => w.stage = "PreHook" /\ w.state # "Failed"
    BY <2>1, <2>2, AtWork DEF StageAt, StateAt
  <2>4. w.stage = "PreHook" => Rank(w) # 0 BY <1>0, RankOf
  <2>5. StateAt("preReverse", "Failed") BY DEF StateAt
  <2>6. w.state # "Failed" => ~Late(w) BY DEF Late
  <2>7. ~(toOrdinal(w.stage) < toOrdinal("unset")) BY <1>1, OrdinalValues
  <2> QED BY <1>1, <2>1, <2>2, <2>3, <2>4, <2>5, <2>6, <2>7, UpdateStep, Names
<1>6. CASE ToVolumes
  <2>1. pc = "toVolumes" /\ UpdateStatus("Volumes", "New", "volumes") BY <1>6 DEF ToVolumes
  <2>2. pc \in SyncPcs \ Locked /\ "volumes" \in StatusNexts \ StartPcs BY <2>1, StatusPcs
  <2>3. w.rv # 0 => w.stage = "PreHook" /\ w.state # "Failed"
    BY <2>1, <2>2, AtWork DEF StageAt, StateAt
  <2>4. w.stage = "PreHook" => toOrdinal(w.stage) < toOrdinal("Volumes") BY OrdinalValues
  <2>5. StateAt("volumes", "New") BY DEF StateAt
  <2>6. w.state # "Failed" => ~Late(w) BY DEF Late
  <2>7. w.rv # 0 => Held(apps) BY <1>0, <2>1 DEF Quiesced
  <2> QED BY <1>1, <2>1, <2>2, <2>3, <2>4, <2>5, <2>6, <2>7, UpdateStep, Names
<1>7. CASE Scheduled
  <2>1. pc = "scheduled" /\ UpdateStatus("unset", "Processing", "volSynced") BY <1>7 DEF Scheduled
  <2>2. pc \in SyncPcs \ Locked /\ "volSynced" \in StatusNexts \ StartPcs BY <2>1, StatusPcs
  <2>3. w.rv # 0 => w.stage = "Volumes" /\ w.state = "New"
    BY <2>1, <2>2, AtWork DEF StageAt, StateAt
  <2>5. StateAt("volSynced", "Processing") BY DEF StateAt
  <2>6. w.state # "Failed" => ~Late(w) BY DEF Late
  <2>7. ~(toOrdinal(w.stage) < toOrdinal("unset")) BY <1>1, OrdinalValues
  <2> QED BY <1>1, <2>1, <2>2, <2>3, <2>5, <2>6, <2>7, UpdateStep, Names
<1> QED BY <1>2, <1>3, <1>4, <1>5, <1>6, <1>7

\* The status updates behind the volumes
LEMMA LateUpdates ==
    ASSUME AllInv,
           PostHookFailed \/ ToResources \/ BackupMetadataDone \/ BackupMetadataFailed \/ Finish
    PROVE  \E b, next : StatusStep(b, next)
<1>0. w \in Backup /\ ArchiveKept BY DEF AllInv, IInv, TypeOK, PromiseInv
<1>1. /\ w.stage \in Stages /\ toOrdinal(w.stage) \in -1..5
      /\ \A x \in {"unset", "New", "Processing", "Completed", "Failed"} \ {"unset"} :
            x \in States \ {"unset"}
  BY <1>0, OrdinalType DEF Backup, States
<1>u. ~(toOrdinal(w.stage) < toOrdinal("unset")) BY <1>1, OrdinalValues
<1>l. w.state # "Failed" => ~Late(w) BY DEF Late
<1>v. w.stage \in {"PostHook", "Resources", "Finished"} => VolumesDone(w)
  BY DEF VolumesDone, VolumesPassed
<1>2. CASE PostHookFailed
  <2>1. pc = "postFailed" /\ UpdateStatus("unset", "Failed", "return") BY <1>2 DEF PostHookFailed
  <2>2. pc \in SyncPcs \ Locked /\ "return" \in StatusNexts \ StartPcs BY <2>1, StatusPcs
  <2>3. w.rv # 0 => w.stage = "PostHook" /\ w.state # "Failed"
    BY <2>1, <2>2, AtWork DEF StageAt, StateAt
  <2>4. w.stage = "PostHook" => Rank(w) # 0 BY <1>0, RankOf
  <2>5. StateAt("return", "Failed") BY DEF StateAt
  <2> QED BY <1>1, <1>u, <1>l, <1>v, <2>1, <2>2, <2>3, <2>4, <2>5, UpdateStep, Names
<1>3. CASE ToResources
  <2>1. pc = "toResources" /\ UpdateStatus("Resources", "New", "resources") BY <1>3 DEF ToResources
  <2>2. pc \in SyncPcs \ Locked /\ "resources" \in StatusNexts \ StartPcs BY <2>1, StatusPcs
  <2>3. w.rv # 0 => w.stage = "PostHook" /\ w.state # "Failed"
    BY <2>1, <2>2, AtWork DEF StageAt, StateAt
  <2>4. w.stage = "PostHook" => toOrdinal(w.stage) < toOrdinal("Resources") BY OrdinalValues
  <2>5. StateAt("resources", "New") BY DEF StateAt
  <2> QED BY <1>1, <1>l, <1>v, <2>1, <2>2, <2>3, <2>4, <2>5, UpdateStep, Names
<1>4. CASE BackupMetadataDone
  <2>1. pc = "resOK" /\ UpdateStatus("unset", "Completed", "resSynced") BY <1>4 DEF BackupMetadataDone
  <2>2. pc \in SyncPcs \ Locked /\ "resSynced" \in StatusNexts \ StartPcs BY <2>1, StatusPcs
  <2>3. w.rv # 0 => w.stage = "Resources" /\ w.state # "Failed"
    BY <2>1, <2>2, AtWork DEF StageAt, StateAt
  <2>4. w.rv # 0 => archive = "stored" \/ Gone(api) BY <1>0, <2>1 DEF ArchiveKept
  <2>5. StateAt("resSynced", "Completed") BY DEF StateAt
  <2> QED BY <1>1, <1>u, <1>l, <1>v, <2>1, <2>2, <2>3, <2>4, <2>5, UpdateStep, Names
<1>5. CASE BackupMetadataFailed
  <2>1. pc = "resFail" /\ UpdateStatus("unset", "Failed", "resSynced") BY <1>5 DEF BackupMetadataFailed
  <2>2. pc \in SyncPcs \ Locked /\ "resSynced" \in StatusNexts \ StartPcs BY <2>1, StatusPcs
  <2>3. w.rv # 0 => w.stage = "Resources" /\ w.state # "Failed"
    BY <2>1, <2>2, AtWork DEF StageAt, StateAt
  <2>4. w.stage = "Resources" => Rank(w) # 0 BY <1>0, RankOf
  <2>5. StateAt("resSynced", "Failed") BY DEF StateAt
  <2> QED BY <1>1, <1>u, <1>l, <1>v, <2>1, <2>2, <2>3, <2>4, <2>5, UpdateStep, Names
<1>6. CASE Finish
  <2>1. pc = "finished" /\ UpdateStatus("Finished", "Completed", "return") BY <1>6 DEF Finish
  <2>2. pc \in SyncPcs \ Locked /\ "return" \in StatusNexts \ StartPcs BY <2>1, StatusPcs
  <2>3. w.rv # 0 => w.stage = "Finished" /\ w.state # "Failed"
    BY <2>1, <2>2, AtWork DEF StageAt, StateAt
  <2>4. w.stage = "Finished" => archive = "stored" \/ Gone(api) BY <1>0 DEF ArchiveKept, Archived
  <2>5. StateAt("return", "Completed") BY DEF StateAt
  <2> QED BY <1>1, <1>l, <1>v, <2>1, <2>2, <2>3, <2>4, <2>5, UpdateStep, Names
<1> QED BY <1>2, <1>3, <1>4, <1>5, <1>6

\* A step without a write that keeps the worker's copy, past the start
LEMMA LocalStep ==
    ASSUME pc \in SyncPcs \ (StartPcs \cup {"scheduled"}), NEW b,
           NEW next \in (SyncPcs \ (StartPcs \cup Locked \cup {"sync", "validated"})) \cup {"return"},
           Local(next, b), b.rv = w.rv, SameVersion(b, w),
           w.rv # 0 /\ next # "return" =>
              /\ StateAt(next, w.state)
              /\ next = "volumes" => pc = "sync"
              /\ next = "collect" => pc \in SnapshotPcs
              /\ next = "toVolumes" => Held(apps')
              /\ next = "resOK" => archive' = "stored",
           Held(apps) => Held(apps') \/ (w.rv # 0 /\ pc \in UnfreezePcs), archive = "stored" => archive' = "stored"
    PROVE  QuietStep
<1>1. LocalOutcome(next, b) /\ WorkerFrame /\ VolumesKept BY LocalIs
<1>2. next \notin Locked /\ next \notin StartPcs /\ (next \in SnapshotPcs => next \in {"volumes", "collect"})
  BY PcSets DEF SnapshotPcs, Locked, StartPcs, Pcs
<1>3. pc # "finalizer" BY PcSets
<1>4. w.rv # 0 /\ next # "return" => MoveFits(next)
  BY <1>2, <1>3 DEF MoveFits, SnapshotPcs
<1> QED BY <1>1, <1>2, <1>4, QuietMove DEF Locked

\* The hooks, the entry of syncBackup and the streaming of the metadata
LEMMA LocalSteps ==
    ASSUME AllInv,
           \/ SyncBackup \/ ExecutePreHooks \/ ReversePreHooks \/ ReverseVolumeHooks
           \/ ExecutePostHooks
    PROVE  QuietStep
<1>0. SameVersion(w, w) BY DEF SameVersion
<1>h. UNCHANGED envVars => apps' = apps /\ archive' = archive BY DEF envVars
<1>p. /\ {"sync", "preExec", "preReverse", "volReverse", "postExec"} \subseteq
            SyncPcs \ (StartPcs \cup {"scheduled"})
      /\ {"initial", "preProcessing", "volumes", "postExec", "resources", "finished", "toVolumes",
          "preFailed", "annFailHooks", "toResources", "postFailed", "return"} \subseteq
            (SyncPcs \ (StartPcs \cup Locked \cup {"sync", "validated"})) \cup {"return"}
      /\ UnfreezePcs = {"preReverse", "volReverse", "postExec"}
  BY DEF SyncPcs, DeletePcs, Pcs, StartPcs, Locked, UnfreezePcs
<1>w. pc \in SyncPcs /\ w.rv # 0 => StateAt(pc, w.state) BY AtWork
<1>a. apps \in Apps BY DEF AllInv, IInv, TypeOK
<1>r. ASSUME NEW ok, NEW failed, RunPostHooks(ok, failed)
      PROVE  /\ Local(ok, w) \/ Local(failed, w)
             /\ Held(apps) => Held(apps') \/ w.rv # 0
             /\ archive' = archive
  <2>1. apps' = apps \/ w.rv # 0 BY <1>r, Zenon DEF RunPostHooks
  <2> QED BY <1>a, <1>r, <2>1, PostHooksRun, Zenon
<1>2. CASE SyncBackup
  <2>1. pc = "sync" /\ Local(SyncEntry(w), w) /\ UNCHANGED envVars BY <1>2 DEF SyncBackup
  <2>2. /\ SyncEntry(w) \in {"initial", "preProcessing", "volumes", "postExec", "resources",
                             "finished", "return"}
        /\ SyncEntry(w) \in {"return", "volumes"} \/ w.state # "Failed"
    BY DEF SyncEntry
  <2>3. StateAt(SyncEntry(w), w.state) BY <2>2 DEF StateAt
  <2> QED BY <1>0, <1>h, <1>p, <2>1, <2>2, <2>3, LocalStep
<1>3. CASE ExecutePreHooks
  <2>1. pc = "preExec" /\ archive' = archive BY <1>3 DEF ExecutePreHooks
  <2>3. /\ \/ Local("toVolumes", w) /\ (w.rv # 0 => Held(apps'))
           \/ Local("preFailed", w)
        /\ Held(apps) => Held(apps')
    BY <1>3, <1>a, PreHooksRun, Zenon
  <2>4. w.rv # 0 => w.state # "Failed" BY <1>p, <1>w, <2>1 DEF StateAt
  <2>5. w.state # "Failed" => StateAt("toVolumes", w.state) /\ StateAt("preFailed", w.state)
    BY DEF StateAt
  <2> QED BY <1>0, <1>p, <2>1, <2>3, <2>4, <2>5, LocalStep
<1>4. CASE ReversePreHooks
  <2>1. pc = "preReverse" /\ RunPostHooks("return", "return") BY <1>4 DEF ReversePreHooks
  <2>2. Local("return", w) /\ (Held(apps) => Held(apps') \/ w.rv # 0) /\ archive' = archive BY <1>r, <2>1
  <2> QED BY <1>0, <1>p, <2>1, <2>2, LocalStep
<1>5. CASE ReverseVolumeHooks
  <2>1. pc = "volReverse" /\ RunPostHooks("annFailHooks", "annFailHooks")
    BY <1>5 DEF ReverseVolumeHooks
  <2>2. Local("annFailHooks", w) /\ (Held(apps) => Held(apps') \/ w.rv # 0) /\ archive' = archive
    BY <1>r, <2>1
  <2>3. w.rv # 0 => w.state = "Failed" BY <1>p, <1>w, <2>1 DEF StateAt
  <2>4. w.state = "Failed" => StateAt("annFailHooks", w.state) BY DEF StateAt
  <2> QED BY <1>0, <1>p, <2>1, <2>2, <2>3, <2>4, LocalStep
<1>6. CASE ExecutePostHooks
  <2>1. pc = "postExec" /\ RunPostHooks("toResources", "postFailed") BY <1>6 DEF ExecutePostHooks
  <2>2. /\ Local("toResources", w) \/ Local("postFailed", w)
        /\ Held(apps) => Held(apps') \/ w.rv # 0
        /\ archive' = archive
    BY <1>r, <2>1
  <2>3. w.rv # 0 => w.state # "Failed" BY <1>p, <1>w, <2>1 DEF StateAt
  <2>4. w.state # "Failed" => StateAt("toResources", w.state) /\ StateAt("postFailed", w.state)
    BY DEF StateAt
  <2>5. CASE Local("toResources", w) BY <1>0, <1>p, <2>1, <2>2, <2>3, <2>4, <2>5, LocalStep
  <2>6. CASE Local("postFailed", w) BY <1>0, <1>p, <2>1, <2>2, <2>3, <2>4, <2>6, LocalStep
  <2> QED BY <2>2, <2>5, <2>6
<1> QED BY <1>2, <1>3, <1>4, <1>5, <1>6

\* The steps that update the status, or go on without it
LEMMA BranchSteps ==
    ASSUME AllInv, SyncVolumeBackup \/ VolumesSynced \/ BackupMetadata \/ ResourcesSynced
    PROVE  QuietStep \/ \E b, next : StatusStep(b, next)
<1>0. /\ w \in Backup /\ ArchiveKept /\ SameVersion(w, w) /\ FailedNotCompleted
      /\ UNCHANGED envVars => apps' = apps /\ archive' = archive
  BY DEF AllInv, IInv, TypeOK, PromiseInv, OrderInv, SameVersion, envVars
<1>1. /\ w.stage \in Stages /\ toOrdinal(w.stage) \in -1..5
      /\ \A x \in {"unset", "New", "Processing", "Completed", "Failed"} \ {"unset"} :
            x \in States \ {"unset"}
  BY <1>0, OrdinalType DEF Backup, States
<1>p. /\ {"volumes", "volSynced", "resources", "resSynced"} \subseteq
            SyncPcs \ (StartPcs \cup {"scheduled"})
      /\ {"volSynced", "collect", "volReverse", "resOK", "resFail", "resSynced", "return"} \subseteq
            (SyncPcs \ (StartPcs \cup Locked \cup {"sync", "validated"})) \cup {"return"}
      /\ "volumes" \in SnapshotPcs
  BY DEF SyncPcs, DeletePcs, Pcs, StartPcs, Locked, SnapshotPcs
<1>w. pc \in SyncPcs /\ w.rv # 0 => StageAt(pc, w.stage) /\ StateAt(pc, w.state) BY AtWork
<1>l. w.state # "Failed" => ~Late(w) BY DEF Late
<1>v. /\ VolumesPassed(w) \/ "volume-backup-completed" \in w.ann => VolumesDone(w)
      /\ w.stage = "Resources" \/ (w.stage = "Volumes" /\ w.state = "Completed") => VolumesPassed(w)
  BY DEF VolumesDone, VolumesPassed
<1>2. CASE SyncVolumeBackup
  <2>1. /\ pc = "volumes"
        /\ \/ Local("volSynced", w) /\ UNCHANGED envVars
           \/ w.state = "New" /\ Local("collect", w) /\ UNCHANGED envVars
           \/ /\ w.state # "Completed" /\ "volume-backup-completed" \in w.ann
              /\ UpdateStatus("unset", "Completed", "volSynced")
    BY <1>2 DEF SyncVolumeBackup
  <2>2. CASE Local("volSynced", w) /\ UNCHANGED envVars
    <3>1. StateAt("volSynced", w.state) BY DEF StateAt
    <3> QED BY <1>0, <1>p, <2>1, <2>2, <3>1, LocalStep
  <2>3. CASE w.state = "New" /\ Local("collect", w) /\ UNCHANGED envVars
    <3>1. StateAt("collect", w.state) BY <2>3 DEF StateAt
    <3> QED BY <1>0, <1>p, <2>1, <2>3, <3>1, LocalStep
  <2>4. CASE /\ w.state # "Completed" /\ "volume-backup-completed" \in w.ann
             /\ UpdateStatus("unset", "Completed", "volSynced")
    <3>1. pc \in SyncPcs \ Locked /\ "volSynced" \in StatusNexts \ StartPcs BY <2>1, StatusPcs
    <3>2. w.rv # 0 => w.stage = "Volumes" BY <1>w, <2>1, <3>1 DEF StageAt
    <3>3. w.rv # 0 => ~VolumesFailed(w) BY <1>0, <2>1, <2>4 DEF FailedNotCompleted
    <3>4. w.rv # 0 /\ w.stage = "Volumes" => ~Late(w) BY <3>3 DEF VolumesFailed, Late
    <3>5. ~(toOrdinal(w.stage) < toOrdinal("unset")) BY <1>1, OrdinalValues
    <3>6. StateAt("volSynced", "Completed") BY DEF StateAt
    <3> QED BY <1>1, <1>v, <2>1, <2>4, <3>1, <3>2, <3>4, <3>5, <3>6, UpdateStep, Names
  <2> QED BY <2>1, <2>2, <2>3, <2>4
<1>3. CASE VolumesSynced
  <2>1. /\ pc = "volSynced"
        /\ \/ w.state = "Completed" /\ UpdateStatus("PostHook", "Processing", "postExec")
           \/ w.state = "Failed" /\ Local("volReverse", w) /\ UNCHANGED envVars
           \/ Local("return", w) /\ UNCHANGED envVars
    BY <1>3 DEF VolumesSynced
  <2>2. CASE w.state = "Completed" /\ UpdateStatus("PostHook", "Processing", "postExec")
    <3>1. pc \in SyncPcs \ Locked /\ "postExec" \in StatusNexts \ StartPcs BY <2>1, StatusPcs
    <3>2. w.rv # 0 => w.stage = "Volumes" BY <1>w, <2>1, <3>1 DEF StageAt
    <3>3. w.stage = "Volumes" => toOrdinal(w.stage) < toOrdinal("PostHook") BY OrdinalValues
    <3>4. StateAt("postExec", "Processing") BY DEF StateAt
    <3> QED BY <1>1, <1>l, <1>v, <2>1, <2>2, <3>1, <3>2, <3>3, <3>4, UpdateStep, Names
  <2>3. CASE w.state = "Failed" /\ Local("volReverse", w) /\ UNCHANGED envVars
    <3>1. StateAt("volReverse", w.state) BY <2>3 DEF StateAt
    <3> QED BY <1>0, <1>p, <2>1, <2>3, <3>1, LocalStep
  <2>4. CASE Local("return", w) /\ UNCHANGED envVars BY <1>0, <1>p, <2>1, <2>4, LocalStep
  <2> QED BY <2>1, <2>2, <2>3, <2>4
<1>4. CASE BackupMetadata
  <2> DEFINE b == [w EXCEPT !.verr = FALSE]
  <2>1. /\ pc = "resources"
        /\ \/ Local("resSynced", w) /\ UNCHANGED archive
           \/ Local("resOK", b) /\ archive' = "stored"
           \/ Local("resFail", b) /\ archive' \in {archive, "stored"}
        /\ apps' = apps
    BY <1>4 DEF BackupMetadata
  <2>2. b.rv = w.rv /\ SameVersion(b, w) BY <1>0 DEF SameVersion, Backup
  <2> HIDE DEF b
  <2>3. /\ Local("resSynced", w) \/ (Local("resOK", b) /\ archive' = "stored") \/ Local("resFail", b)
        /\ archive = "stored" => archive' = "stored"
    <3>1. archive' \in {archive, "stored"} => (archive = "stored" => archive' = "stored") OBVIOUS
    <3> QED BY <2>1, <3>1, Zenon
  <2>4. w.rv # 0 => w.state # "Failed" BY <1>p, <1>w, <2>1 DEF StateAt
  <2>5. w.state # "Failed" => StateAt("resOK", w.state) /\ StateAt("resFail", w.state)
    BY DEF StateAt
  <2>6. StateAt("resSynced", w.state) BY DEF StateAt
  <2>7. CASE Local("resSynced", w) BY <1>0, <1>p, <2>1, <2>3, <2>6, <2>7, LocalStep
  <2>8. CASE Local("resOK", b) /\ archive' = "stored" BY <1>p, <2>1, <2>2, <2>4, <2>5, <2>8, LocalStep
  <2>9. CASE Local("resFail", b) BY <1>p, <2>1, <2>2, <2>3, <2>4, <2>5, <2>9, LocalStep
  <2> QED BY <2>3, <2>7, <2>8, <2>9
<1>5. CASE ResourcesSynced
  <2>1. /\ pc = "resSynced"
        /\ \/ w.state = "Completed" /\ UpdateStatus("Finished", "New", "finished")
           \/ Local("return", w) /\ UNCHANGED envVars
    BY <1>5 DEF ResourcesSynced
  <2>2. CASE w.state = "Completed" /\ UpdateStatus("Finished", "New", "finished")
    <3>1. pc \in SyncPcs \ Locked /\ "finished" \in StatusNexts \ StartPcs BY <2>1, StatusPcs
    <3>2. w.rv # 0 => w.stage = "Resources" BY <1>w, <2>1, <3>1 DEF StageAt
    <3>3. w.stage = "Resources" => toOrdinal(w.stage) < toOrdinal("Finished") BY OrdinalValues
    <3>4. StateAt("finished", "New") BY DEF StateAt
    <3>5. w.stage = "Resources" => archive = "stored" \/ Gone(api)
      BY <1>0, <2>2 DEF ArchiveKept, Archived
    <3> QED BY <1>1, <1>l, <1>v, <2>1, <2>2, <3>1, <3>2, <3>3, <3>4, <3>5, UpdateStep, Names
  <2>3. CASE Local("return", w) /\ UNCHANGED envVars BY <1>0, <1>p, <2>1, <2>3, LocalStep
  <2> QED BY <2>1, <2>2, <2>3
<1> QED BY <1>2, <1>3, <1>4, <1>5

\* Snapshots and VBCs
LEMMA SnapshotSteps ==
    ASSUME AllInv,
           \/ CollectResources \/ TakeSnapshots \/ CreateVBC \/ CreateVBCFails
           \/ AnnotateNoVolume \/ AnnotateFailHooks
    PROVE  QuietStep \/ \E b, next : StatusStep(b, next) \/ AnnotateStep(b, next)
<1>0. /\ TypeOK /\ w \in Backup /\ api \in Backup /\ Quiesced /\ HandlersHold
      /\ SameVersion(w, w)
  BY DEF AllInv, IInv, TypeOK, PromiseInv, DeletionInv, SameVersion
<1>p. /\ {"volumeGroup", "createVBC", "noVolume", "collect", "annFailHooks"} \subseteq
            SyncPcs \ (StartPcs \cup {"scheduled"})
      /\ {"volumeGroup", "createVBC", "noVolume", "scheduled"} \subseteq SyncPcs
      /\ {"volumeGroup", "createVBC", "noVolume"} \subseteq Locked
      /\ {"volumeGroup", "createVBC"} \subseteq SnapshotPcs
      /\ "noVolume" \notin SnapshotPcs /\ "scheduled" \notin SnapshotPcs
      /\ "noVolume" \notin StartPcs /\ "scheduled" \notin StartPcs /\ "createVBC" \notin StartPcs
      /\ "scheduled" \notin Locked
  BY DEF SyncPcs, DeletePcs, Pcs, StartPcs, Locked, SnapshotPcs
<1>w. pc \in SyncPcs /\ w.rv # 0 => StageAt(pc, w.stage) /\ StateAt(pc, w.state) BY AtWork
<1>n. w.state = "New" =>
         StateAt("createVBC", w.state) /\ StateAt("noVolume", w.state) /\ StateAt("scheduled", w.state)
  BY DEF StateAt
<1>m. /\ pc = "volumeGroup" /\ w.state = "New" => MoveFits("createVBC") /\ MoveFits("noVolume")
      /\ pc = "createVBC" /\ w.state = "New" => MoveFits("createVBC") /\ MoveFits("scheduled")
  BY <1>p, <1>n DEF MoveFits
<1>h. UNCHANGED envVars => HostsKept BY DEF envVars, HostsKept
<1>2. CASE CollectResources
  <2> DEFINE b == [w EXCEPT !.res = TRUE]
  <2>1. /\ pc = "collect"
        /\ \/ WriteStatus(b, "volumeGroup", "retry") /\ UNCHANGED <<cache, rcVars, volVars, envVars, crashes>>
           \/ CallFails
    BY <1>2 DEF CollectResources
  <2>2. b \in Backup /\ b.rv = w.rv /\ b.stage = w.stage /\ b.state = w.state
    BY <1>0 DEF Backup
  <2> HIDE DEF b
  <2>3. CASE CallFails BY <1>p, <2>1, <2>3, FailedMove
  <2>4. CASE WriteStatus(b, "volumeGroup", "retry") /\ UNCHANGED <<cache, rcVars, volVars, envVars, crashes>>
    <3>1. StatusOutcome(b, "volumeGroup") /\ WorkerFrame /\ VolumesKept /\ HostsKept
      BY <1>0, <2>2, <2>4, WriteStatusIs
         DEF WorkerFrame, VolumesKept, HostsKept, rcVars, volVars, envVars
    <3>2. pc \in SyncPcs \ Locked /\ "volumeGroup" \in StatusNexts \ StartPcs BY <2>1, StatusPcs
    <3>3. w.rv # 0 => w.stage = "Volumes" /\ w.state = "New"
      BY <1>w, <2>1, <3>2 DEF StageAt, StateAt
    <3>4. w.rv # 0 => Held(apps)
      BY <1>0, <2>1, <3>3 DEF Quiesced, MayTakeSnapshots
    <3>5. Rank(b) = Rank(w) BY <2>2 DEF Rank
    <3>6. StateAt("volumeGroup", "New") BY DEF StateAt
    <3>7. Rank(w) <= Rank(w) BY <1>0, RankType
    <3>8. w.rv # 0 => StatusFits(b, "volumeGroup")
      BY <2>1, <2>2, <3>2, <3>3, <3>4, <3>5, <3>6, <3>7
         DEF StatusFits, Follows, Late, VolumesFailed, MayTakeSnapshots, Archived, VolumesPassed
    <3> QED BY <2>2, <3>1, <3>2, <3>8 DEF StatusStep
  <2> QED BY <2>1, <2>3, <2>4
<1>3. CASE TakeSnapshots
  <2>0. pc = "volumeGroup" /\ (w.rv # 0 => w.state = "New")
    BY <1>3, <1>p, <1>w DEF TakeSnapshots, StateAt
  <2>1. \/ wanted = {} /\ Local("noVolume", w) /\ UNCHANGED envVars
        \/ /\ w.rv # 0 /\ Goto("createVBC", w)
           /\ UNCHANGED <<apiVars, cache, storeVars, rcVars, wanted, vbc, vdel, envVars>>
        \/ ReturnErr /\ UNCHANGED <<apiVars, cache, storeVars, rcVars, volVars, envVars>>
        \/ CallFails
    BY <1>3 DEF TakeSnapshots
  <2>2. CASE wanted = {} /\ Local("noVolume", w) /\ UNCHANGED envVars
    <3>1. LocalOutcome("noVolume", w) /\ WorkerFrame /\ VolumesKept /\ HostsKept
      BY <1>h, <2>2, LocalIs
    <3>2. pc' = "noVolume" /\ w' = w BY <3>1, PcSets DEF LocalOutcome, Leads
    <3> QED BY <1>0, <1>p, <1>m, <2>0, <2>2, <3>1, <3>2
            DEF QuietStep, LocalOutcome, VolumesKept, HostsKept
  <2>3. CASE /\ w.rv # 0 /\ Goto("createVBC", w)
             /\ UNCHANGED <<apiVars, cache, storeVars, rcVars, wanted, vbc, vdel, envVars>>
    <3>1. pc' = "createVBC" /\ w' = w BY <2>3 DEF Goto
    <3>2. /\ Kept /\ processed' = processed /\ WorkerFrame /\ vdel' = vdel /\ vbc' = vbc
          /\ HostsKept
      BY <2>3, <1>h DEF Kept, WorkerFrame, apiVars, storeVars, rcVars
    <3> QED BY <1>0, <1>p, <1>m, <2>0, <2>3, <3>1, <3>2 DEF QuietStep, HostsKept
  <2>4. CASE ReturnErr /\ UNCHANGED <<apiVars, cache, storeVars, rcVars, volVars, envVars>>
    <3>1. pc' = "idle" /\ w' = NoBackup /\ w'.rv = 0 BY <2>4, EmptyBackup DEF ReturnErr
    <3>2. /\ Kept /\ processed' = processed /\ WorkerFrame /\ vdel' = vdel /\ vbc' = vbc
          /\ HostsKept
      BY <2>4, <1>h DEF Kept, WorkerFrame, apiVars, storeVars, rcVars, volVars
    <3> QED BY <1>p, <2>0, <3>1, <3>2 DEF QuietStep, HostsKept
  <2>5. CASE CallFails BY <1>p, <2>0, <2>5, FailedMove
  <2> QED BY <2>1, <2>2, <2>3, <2>4, <2>5
<1>4. CASE CreateVBC
  <2>0. pc = "createVBC" /\ w.rv # 0 /\ w.state = "New"
    BY <1>0, <1>4, <1>p, <1>w DEF CreateVBC, StateAt, HandlersHold
  <2>1. PICK p \in wanted :
           /\ vbc[<<attempt, p>>] = "absent"
           /\ vbc' = [vbc EXCEPT ![<<attempt, p>>] = "New"]
           /\ Goto("scheduled", w) \/ Goto("createVBC", w) \/ ReturnErr
    BY <1>4 DEF CreateVBC
  <2>2. UNCHANGED <<apiVars, cache, storeVars, rcVars, wanted, vdel, attempt, envVars>>
    BY <1>4 DEF CreateVBC
  <2>3. /\ Kept /\ processed' = processed /\ WorkerFrame /\ vdel' = vdel /\ HostsKept
    BY <2>2, <1>h DEF Kept, WorkerFrame, apiVars, storeVars, rcVars
  <2>4. \A v \in VBCs : \/ vbc'[v] = vbc[v]
                        \/ vbc[v] = "absent" /\ vbc'[v] = "New" /\ wanted # {} /\ pc = "createVBC"
    BY <1>0, <2>0, <2>1 DEF TypeOK
  <2>5. \/ pc' = "idle" /\ w' = NoBackup /\ w'.rv = 0
        \/ pc' \in {"scheduled", "createVBC"} /\ w' = w
    BY <2>1, EmptyBackup DEF Goto, ReturnErr
  <2> QED BY <1>0, <1>p, <1>m, <2>0, <2>3, <2>4, <2>5 DEF QuietStep, HostsKept
<1>5. CASE CreateVBCFails BY <1>5, <1>p, FailedMove DEF CreateVBCFails
<1>6. CASE AnnotateNoVolume \/ AnnotateFailHooks
  <2>1. ASSUME NEW a \in Annotations, NEW next, AnnotateBackup(a, next),
               \/ pc = "noVolume" /\ next = "scheduled" /\ a = "volume-backup-completed"
               \/ pc = "annFailHooks" /\ next = "return" /\ a = "fail-hooks-completed"
        PROVE  \E b, n : AnnotateStep(b, n)
    <3> DEFINE b == [api EXCEPT !.ann = @ \cup {a}]
    <3>1. AnnotateOutcome(b, next) /\ WorkerFrame /\ VolumesKept /\ HostsKept
      BY <1>0, <2>1, AnnotateBackupIs
    <3>2. /\ b.stage = api.stage /\ b.state = api.state /\ b.fin = api.fin /\ b.del = api.del
          /\ b.ann = api.ann \cup {a}
      BY <1>0 DEF Backup
    <3> HIDE DEF b
    <3> QED BY <2>1, <3>1, <3>2 DEF AnnotateStep
  <2>2. {"volume-backup-completed", "fail-hooks-completed"} \subseteq Annotations BY DEF Annotations
  <2> QED BY <1>6, <2>1, <2>2 DEF AnnotateNoVolume, AnnotateFailHooks
<1> QED BY <1>2, <1>3, <1>4, <1>5, <1>6

\* Every step of a worker that neither takes a key nor deletes is one of the four kinds.
WorkStep ==
    QuietStep \/ \E b, next : StatusStep(b, next) \/ PatchStep(b, next) \/ AnnotateStep(b, next)

\* The rest of the worker starts or deletes.
LEMMA WorkSteps ==
    ASSUME AllInv, Worker
    PROVE  \/ WorkStep \/ ProcessQueue \/ RemoveFinalizer \/ RemoveFinalizerPanics
           \/ RemoveVolumeBackup \/ ListVolumeBackup \/ DeleteMetadataBackup
<1>1. CASE InitFinalizer \/ InitStatus \/ ValidateBackup \/ EnsureSupportedResourceList
  BY <1>1, StartSteps DEF WorkStep
<1>2. CASE Validated \/ SyncInitial \/ PreHookProcessing \/ PreHookFailed \/ ToVolumes \/ Scheduled
  BY <1>2, EarlyUpdates DEF WorkStep
<1>3. CASE PostHookFailed \/ ToResources \/ BackupMetadataDone \/ BackupMetadataFailed \/ Finish
  BY <1>3, LateUpdates DEF WorkStep
<1>4. CASE SyncBackup \/ ExecutePreHooks \/ ReversePreHooks \/ ReverseVolumeHooks \/ ExecutePostHooks
  BY <1>4, LocalSteps DEF WorkStep
<1>5. CASE SyncVolumeBackup \/ VolumesSynced \/ BackupMetadata \/ ResourcesSynced
  BY <1>5, BranchSteps DEF WorkStep
<1>6. CASE \/ CollectResources \/ TakeSnapshots \/ CreateVBC \/ CreateVBCFails
           \/ AnnotateNoVolume \/ AnnotateFailHooks
  BY <1>6, SnapshotSteps DEF WorkStep
<1> QED BY <1>1, <1>2, <1>3, <1>4, <1>5, <1>6 DEF Worker

-----------------------------------------------------------------------------
(* The versions in order *)

\* A write never takes the object back: a later version follows the one before.
Advance == api.rv # 0 /\ api'.rv # 0 => Follows(api, api')
SameStatus == api'.stage = api.stage /\ api'.state = api.state

\* Versions follow themselves and, along the order, each other; a copy the worker
\* touched in memory stands for the version it was made from.
LEMMA FollowsOrder ==
    /\ \A x \in Backup : Follows(x, x) /\ SameVersion(x, x)
    /\ \A x, y, z \in Backup : Follows(x, y) /\ Follows(y, z) => Follows(x, z)
    /\ \A x, y \in Backup : x.stage = y.stage /\ x.state = y.state => Follows(x, y)
    /\ \A x, y, z \in Backup : SameVersion(x, y) /\ SameVersion(y, z) => SameVersion(x, z)
    /\ \A x, y \in Backup : SameVersion(x, y) =>
          /\ Rank(x) = Rank(y) /\ (Late(x) <=> Late(y)) /\ (Late(x) => x.stage = y.stage)
          /\ (Rank(x) # 0 => x.stage = y.stage)
<1>0. \A x \in Backup : Rank(x) \in Nat BY RankType
<1>1. \A x \in Backup : Follows(x, x) /\ SameVersion(x, x) BY <1>0 DEF Follows, SameVersion
<1>2. \A x, y, z \in Backup : Follows(x, y) /\ Follows(y, z) => Follows(x, z)
  BY <1>0 DEF Follows
<1>3. \A x, y \in Backup : x.stage = y.stage => Rank(x) = Rank(y) BY DEF Rank
<1>4. \A x, y \in Backup : x.stage = y.stage /\ x.state = y.state => Follows(x, y)
  BY <1>0, <1>3 DEF Follows, Late
<1>5. \A x, y, z \in Backup : SameVersion(x, y) /\ SameVersion(y, z) => SameVersion(x, z)
  BY DEF SameVersion
<1>6. \A x \in Backup : x.stage \in {"unset", "Initial"} => Rank(x) = 0 BY RankOf
<1>7. ASSUME NEW x \in Backup, NEW y \in Backup, SameVersion(x, y)
      PROVE  /\ Rank(x) = Rank(y) /\ (Late(x) <=> Late(y)) /\ (Late(x) => x.stage = y.stage)
             /\ (Rank(x) # 0 => x.stage = y.stage)
  <2>1. CASE x.stage = y.stage BY <1>0, <1>3, <1>7, <2>1 DEF SameVersion, Late
  <2>2. CASE x.stage = "Initial" /\ y.stage = "unset"
    <3>1. Rank(x) = 0 /\ Rank(y) = 0 BY <1>6, <2>2
    <3> QED BY <3>1 DEF Late
  <2> QED BY <1>7, <2>1, <2>2 DEF SameVersion
<1> QED BY <1>1, <1>2, <1>4, <1>5, <1>7

\* After a write that takes the object on, all versions are in order, the worker's copy
\* among them.
LEMMA VersionsKeep ==
    ASSUME IInv, OrderInv, TypeOK', Written, Advance, cache' = cache,
           \/ w' = NoBackup \/ w' = api' \/ w' \in Copies
           \/ w'.rv = w.rv /\ SameVersion(w', w)
    PROVE  VersionsInOrder' /\ WorkerEqual'
<1>0. /\ TypeOK /\ VersionsInOrder /\ WorkerEqual /\ CopiesAgree /\ api \in Backup /\ api' \in Backup
      /\ w \in Backup /\ w' \in Backup /\ api.rv \in Nat /\ w.rv \in Nat
      /\ \A c \in Copies : c \in Backup /\ c.rv \in Nat
  BY CopyTypes DEF IInv, OrderInv, TypeOK
<1>k. api'.rv \in Nat /\ w'.rv \in Nat BY <1>0, BackupFields
<1>1. SUFFICES ASSUME api'.rv # 0 PROVE VersionsInOrder' /\ WorkerEqual'
  BY DEF VersionsInOrder, WorkerEqual
<1>2. /\ api.rv # 0 /\ Follows(api, api') /\ (Kept => api' = api /\ Copies' = Copies)
      /\ ~Kept => api'.rv = api.rv + 1
      /\ \A c \in Copies' : c \in Copies \/ c = api'
  BY <1>0, <1>1, WrittenCopies DEF Advance, Kept
<1>3. w.rv <= api.rv /\ \A c \in Copies : c.rv <= api.rv /\ (c.rv = api.rv => c = api)
  BY <1>2 DEF IInv, WorkerAgrees, CopiesAgree, Agrees
<1>4. \* before the write, for the old copies and the worker's new one
      ASSUME NEW x \in Copies \cup {api, w'}, NEW y \in Copies \cup {api}, x.rv # 0, x.rv <= y.rv,
             x = w' => ~(w' = api' /\ ~Kept)
      PROVE  Follows(x, y)
  <2>1. CASE x \in Copies \cup {api} BY <1>0, <1>2, <1>4, <2>1 DEF VersionsInOrder
  <2>2. CASE x = w' /\ w'.rv = w.rv /\ SameVersion(w', w)
    <3>1. Follows(w, y) BY <1>0, <1>2, <1>4, <2>2 DEF VersionsInOrder
    <3>2. Rank(w') = Rank(w) /\ (Late(w') <=> Late(w)) /\ (Late(w') => w'.stage = w.stage)
      BY <1>0, <2>2, FollowsOrder
    <3> QED BY <2>2, <3>1, <3>2 DEF Follows
  <2>3. CASE x = w' /\ w' = NoBackup BY <1>4, <2>3, EmptyBackup
  <2> QED BY <1>2, <1>4, <2>1, <2>2, <2>3
<1>5. VersionsInOrder'
  <2>1. ASSUME NEW x \in Copies' \cup {api', w'}, NEW y \in Copies' \cup {api'}, x.rv # 0, x.rv <= y.rv
        PROVE  Follows(x, y)
    <3>1. CASE Kept BY <1>2, <1>4, <2>1, <3>1
    <3>2. CASE ~Kept
      <4>1. x \in Copies \/ x = api' \/ x = w' BY <1>2, <2>1
      <4>2. x # api' => x.rv <= api.rv
        BY <1>0, <1>3, <3>2, <4>1, EmptyBackup
      <4>3. CASE y = api'
        <5>1. CASE x = api' BY <1>0, <4>3, <5>1, FollowsOrder
        <5>2. CASE x # api'
          <6>1. Follows(x, api) BY <1>4, <2>1, <4>1, <4>2, <5>2
          <6>2. x \in Backup BY <1>0, <4>1
          <6> QED BY <1>0, <1>2, <4>3, <6>1, <6>2, FollowsOrder
        <5> QED BY <5>1, <5>2
      <4>4. CASE y # api'
        <5>1. y \in Copies /\ y.rv <= api.rv /\ y.rv \in Nat BY <1>0, <1>2, <1>3, <2>1, <4>4
        <5>2. x # api' BY <1>0, <1>2, <2>1, <3>2, <5>1
        <5> QED BY <1>4, <2>1, <4>1, <5>1, <5>2
      <4> QED BY <4>3, <4>4
    <3> QED BY <3>1, <3>2
  <2> QED BY <2>1 DEF VersionsInOrder
<1>6. WorkerEqual'
  <2>1. ASSUME w'.rv = api'.rv
        PROVE  SameVersion(w', api')
    <3>1. CASE w' = api' BY <1>0, <3>1, FollowsOrder
    <3>2. CASE w' = NoBackup BY <1>1, <2>1, <3>2, EmptyBackup
    <3>3. CASE w' \in Copies
      <4>1. Kept BY <1>0, <1>2, <1>3, <2>1, <3>3
      <4>2. w' = api' BY <1>2, <1>3, <2>1, <3>3, <4>1
      <4> QED BY <1>0, <4>2, FollowsOrder
    <3>4. CASE w'.rv = w.rv /\ SameVersion(w', w)
      <4>1. Kept BY <1>0, <1>2, <1>3, <2>1, <3>4
      <4>2. SameVersion(w, api) BY <1>0, <1>2, <2>1, <3>4, <4>1 DEF WorkerEqual
      <4> QED BY <1>0, <1>2, <3>4, <4>1, <4>2, FollowsOrder
    <3> QED BY <3>1, <3>2, <3>3, <3>4
  <2> QED BY <2>1 DEF WorkerEqual
<1> QED BY <1>5, <1>6

\* Once a write is in the store, it lets through the new revision only;
LEMMA StoredHides ==
    ASSUME TypeOK', IInv', api'.rv # 0, StoredRevision
    PROVE  \A c \in Copies' : c.rv >= processed' => c = api'
<1>0. TypeOK' BY DEF IInv
<1>1. /\ api'.rv \in Nat /\ processed' \in Nat
      /\ \A c \in Copies' : c \in Backup /\ c.rv \in Nat /\ c.rv <= api'.rv /\ (c.rv = api'.rv => c = api')
  <2>1. CopiesAgree' BY DEF IInv
  <2>2. \A c \in Copies' : c \in Backup BY DEF Copies, TypeOK
  <2>3. api' \in Backup /\ processed' \in Nat BY DEF TypeOK
  <2> QED BY <2>1, <2>2, <2>3, BackupFields DEF CopiesAgree, Agrees
<1>2. processed' >= api'.rv
  <2>1. processed' \in {processed, api'.rv} BY DEF StoredRevision
  <2>2. CASE processed > api'.rv
    <3>1. processed' = processed BY <2>2 DEF StoredRevision
    <3>2. processed' > api'.rv BY <2>2, <3>1
    <3> QED BY <1>1, <3>2
  <2>3. CASE ~(processed > api'.rv)
    <3>1. processed' = api'.rv BY <2>3 DEF StoredRevision
    <3> QED BY <1>1, <3>1
  <2> QED BY <2>2, <2>3
<1> QED BY <1>1, <1>2

\* and while the worker has the server's revision, that one only, unless the worker
\* has just annotated.
LEMMA CurrentHides ==
    ASSUME IInv, OrderInv, api.rv # 0, w.rv = api.rv, pc # "scheduled"
    PROVE  \A c \in Copies : c.rv >= processed => c = api
<1>1. w.rv <= processed BY DEF OrderInv, Taken
<1>2. \A c \in Copies : c.rv \in Nat /\ c.rv <= api.rv /\ (c.rv = api.rv => c = api)
  BY CopyTypes DEF IInv, CopiesAgree, Agrees
<1>3. api.rv \in Nat /\ processed \in Nat BY CopyTypes DEF IInv
<1> QED BY <1>1, <1>2, <1>3

\* A cause of failure stays while it is needed.
LEMMA CausesKeep ==
    ASSUME FailureHasCause, wanted' = wanted,
           LiveVBCs' # {} => LiveVBCs # {} \/ wanted # {},
           pc' = "noVolume" => pc = "noVolume" \/ wanted = {},
           Gone(api) => Gone(api'),
           Gone(api) \/ \A v \in VBCs : vbc[v] = "Failed" => vbc'[v] = "Failed",
           rpc' = "fail" \/ VolumesFailed(api') => rpc = "fail" \/ VolumesFailed(api)
    PROVE  FailureHasCause'
<1>1. VBCs' = VBCs BY DEF VBCs
<1> QED BY <1>1 DEF FailureHasCause

\* So does what a failure excludes.
LEMMA CompletedKeeps ==
    ASSUME FailedNotCompleted, \A c \in Copies' : c \in Copies \cup {api', NoBackup},
           VolumesFailed(api') /\ ~api'.del =>
              /\ VolumesFailed(api) /\ ~api.del
              /\ "volume-backup-completed" \in api'.ann => "volume-backup-completed" \in api.ann,
           pc' \in {"sync", "volumes"} /\ w'.rv # 0 /\ VolumesFailed(w') =>
              "volume-backup-completed" \notin w'.ann,
           rpc' = "idle" \/ (rpc' = rpc /\ rc' = rc)
    PROVE  FailedNotCompleted'
<1>1. \A c \in Copies' \cup {api'} :
         VolumesFailed(c) /\ ~c.del => "volume-backup-completed" \notin c.ann
  BY EmptyBackup DEF FailedNotCompleted, VolumesFailed
<1>2. rpc' = "fail" => isReconcileRequired(rc') BY DEF FailedNotCompleted
<1>3. rpc' = "annCompleted" /\ ~api'.del => ~VolumesFailed(api') BY DEF FailedNotCompleted
<1>4. /\ isReconcileRequired(rc)' <=> isReconcileRequired(rc')
      /\ VolumesFailed(api)' <=> VolumesFailed(api')
      /\ VolumesFailed(w)' <=> VolumesFailed(w')
  BY DEF isReconcileRequired, VolumesFailed
<1> QED BY <1>1, <1>2, <1>3, <1>4 DEF FailedNotCompleted, VolumesFailed

\* Status writes take the versions on in order.
LEMMA StatusKeepsOrder ==
    ASSUME IInv, DeletionInv, OrderInv, IInv', NEW b, NEW next, StatusStep(b, next)
    PROVE  OrderInv' /\ Advance
<1>0. /\ TypeOK /\ TypeOK' /\ api \in Backup /\ api' \in Backup /\ w \in Backup /\ w' \in Backup
      /\ pc \in SyncPcs \ Locked /\ b.rv = w.rv /\ next \in StatusNexts
      /\ api.rv \in Nat /\ w.rv \in Nat /\ processed \in Nat
      /\ WorkerFrame /\ VolumesKept /\ HostsKept /\ LiveVBCs' = LiveVBCs
      /\ FailureHasCause /\ FailedNotCompleted /\ Taken /\ StartsEarly /\ WorkerState /\ WorkerEqual
  BY SameLive, CopyTypes DEF IInv, OrderInv, TypeOK, StatusStep, VolumesKept
<1>n. next \in StatusNexts /\ pc' \in SyncPcs \cup {"idle"} /\ pc' \in {next, "idle"}
  BY <1>0, PcSets, LeadsTo DEF StatusStep, StatusOutcome
<1>t. /\ pc' \notin {"createVBC", "noVolume", "scheduled", "finalizer", "validated", "delFinalizer"}
      /\ pc' \in StartPcs => pc' = "validate" /\ pc' = next
      /\ pc' \in Locked => pc' = "volumeGroup" /\ pc' = next
  BY <1>n DEF StatusNexts, StartPcs, Locked
<1>1. w.rv # 0 => StatusFits(b, next) BY DEF StatusStep
<1>2. \* the three outcomes
      \/ Wrote(b) /\ w.rv # 0 /\ StoredRevision /\ (w' = api' \/ w' = NoBackup)
           /\ (w' = api' => pc' = next \/ w' = NoBackup)
      \/ Wrote(b) /\ w.rv # 0 /\ processed' = processed /\ w' = NoBackup
      \/ Kept /\ processed' = processed /\ w' = NoBackup
      \/ Kept /\ processed' = processed /\ w' = w /\ b = w /\ pc' = next /\ next # "volumeGroup"
  BY <1>0 DEF StatusStep, StatusOutcome, Wrote, Leads, Stopped
<1>3. ASSUME Wrote(b), w.rv # 0
      PROVE  /\ api.rv # 0 /\ w.rv = api.rv /\ StatusFits(b, next) /\ SameVersion(w, api)
             /\ api'.stage = b.stage /\ api'.state = b.state /\ Follows(api, api')
             /\ ~VolumesFailed(api') /\ Written
  <2>1. api.rv # 0 /\ w.rv = api.rv /\ StatusFits(b, next) /\ SameVersion(w, api)
    BY <1>0, <1>1, <1>3 DEF Wrote, WorkerEqual
  <2>2. api'.stage = b.stage /\ api'.state = b.state BY <1>3 DEF Wrote
  <2>3. Rank(api') = Rank(b) /\ (Late(api') <=> Late(b)) BY <2>2 DEF Rank, Late
  <2>4. /\ Rank(w) = Rank(api) /\ (Late(w) <=> Late(api)) /\ (Late(w) => w.stage = api.stage)
    BY <1>0, <2>1, FollowsOrder
  <2>5. Follows(api, api')
    BY <2>1, <2>2, <2>3, <2>4 DEF StatusFits, Follows
  <2> QED BY <1>3, <2>1, <2>2, <2>5 DEF Wrote, StatusFits, VolumesFailed
<1>4. Written BY <1>2, <1>3 DEF Written
<1>5. Advance BY <1>0, <1>2, <1>3, FollowsOrder DEF Advance, Kept
<1>6. VersionsInOrder' /\ WorkerEqual'
  <2>1. w' = w => w'.rv = w.rv /\ SameVersion(w', w) BY <1>0, FollowsOrder
  <2> QED BY <1>0, <1>2, <1>4, <1>5, <2>1, VersionsKeep DEF WorkerFrame
<1>c. /\ \A c \in Copies' : c \in Copies \/ (c = api' /\ api.rv # 0)
      /\ api.rv = 0 => api' = api
      /\ Kept => Copies' = Copies
  BY <1>0, <1>4, WrittenCopies DEF WorkerFrame
<1>7. Taken'
  <2>1. CASE w' = NoBackup BY <2>1, EmptyBackup DEF Taken
  <2>2. CASE w' = api' /\ StoredRevision /\ w'.rv # 0
    <3>1. processed' >= api'.rv
      <4>1. api'.rv \in Nat BY <1>0, BackupFields
      <4> QED BY <1>0, <2>2, <4>1 DEF StoredRevision
    <3> QED BY <1>0, <2>2, <3>1, BackupFields DEF Taken
  <2>3. CASE Kept /\ processed' = processed /\ w' = w /\ b = w /\ pc' = next
    <3>1. w.rv # 0 => pc # "scheduled" BY <1>1, <2>3 DEF StatusFits
    <3> QED BY <1>0, <2>3, <3>1 DEF Taken
  <2> QED BY <1>2, <2>1, <2>2, <2>3, EmptyBackup DEF Taken
<1>8. StartsEarly'
  <2>1. SUFFICES ASSUME api'.rv # 0 PROVE StartsEarly' BY DEF StartsEarly
  <2>2. \A c \in Copies' : c.rv # 0 /\ c.rv >= processed' /\ Rank(c) = 0 =>
           ~Late(api') /\ (c.fin \/ Rank(api') = 0)
    <3>1. CASE Kept /\ processed' = processed
      <4>1. api' = api /\ Copies' = Copies BY <1>c, <3>1 DEF Kept
      <4> QED BY <1>0, <2>1, <3>1, <4>1 DEF StartsEarly
    <3>2. CASE Wrote(b) /\ w.rv # 0 /\ StoredRevision
      BY <1>0, <2>1, <3>2, StoredHides DEF Late
    <3>3. CASE Wrote(b) /\ w.rv # 0 /\ processed' = processed
      <4>1. ASSUME NEW c \in Copies, c.rv # 0, c.rv >= processed, Rank(c) = 0
            PROVE  ~Late(api') /\ c.fin
        <5>1. CASE pc = "scheduled"
          <6>1. StageAt(pc, w.stage) BY <3>3 DEF IInv, WorkerStage
          <6>2. Rank(w) = 2 BY <1>0, <5>1, <6>1, RankOf DEF StageAt
          <6>3. Rank(api) = 2 BY <1>0, <1>3, <3>3, <6>2, FollowsOrder
          <6>4. Rank(api) <= Rank(c) + 1 BY <1>3, <3>3, <4>1 DEF IInv, BoundedLag, Lags
          <6> QED BY <4>1, <6>3, <6>4
        <5>2. CASE pc # "scheduled"
          <6>1. c = api BY <1>3, <3>3, <4>1, <5>2, CurrentHides
          <6>2. api.fin BY <1>0, <3>3 DEF DeletionInv, FinalizerHeld
          <6>3. Rank(w) = 0 BY <1>0, <1>3, <3>3, <4>1, <6>1, FollowsOrder
          <6>4. ~Late(b) BY <1>3, <3>3, <6>3 DEF StatusFits
          <6>5. Late(api') <=> Late(b) BY <1>3, <3>3 DEF Late, Rank
          <6> QED BY <6>1, <6>2, <6>4, <6>5
        <5> QED BY <5>1, <5>2
      <4> QED BY <1>c, <3>3, <4>1 DEF Late
    <3> QED BY <1>2, <3>1, <3>2, <3>3
  <2>3. pc' \in StartPcs /\ w'.rv # 0 => Rank(w') = 0 /\ ~Late(api')
    <3>1. ASSUME pc' \in StartPcs, w'.rv # 0 PROVE Rank(w') = 0 /\ ~Late(api')
      <4>1. w.rv # 0 /\ StatusFits(b, next) /\ Rank(b) = 0 /\ pc \in StartPcs
        BY <1>1, <1>2, <1>t, <3>1, EmptyBackup DEF StatusFits
      <4>2. CASE Wrote(b) /\ w' = api'
        <5>1. Rank(api') = Rank(b) BY <1>3, <4>1, <4>2 DEF Rank
        <5> QED BY <4>1, <4>2, <5>1 DEF Late
      <4>3. CASE Kept /\ w' = w
        <5>1. api' = api BY <4>3 DEF Kept
        <5> QED BY <1>0, <2>1, <4>1, <4>3, <5>1 DEF StartsEarly
      <4> QED BY <1>2, <3>1, <4>2, <4>3, EmptyBackup
    <3> QED BY <3>1
  <2> QED BY <1>t, <2>1, <2>2, <2>3 DEF StartsEarly
<1>9. WorkerState'
  <2>1. ASSUME w'.rv # 0
        PROVE  StateAt(pc', w'.state) /\ (pc' \in Locked => api'.state \in {"New", "Failed"})
    <3>1. CASE w' = api' /\ Wrote(b) /\ w.rv # 0 /\ pc' = next
      <4>1. StateAt(next, b.state) /\ api'.state = b.state BY <1>3, <3>1 DEF StatusFits
      <4>2. next = "volumeGroup" => b.state = "New" BY <4>1 DEF StateAt
      <4> QED BY <1>t, <3>1, <4>1, <4>2
    <3>2. CASE w' = w /\ b = w /\ pc' = next /\ next # "volumeGroup"
      BY <1>1, <1>t, <2>1, <3>2 DEF StatusFits
    <3> QED BY <1>2, <2>1, <3>1, <3>2, EmptyBackup
  <2> QED BY <2>1 DEF WorkerState
<1>10. (Gone(api) => Gone(api')) /\ (VolumesFailed(api') => VolumesFailed(api) /\ Kept)
  <2>1. CASE Kept BY <2>1 DEF Kept, Gone, VolumesFailed
  <2>2. CASE Wrote(b) /\ w.rv # 0 BY <1>3, <2>2 DEF Wrote, Gone
  <2> QED BY <1>2, <2>1, <2>2
<1>11. FailureHasCause'
  BY <1>0, <1>t, <1>10, CausesKeep DEF WorkerFrame, VolumesKept
<1>12. FailedNotCompleted'
  <2>1. pc' \in {"sync", "volumes"} /\ w'.rv # 0 => ~VolumesFailed(w')
    <3>1. CASE Wrote(b) /\ w' = api' /\ w.rv # 0 BY <1>3, <3>1
    <3>2. CASE w' = w /\ b = w BY <1>1, <3>2 DEF StatusFits
    <3> QED BY <1>2, <3>1, <3>2, EmptyBackup
  <2>2. rpc' = rpc /\ rc' = rc BY <1>0 DEF WorkerFrame
  <2> QED BY <1>0, <1>c, <1>10, <2>1, <2>2, CompletedKeeps DEF Kept
<1> QED BY <1>5, <1>6, <1>7, <1>8, <1>9, <1>11, <1>12 DEF OrderInv

\* A write that leaves the status alone
EarlyCopies ==
    api.rv # 0 =>
        \A c \in Copies : c.rv # 0 /\ c.rv >= processed /\ Rank(c) = 0 =>
            ~Late(api) /\ (c.fin \/ Rank(api) = 0)

\* It leaves everything alone that is read off the status.
LEMMA SameStatusIs ==
    ASSUME SameStatus
    PROVE  /\ Rank(api') = Rank(api) /\ (Late(api') <=> Late(api))
           /\ VolumesFailed(api') <=> VolumesFailed(api)
           /\ MayTakeSnapshots(api') <=> MayTakeSnapshots(api)
           /\ Archived(api') <=> Archived(api)
BY DEF SameStatus, Rank, Late, VolumesFailed, MayTakeSnapshots, Archived

\* lets the same early versions through.
LEMMA EarlyKeeps ==
    ASSUME EarlyCopies, SameStatus, processed' = processed, api'.rv # 0 => api.rv # 0,
           \A c \in Copies' : c \in Copies \/ c = api'
    PROVE  EarlyCopies'
<1>1. /\ Rank(api') = Rank(api) /\ (Late(api') <=> Late(api)) /\ (Late(api') => Rank(api') # 0)
  BY SameStatusIs DEF Late
<1>2. (Rank(api)' = Rank(api')) /\ (Late(api)' <=> Late(api')) BY DEF Late, Rank
<1> QED BY <1>1, <1>2 DEF EarlyCopies

\* Patches take the versions on in order.
LEMMA PatchKeepsOrder ==
    ASSUME IInv, DeletionInv, OrderInv, IInv', NEW b, NEW next, PatchStep(b, next)
    PROVE  OrderInv' /\ Advance
<1>0. /\ TypeOK /\ TypeOK' /\ api \in Backup /\ api' \in Backup /\ w \in Backup /\ w' \in Backup
      /\ api.rv \in Nat /\ w.rv \in Nat /\ processed \in Nat
      /\ WorkerFrame /\ VolumesKept /\ HostsKept /\ LiveVBCs' = LiveVBCs
      /\ FailureHasCause /\ FailedNotCompleted /\ Taken /\ StartsEarly /\ WorkerState /\ EarlyCopies
      /\ b.stage = api.stage /\ b.state = api.state /\ b.del = api.del
      /\ PatchOutcome(b, next) /\ next \in {"initStatus", "validated"}
      /\ \/ pc = "finalizer" /\ ~w.fin /\ next = "initStatus"
         \/ pc = "supported" /\ next = "validated"
      /\ b.ann \in {api.ann, api.ann \cup {"backup-resources"}}
  BY SameLive, CopyTypes
     DEF IInv, OrderInv, TypeOK, PatchStep, VolumesKept, StartsEarly, EarlyCopies
<1>p. /\ {"initStatus", "validated", "idle"} \cap (Locked \cup {"noVolume", "scheduled", "sync", "volumes",
                                                    "finalizer", "createVBC"}) = {}
      /\ "validated" \notin StartPcs /\ "idle" \notin StartPcs /\ "supported" \in StartPcs
  BY DEF Locked, StartPcs
<1>2. \/ Patched(b) /\ StoredRevision /\ w' = api' /\ pc' = next
      \/ (Kept \/ Patched(b)) /\ processed' = processed /\ w' = NoBackup /\ pc' = "idle"
  BY <1>0 DEF PatchOutcome, Leads, Stopped
<1>3. /\ Kept \/ Patched(b)
      /\ Written /\ SameStatus /\ api'.del = api.del
      /\ api'.ann \in {api.ann, api.ann \cup {"backup-resources"}}
  BY <1>0, <1>2 DEF Written, Kept, Patched, Is, SameStatus
<1>4. Advance BY <1>0, <1>3, FollowsOrder DEF Advance, SameStatus
<1>5. VersionsInOrder' /\ WorkerEqual' BY <1>0, <1>2, <1>3, <1>4, VersionsKeep DEF WorkerFrame
<1>c. /\ \A c \in Copies' : c \in Copies \/ (c = api' /\ api.rv # 0)
      /\ api.rv = 0 => api' = api
  BY <1>0, <1>3, WrittenCopies DEF WorkerFrame
<1>s. /\ Rank(api') = Rank(api) /\ (Late(api') <=> Late(api))
      /\ (VolumesFailed(api') <=> VolumesFailed(api))
  BY <1>3, SameStatusIs
<1>6. Taken'
  <2>1. CASE w' = NoBackup BY <2>1, EmptyBackup DEF Taken
  <2>2. CASE w' = api' /\ StoredRevision
    <3>1. api'.rv \in Nat BY <1>0, BackupFields
    <3> QED BY <1>0, <2>2, <3>1 DEF Taken, StoredRevision
  <2> QED BY <1>2, <2>1, <2>2
<1>7. StartsEarly'
  <2>1. EarlyCopies'
    <3>1. CASE processed' = processed BY <1>0, <1>3, <1>c, <3>1, EarlyKeeps
    <3>2. CASE StoredRevision
      <4>1. api'.rv # 0 => \A c \in Copies' : c.rv >= processed' => c = api'
        BY <1>0, <3>2, StoredHides
      <4> QED BY <4>1 DEF EarlyCopies, Late
    <3> QED BY <1>2, <3>1, <3>2
  <2>2. CASE Patched(b) /\ StoredRevision /\ w' = api' /\ pc' = next
    <3>1. api.rv # 0 /\ w.rv # 0 BY <2>2 DEF Patched
    <3>2. CASE pc = "finalizer" /\ ~w.fin /\ next = "initStatus"
      <4>1. Rank(api') = 0 BY <1>0, <1>s, <3>1, <3>2 DEF StartsEarly
      <4> QED BY <2>1, <2>2, <3>2, <4>1 DEF StartsEarly, EarlyCopies, Late
    <3>3. CASE pc = "supported" /\ next = "validated"
      <4>1. Rank(w) = 0 /\ ~Late(api) BY <1>0, <1>p, <3>1, <3>3 DEF StartsEarly
      <4>2. Rank(api') <= 1 BY <1>s, <3>1, <4>1 DEF IInv, WorkerAgrees
      <4> QED BY <1>p, <1>s, <2>1, <2>2, <3>3, <4>1, <4>2 DEF StartsEarly, EarlyCopies
    <3> QED BY <1>0, <3>2, <3>3
  <2>3. CASE w' = NoBackup /\ pc' = "idle"
    BY <1>p, <2>1, <2>3 DEF StartsEarly, EarlyCopies
  <2> QED BY <1>2, <2>2, <2>3
<1>8. WorkerState' BY <1>0, <1>2, <1>p DEF WorkerState, StateAt
<1>9. FailureHasCause'
  BY <1>0, <1>2, <1>3, <1>c, <1>p, <1>s, CausesKeep DEF WorkerFrame, VolumesKept, Gone
<1>10. FailedNotCompleted'
  <2>1. rpc' = rpc /\ rc' = rc BY <1>0 DEF WorkerFrame
  <2>2. "volume-backup-completed" \in api'.ann => "volume-backup-completed" \in api.ann BY <1>3
  <2>3. pc' \notin {"sync", "volumes"} BY <1>0, <1>2
  <2> QED BY <1>0, <1>c, <1>3, <1>s, <2>1, <2>2, <2>3, CompletedKeeps
<1> QED BY <1>4, <1>5, <1>6, <1>7, <1>8, <1>9, <1>10 DEF OrderInv

\* So do annotations: a backup without volumes cannot have failed for one.
LEMMA AnnotateKeepsOrder ==
    ASSUME IInv, DeletionInv, OrderInv, IInv', NEW b, NEW next, AnnotateStep(b, next)
    PROVE  OrderInv' /\ Advance
<1>0. /\ TypeOK /\ TypeOK' /\ api \in Backup /\ api' \in Backup /\ w \in Backup /\ w' \in Backup
      /\ api.rv \in Nat /\ w.rv \in Nat /\ processed \in Nat
      /\ WorkerFrame /\ VolumesKept /\ HostsKept /\ LiveVBCs' = LiveVBCs /\ processed' = processed
      /\ FailureHasCause /\ FailedNotCompleted /\ Taken /\ StartsEarly /\ WorkerState /\ EarlyCopies
      /\ b.stage = api.stage /\ b.state = api.state /\ b.del = api.del /\ b.fin = api.fin
      /\ AnnotateOutcome(b, next) /\ next \in {"scheduled", "return"}
      /\ \/ pc = "noVolume" /\ next = "scheduled" /\ b.ann = api.ann \cup {"volume-backup-completed"}
         \/ pc = "annFailHooks" /\ next = "return" /\ b.ann = api.ann \cup {"fail-hooks-completed"}
  BY SameLive, CopyTypes
     DEF IInv, OrderInv, TypeOK, AnnotateStep, VolumesKept, StartsEarly, EarlyCopies, AnnotateOutcome
<1>p. /\ {"scheduled", "idle"} \cap (Locked \cup StartPcs \cup {"noVolume", "sync", "volumes", "validated",
                                                    "finalizer", "createVBC"}) = {}
      /\ "noVolume" \in Locked
  BY DEF Locked, StartPcs
<1>2. /\ pc' \in {"scheduled", "idle"} /\ (pc' = "scheduled" => next = "scheduled")
      /\ \/ w' = NoBackup \/ (w' = api' /\ Patched(b) /\ pc' = "scheduled")
         \/ w' = w /\ Kept /\ pc' = "scheduled"
      /\ Kept \/ Patched(b)
  BY <1>0 DEF AnnotateOutcome, Leads, Stopped
<1>3. /\ Written /\ SameStatus /\ api'.del = api.del
      /\ api'.ann = api.ann \/ api'.ann = b.ann
  BY <1>0, <1>2 DEF Written, Kept, Patched, Is, SameStatus
<1>4. Advance BY <1>0, <1>3, FollowsOrder DEF Advance, SameStatus
<1>5. VersionsInOrder' /\ WorkerEqual'
  <2>1. w' = w => w'.rv = w.rv /\ SameVersion(w', w) BY <1>0, FollowsOrder
  <2> QED BY <1>0, <1>2, <1>3, <1>4, <2>1, VersionsKeep DEF WorkerFrame
<1>c. /\ \A c \in Copies' : c \in Copies \/ (c = api' /\ api.rv # 0)
      /\ api.rv = 0 => api' = api
  BY <1>0, <1>3, WrittenCopies DEF WorkerFrame
<1>s. /\ Rank(api') = Rank(api) /\ (Late(api') <=> Late(api))
      /\ (VolumesFailed(api') <=> VolumesFailed(api))
  BY <1>3, SameStatusIs
<1>6. Taken' BY <1>2, EmptyBackup DEF Taken
<1>7. StartsEarly'
  <2>1. EarlyCopies' BY <1>0, <1>3, <1>c, EarlyKeeps
  <2> QED BY <1>2, <1>p, <2>1 DEF StartsEarly, EarlyCopies
<1>v. pc = "noVolume" => ~VolumesFailed(api) BY <1>0 DEF FailureHasCause
<1>8. WorkerState'
  <2>1. ASSUME w'.rv # 0 PROVE pc = "noVolume" /\ w'.state = "New" /\ pc' = "scheduled"
    <3>1. pc = "noVolume" /\ pc' = "scheduled" BY <1>0, <1>2, <2>1, EmptyBackup
    <3>2. CASE w' = api' /\ Patched(b)
      <4>1. w.rv # 0 /\ api.rv # 0 BY <3>2 DEF Patched
      <4>2. api.stage = "Volumes" BY <1>p, <3>1, <4>1 DEF IInv, WorkerStage
      <4>3. api.state \in {"New", "Failed"} BY <1>0, <1>p, <3>1, <4>1 DEF WorkerState
      <4> QED BY <1>3, <1>v, <3>1, <3>2, <4>2, <4>3 DEF VolumesFailed, SameStatus
    <3>3. CASE w' = w BY <1>0, <2>1, <3>1, <3>3 DEF WorkerState, StateAt
    <3> QED BY <1>2, <2>1, <3>1, <3>2, <3>3, EmptyBackup
  <2>2. StateAt("scheduled", "New") BY DEF StateAt
  <2> QED BY <1>p, <2>1, <2>2 DEF WorkerState
<1>9. FailureHasCause'
  BY <1>0, <1>2, <1>3, <1>c, <1>p, <1>s, CausesKeep DEF WorkerFrame, VolumesKept, Gone
<1>10. FailedNotCompleted'
  <2>1. rpc' = rpc /\ rc' = rc BY <1>0 DEF WorkerFrame
  <2>2. VolumesFailed(api') /\ "volume-backup-completed" \in api'.ann
           => "volume-backup-completed" \in api.ann
    BY <1>0, <1>3, <1>s, <1>v
  <2>3. pc' \notin {"sync", "volumes"} BY <1>2
  <2> QED BY <1>0, <1>c, <1>3, <1>s, <2>1, <2>2, <2>3, CompletedKeeps
<1> QED BY <1>4, <1>5, <1>6, <1>7, <1>8, <1>9, <1>10 DEF OrderInv

\* Steps without a write keep the order,
LEMMA QuietKeepsOrder ==
    ASSUME IInv, DeletionInv, OrderInv, IInv', QuietStep
    PROVE  OrderInv' /\ Advance
<1>0. /\ TypeOK /\ TypeOK' /\ api \in Backup /\ w \in Backup /\ w' \in Backup
      /\ Kept /\ api' = api /\ processed' = processed /\ WorkerFrame /\ Written
      /\ FailureHasCause /\ FailedNotCompleted /\ Taken /\ StartsEarly /\ WorkerState /\ EarlyCopies
  BY DEF IInv, OrderInv, TypeOK, QuietStep, StartsEarly, EarlyCopies, Kept, Written
<1>1. Copies' = Copies BY <1>0, WrittenCopies DEF WorkerFrame
<1>2. /\ pc # "scheduled" /\ pc' \in SyncPcs \cup {"idle"}
      /\ w' = NoBackup \/ (w'.rv = w.rv /\ SameVersion(w', w))
      /\ w'.rv # 0 => MoveFits(pc') /\ w.rv # 0 /\ w'.rv = w.rv /\ SameVersion(w', w)
      /\ pc' = "noVolume" => wanted = {}
  BY EmptyBackup DEF QuietStep, SyncPcs
<1>3. Advance BY <1>0, FollowsOrder DEF Advance
<1>4. VersionsInOrder' /\ WorkerEqual' BY <1>0, <1>2, <1>3, VersionsKeep DEF WorkerFrame
<1>5. Taken' BY <1>0, <1>2 DEF Taken
<1>6. StartsEarly'
  <2>1. ASSUME api.rv # 0, w'.rv # 0
        PROVE  /\ pc' \in StartPcs => Rank(w') = 0 /\ ~Late(api)
               /\ pc' = "validated" => Rank(w') <= 1 /\ ~Late(w')
    <3>1. Rank(w') = Rank(w) /\ (Late(w') => Rank(w') # 0)
      BY <1>0, <1>2, <2>1, FollowsOrder DEF Late
    <3>2. pc' \in StartPcs \cup {"validated"} => pc \in StartPcs
      BY <1>2, <2>1 DEF MoveFits, StartPcs
    <3> QED BY <1>0, <1>2, <2>1, <3>1, <3>2 DEF StartsEarly
  <2>2. pc' # "finalizer" BY <1>2, PcSets
  <2> QED BY <1>0, <1>1, <2>1, <2>2 DEF StartsEarly, EarlyCopies
<1>7. WorkerState'
  <2>1. ASSUME w'.rv # 0
        PROVE  StateAt(pc', w'.state) /\ (pc' \in Locked => pc \in Locked)
    BY <1>2, <2>1 DEF MoveFits, SameVersion
  <2> QED BY <1>0, <1>2, <2>1 DEF WorkerState
<1>8. FailureHasCause'
  <2>1. LiveVBCs' # {} => LiveVBCs # {} \/ wanted # {}
    BY DEF QuietStep, LiveVBCs, VBCs
  <2>2. \A v \in VBCs : vbc[v] = "Failed" => vbc'[v] = "Failed" BY DEF QuietStep
  <2> QED BY <1>0, <1>2, <2>1, <2>2, CausesKeep DEF WorkerFrame
<1>9. FailedNotCompleted'
  <2>1. ASSUME pc' \in {"sync", "volumes"}, w'.rv # 0, VolumesFailed(w')
        PROVE  "volume-backup-completed" \notin w'.ann
    <3>1. pc = "sync" /\ VolumesFailed(w) /\ w'.ann = w.ann
      BY <1>2, <2>1 DEF MoveFits, SameVersion, VolumesFailed
    <3> QED BY <1>0, <1>2, <2>1, <3>1 DEF FailedNotCompleted
  <2> QED BY <1>0, <1>1, <2>1, CompletedKeeps DEF WorkerFrame
<1> QED BY <1>3, <1>4, <1>5, <1>6, <1>7, <1>8, <1>9 DEF OrderInv

\* taking the key does,
LEMMA QueueKeepsOrder ==
    ASSUME IInv, DeletionInv, OrderInv, IInv', QueueOutcome
    PROVE  OrderInv' /\ Advance
<1>0. /\ TypeOK /\ TypeOK' /\ api \in Backup /\ w \in Backup /\ w' \in Backup /\ cache \in Backup
      /\ processed \in Nat /\ cache.rv \in Nat /\ \A c \in Copies : c.rv \in Nat
      /\ Kept /\ api' = api /\ WorkerFrame /\ Written /\ VolumesKept /\ LiveVBCs' = LiveVBCs
      /\ FailureHasCause /\ FailedNotCompleted /\ Taken /\ StartsEarly /\ WorkerState /\ EarlyCopies
      /\ pc = "idle"
  BY SameLive, CopyTypes, CopyCases
     DEF IInv, OrderInv, TypeOK, QueueOutcome, StartsEarly, EarlyCopies, Kept, Written, VolumesKept
<1>1. Copies' = Copies BY <1>0, WrittenCopies DEF WorkerFrame
<1>2. \/ pc' = pc /\ w' = w /\ processed' = processed
      \/ /\ cache.rv # 0 /\ processed <= cache.rv /\ processed' = cache.rv /\ w' = cache
         /\ \/ cache.del /\ pc' = "delVBC"
            \/ cache.stage \in {"unset", "Initial"} /\ pc' = "finalizer"
            \/ ~cache.del /\ pc' = "sync"
  BY DEF QueueOutcome
<1>p. {"idle", "delVBC", "sync"} \cap (Locked \cup StartPcs \cup {"noVolume", "validated", "finalizer", "scheduled"}) = {}
  BY DEF Locked, StartPcs
<1>q. "finalizer" \notin Locked BY DEF Locked
<1>3. Advance BY <1>0, FollowsOrder DEF Advance
<1>4. VersionsInOrder' /\ WorkerEqual'
  <2>1. w' = w => w'.rv = w.rv /\ SameVersion(w', w) BY <1>0, FollowsOrder
  <2> QED BY <1>0, <1>2, <1>3, <2>1, VersionsKeep, CopyCases DEF WorkerFrame
<1>5. Taken' BY <1>0, <1>2 DEF Taken
<1>6. StartsEarly'
  <2>1. EarlyCopies' BY <1>0, <1>1, <1>2 DEF EarlyCopies
  <2>2. CASE pc' \in {"idle", "delVBC", "sync"} BY <1>p, <2>1, <2>2 DEF StartsEarly, EarlyCopies
  <2>3. CASE pc' = "finalizer"
    <3>1. w' = cache /\ cache.rv # 0 /\ processed <= cache.rv /\ cache.stage \in {"unset", "Initial"}
      BY <1>0, <1>2, <2>3
    <3>2. Rank(cache) = 0 BY <1>0, <3>1, RankOf
    <3>3. api.rv # 0 => ~Late(api) /\ (cache.fin \/ Rank(api) = 0)
      BY <1>0, <3>1, <3>2, CopyCases DEF EarlyCopies
    <3> QED BY <1>0, <2>1, <2>3, <3>1, <3>2, <3>3 DEF StartsEarly, EarlyCopies
  <2> QED BY <1>0, <1>2, <2>2, <2>3
<1>7. WorkerState' BY <1>0, <1>2, <1>p, <1>q DEF WorkerState, StateAt
<1>8. FailureHasCause' BY <1>0, <1>2, <1>p, CausesKeep DEF WorkerFrame, VolumesKept
<1>9. FailedNotCompleted'
  <2>1. ASSUME pc' \in {"sync", "volumes"}, VolumesFailed(w')
        PROVE  "volume-backup-completed" \notin w'.ann
    <3>1. w' = cache /\ ~cache.del BY <1>0, <1>2, <2>1
    <3> QED BY <1>0, <2>1, <3>1, CopyCases DEF FailedNotCompleted
  <2> QED BY <1>0, <1>1, <2>1, CompletedKeeps DEF WorkerFrame
<1> QED BY <1>3, <1>4, <1>5, <1>6, <1>7, <1>8, <1>9 DEF OrderInv

\* and so does a deletion that has not yet taken the finalizer,
LEMMA DeleteKeepsOrder ==
    ASSUME IInv, DeletionInv, OrderInv, IInv', DeleteStep
    PROVE  OrderInv' /\ Advance
<1>0. /\ TypeOK /\ TypeOK' /\ api \in Backup /\ w \in Backup /\ w' \in Backup
      /\ Kept /\ api' = api /\ WorkerFrame /\ Written /\ LiveVBCs' = LiveVBCs /\ processed' = processed
      /\ FailureHasCause /\ FailedNotCompleted /\ Taken /\ StartsEarly /\ WorkerState /\ EarlyCopies
      /\ vbc' = vbc
  BY SameLive
     DEF IInv, OrderInv, TypeOK, DeleteStep, StartsEarly, EarlyCopies, Kept, Written
<1>1. Copies' = Copies BY <1>0, WrittenCopies DEF WorkerFrame
<1>2. /\ w' = w \/ w' = NoBackup
      /\ pc' \in DeletePcs \cup {"idle"} /\ pc \in DeletePcs
  BY DEF DeleteStep
<1>p. (DeletePcs \cup {"idle"}) \cap (Locked \cup StartPcs \cup
         {"noVolume", "validated", "finalizer", "scheduled", "sync", "volumes"}) = {}
  BY DEF Locked, StartPcs, DeletePcs
<1>3. Advance BY <1>0, FollowsOrder DEF Advance
<1>4. VersionsInOrder' /\ WorkerEqual'
  <2>1. w' = w => w'.rv = w.rv /\ SameVersion(w', w) BY <1>0, FollowsOrder
  <2> QED BY <1>0, <1>2, <1>3, <2>1, VersionsKeep DEF WorkerFrame
<1>5. Taken' BY <1>0, <1>2, <1>p, EmptyBackup DEF Taken
<1>6. StartsEarly' BY <1>0, <1>1, <1>2, <1>p DEF StartsEarly, EarlyCopies
<1>7. WorkerState'
  <2>1. StateAt(pc', w'.state) BY <1>2 DEF StateAt, DeletePcs
  <2> QED BY <1>2, <1>p, <2>1 DEF WorkerState
<1>8. FailureHasCause' BY <1>0, <1>2, <1>p, CausesKeep DEF WorkerFrame
<1>9. FailedNotCompleted' BY <1>0, <1>1, <1>2, <1>p, CompletedKeeps DEF WorkerFrame
<1> QED BY <1>3, <1>4, <1>5, <1>6, <1>7, <1>8, <1>9 DEF OrderInv

\* the removal of the object,
LEMMA RemovalKeepsOrder ==
    ASSUME OrderInv, api' = NoBackup, \A c \in Copies' : c \in Copies \/ c = NoBackup,
           UNCHANGED <<rpc, rc, wanted, vbc>>,
           \/ pc' = pc /\ w' = w /\ processed' = processed
           \/ pc' = "idle" /\ w' = NoBackup
    PROVE  OrderInv' /\ Advance
<1>0. /\ FailureHasCause /\ FailedNotCompleted /\ Taken /\ WorkerState /\ api'.rv = 0
      /\ ~VolumesFailed(api') /\ LiveVBCs' = LiveVBCs /\ Gone(api')
  BY EmptyBackup, SameLive DEF OrderInv, VolumesFailed, Gone
<1>1. VersionsInOrder' /\ WorkerEqual' /\ StartsEarly' /\ Advance
  BY <1>0 DEF VersionsInOrder, WorkerEqual, StartsEarly, Advance
<1>2. Taken' BY <1>0, EmptyBackup DEF Taken
<1>3. WorkerState' BY <1>0, EmptyBackup DEF WorkerState
<1>4. FailureHasCause' BY <1>0, CausesKeep
<1>5. FailedNotCompleted'
  <2>1. pc' \in {"sync", "volumes"} /\ w'.rv # 0 /\ VolumesFailed(w') =>
           "volume-backup-completed" \notin w'.ann
    BY <1>0 DEF FailedNotCompleted
  <2> QED BY <1>0, <2>1, CompletedKeeps
<1> QED BY <1>1, <1>2, <1>3, <1>4, <1>5 DEF OrderInv

\* and a restart.
LEMMA RestartKeepsOrder ==
    ASSUME IInv, OrderInv, TypeOK', NEW b \in {api, NoBackup}, Restart(b), UNCHANGED volVars
    PROVE  OrderInv' /\ Advance
<1>0. /\ FailureHasCause /\ FailedNotCompleted /\ api \in Backup /\ api' \in Backup
  BY DEF OrderInv, IInv, TypeOK
<1>1. /\ api' = b /\ cache' = b /\ watch' = <<>> /\ pc' = "idle" /\ w' = NoBackup /\ rpc' = "idle"
      /\ wanted' = wanted /\ vbc' = vbc /\ LiveVBCs' = LiveVBCs
  BY SameLive DEF Restart, volVars
<1>2. Copies' = {b} BY <1>1 DEF Copies
<1>3. Advance BY <1>0, <1>1, FollowsOrder, EmptyBackup DEF Advance
<1>4. VersionsInOrder'
  <2>1. \A x \in {b, NoBackup}, y \in {b} : x.rv # 0 => Follows(x, y)
    BY <1>0, <1>1, FollowsOrder, EmptyBackup
  <2> QED BY <1>1, <1>2, <2>1 DEF VersionsInOrder
<1>5. WorkerEqual' /\ Taken' BY <1>1, EmptyBackup DEF WorkerEqual, Taken
<1>6. StartsEarly'
  <2>1. "idle" \notin StartPcs BY DEF StartPcs
  <2> QED BY <1>1, <1>2, <2>1, EmptyBackup DEF StartsEarly, Late
<1>7. WorkerState' BY <1>1, EmptyBackup DEF WorkerState, Locked
<1>8. VolumesFailed(api') => api' = api BY <1>1, EmptyBackup DEF VolumesFailed
<1>9. Gone(api) => Gone(api') BY <1>1, EmptyBackup DEF Gone
<1>10. FailureHasCause' BY <1>0, <1>1, <1>8, <1>9, CausesKeep
<1>11. FailedNotCompleted' BY <1>0, <1>1, <1>2, <1>8, EmptyBackup, CompletedKeeps
<1> QED BY <1>3, <1>4, <1>5, <1>6, <1>7, <1>10, <1>11 DEF OrderInv

\* A step that leaves the worker, and the status, alone keeps the order,
LEMMA OthersKeepOrder ==
    ASSUME IInv, OrderInv, IInv', Written, SameStatus, UNCHANGED <<cache, processed, pc, w, wanted>>,
           LiveVBCs' \subseteq LiveVBCs, api.del => api'.del,
           Gone(api) \/ \A v \in VBCs : vbc[v] = "Failed" => vbc'[v] = "Failed"
    PROVE  /\ VersionsInOrder' /\ WorkerEqual' /\ Taken' /\ StartsEarly' /\ WorkerState' /\ Advance
           /\ (rpc' = "fail" => rpc = "fail") => FailureHasCause'
           /\ Gone(api) => Gone(api')
<1>0. /\ TypeOK /\ TypeOK' /\ api \in Backup /\ api' \in Backup /\ w \in Backup /\ w' \in Backup
      /\ FailureHasCause /\ FailedNotCompleted /\ Taken /\ StartsEarly /\ WorkerState /\ EarlyCopies
  BY DEF IInv, OrderInv, TypeOK, StartsEarly, EarlyCopies
<1>1. Advance BY <1>0, FollowsOrder DEF Advance, SameStatus
<1>2. VersionsInOrder' /\ WorkerEqual' BY <1>0, <1>1, FollowsOrder, VersionsKeep
<1>c. /\ \A c \in Copies' : c \in Copies \/ (c = api' /\ api.rv # 0)
      /\ api.rv = 0 => api' = api
  BY <1>0, WrittenCopies
<1>s. /\ Rank(api') = Rank(api) /\ (Late(api') <=> Late(api))
      /\ (VolumesFailed(api') <=> VolumesFailed(api))
  BY SameStatusIs
<1>3. Taken' BY <1>0 DEF Taken
<1>4. StartsEarly'
  <2>1. EarlyCopies' BY <1>0, <1>c, EarlyKeeps
  <2> QED BY <1>0, <1>c, <1>s, <2>1 DEF StartsEarly, EarlyCopies
<1>5. WorkerState' BY <1>0, <1>c DEF WorkerState, SameStatus
<1>6. Gone(api) => Gone(api') BY <1>c DEF Gone
<1>7. (rpc' = "fail" => rpc = "fail") => FailureHasCause'
  BY <1>0, <1>6, <1>s, CausesKeep
<1> QED BY <1>1, <1>2, <1>3, <1>4, <1>5, <1>6, <1>7

\* like that of a user,
LEMMA UserKeepsOrder ==
    ASSUME IInv, DeletionInv, OrderInv, IInv', UserDelete \/ UserTouch
    PROVE  OrderInv' /\ Advance
<1>0. TypeOK /\ TypeOK' /\ FailedNotCompleted BY DEF IInv, OrderInv
<1>1. CASE UserOutcome
  <2>1. /\ Written /\ SameStatus /\ UNCHANGED <<cache, processed, pc, w, wanted, vbc, rpc, rc>>
        /\ LiveVBCs' = LiveVBCs /\ (api.del => api'.del) /\ api'.ann = api.ann
    BY <1>1, SameLive DEF UserOutcome, WorkerStays, SameStatus
  <2>2. /\ VersionsInOrder' /\ WorkerEqual' /\ Taken' /\ StartsEarly' /\ WorkerState' /\ Advance
        /\ FailureHasCause'
    BY <2>1, OthersKeepOrder
  <2>3. FailedNotCompleted'
    <3>1. \A c \in Copies' : c \in Copies \/ c = api' BY <1>0, <2>1, WrittenCopies
    <3>2. VolumesFailed(api') => VolumesFailed(api) BY <2>1, SameStatusIs
    <3> QED BY <1>0, <2>1, <3>1, <3>2, CompletedKeeps DEF FailedNotCompleted
  <2> QED BY <2>2, <2>3 DEF OrderInv
<1>2. CASE UserDelete /\ Remove /\ ~api.fin
  <2>1. /\ api.rv # 0 /\ UNCHANGED <<cache, pc, w, processed, rpc, rc, wanted, vbc>>
    BY <1>2 DEF UserDelete, storeVars, workerVars, rcVars, volVars
  <2>2. \A c \in Copies : ~c.fin /\ Rank(c) = 0
    BY <1>2, <2>1 DEF DeletionInv, MarksKept
  <2>3. \A c \in Copies' : c \in Copies \/ c = NoBackup
    BY <1>0, <1>2, <2>1, <2>2, RemovedKeeps DEF DeletionInv
  <2>4. api' = NoBackup BY <1>2 DEF Remove
  <2> QED BY <2>1, <2>3, <2>4, RemovalKeepsOrder
<1> QED BY <1>0, <1>1, <1>2, UserIs

\* of a volume provider,
LEMMA ProviderKeepsOrder ==
    ASSUME IInv, DeletionInv, OrderInv, IInv', ProviderOutcome
    PROVE  OrderInv' /\ Advance
<1>0. /\ TypeOK /\ TypeOK' /\ FailedNotCompleted /\ Written /\ SameStatus /\ Kept /\ api' = api
      /\ UNCHANGED <<cache, processed, pc, w, wanted, rpc, rc>>
      /\ LiveVBCs' \subseteq LiveVBCs
  BY DEF IInv, OrderInv, ProviderOutcome, Kept, Written, SameStatus
<1>1. Gone(api) \/ \A v \in VBCs : vbc[v] = "Failed" => vbc'[v] = "Failed"
  BY DEF ProviderOutcome, DeletionInv, DeleterKnows
<1>2. /\ VersionsInOrder' /\ WorkerEqual' /\ Taken' /\ StartsEarly' /\ WorkerState' /\ Advance
      /\ FailureHasCause'
  BY <1>0, <1>1, OthersKeepOrder
<1>3. Copies' = Copies BY <1>0, WrittenCopies
<1>4. FailedNotCompleted' BY <1>0, <1>3, CompletedKeeps DEF FailedNotCompleted
<1> QED BY <1>2, <1>4 DEF OrderInv

\* a step in which nothing moves,
LEMMA IdleKeepsOrder ==
    ASSUME IInv, OrderInv, IInv', NothingMoves
    PROVE  OrderInv' /\ Advance
<1>0. /\ TypeOK /\ TypeOK' /\ FailedNotCompleted /\ Written /\ SameStatus /\ Kept /\ api' = api
      /\ UNCHANGED <<cache, processed, pc, w, wanted, rpc, rc, vbc>>
      /\ LiveVBCs' = LiveVBCs
  BY SameLive DEF IInv, OrderInv, NothingMoves, WorkerStays, Kept, Written, SameStatus
<1>1. /\ VersionsInOrder' /\ WorkerEqual' /\ Taken' /\ StartsEarly' /\ WorkerState' /\ Advance
      /\ FailureHasCause'
  BY <1>0, OthersKeepOrder
<1>2. Copies' = Copies BY <1>0, WrittenCopies
<1>3. FailedNotCompleted' BY <1>0, <1>2, CompletedKeeps DEF FailedNotCompleted
<1> QED BY <1>1, <1>3 DEF OrderInv

\* and a delivery.
LEMMA InformerKeepsOrder ==
    ASSUME IInv, OrderInv, Informer
    PROVE  OrderInv' /\ Advance
<1>0. /\ TypeOK /\ api \in Backup /\ OrderInv /\ FailedNotCompleted /\ EarlyCopies
  BY DEF IInv, TypeOK, OrderInv, StartsEarly, EarlyCopies
<1>1. /\ api' = api /\ UNCHANGED <<processed, pc, w, wanted, rpc, rc, vbc>> /\ LiveVBCs' = LiveVBCs
      /\ Copies' \subseteq Copies
  BY <1>0, SameLive, Delivered DEF Informer, storeVars, workerVars, rcVars, volVars
<1>2. VersionsInOrder' BY <1>0, <1>1 DEF OrderInv, VersionsInOrder
<1>3. WorkerEqual' /\ Taken' /\ WorkerState'
  BY <1>0, <1>1 DEF OrderInv, WorkerEqual, Taken, WorkerState
<1>4. StartsEarly' BY <1>0, <1>1 DEF OrderInv, StartsEarly
<1>5. FailureHasCause' BY <1>0, <1>1, CausesKeep DEF OrderInv
<1>6. FailedNotCompleted' BY <1>0, <1>1, CompletedKeeps DEF FailedNotCompleted
<1>7. Advance BY <1>0, <1>1, FollowsOrder DEF Advance
<1> QED BY <1>2, <1>3, <1>4, <1>5, <1>6, <1>7 DEF OrderInv

\* The reconciler keeps the order: it fails the version it read, and annotates none that
\* has failed.
LEMMA ReconcilerKeepsOrder ==
    ASSUME IInv, DeletionInv, OrderInv, IInv', ReconcilerOutcome
    PROVE  OrderInv' /\ Advance
<1>0. /\ TypeOK /\ TypeOK' /\ api \in Backup /\ api' \in Backup /\ w \in Backup /\ w' \in Backup
      /\ FailureHasCause /\ FailedNotCompleted /\ Taken /\ StartsEarly /\ WorkerState /\ EarlyCopies
      /\ UNCHANGED <<cache, processed, pc, w, wanted, vbc>> /\ LiveVBCs' = LiveVBCs /\ VBCs' = VBCs
      /\ api.rv \in Nat
  BY SameLive, CopyTypes
     DEF IInv, OrderInv, TypeOK, StartsEarly, EarlyCopies, ReconcilerOutcome, WorkerStays, VBCs
<1>1. \/ Kept
      \/ /\ rpc = "fail" /\ rpc' = "idle" /\ rc.rv = api.rv
         /\ Written /\ api.rv # 0 /\ api'.stage = rc.stage /\ api'.state = "Failed"
         /\ api'.fin = api.fin /\ api'.del = api.del /\ api'.ann = api.ann
      \/ rpc = "annCompleted" /\ rpc' = "idle" /\ Annotated("volume-backup-completed")
      \/ rpc = "annDeleted" /\ rpc' = "idle" /\ Annotated("volume-backup-delete-completed")
  BY DEF ReconcilerOutcome
<1>2. Written BY <1>1 DEF Written, Annotated
<1>c. /\ \A c \in Copies' : c \in Copies \/ (c = api' /\ api.rv # 0)
      /\ api.rv = 0 => api' = api
      /\ Kept => Copies' = Copies
  BY <1>0, <1>2, WrittenCopies
<1>v. \A v \in VBCs : vbc[v] = "Failed" => vbc'[v] = "Failed" BY <1>0
<1>e. api.rv = 0 => ~VolumesFailed(api)
  BY EmptyBackup DEF IInv, RemovedIsEmpty, VolumesFailed
<1>f. \* what the reconciler decides
      /\ rpc' = "fail" =>
            rc' = rc /\ isReconcileRequired(rc) /\ LiveVBCs # {} /\ \E v \in VBCs : vbc[v] = "Failed"
      /\ rpc' = "annCompleted" => ~VolumesFailed(api) \/ api.del
  <2>1. rpc' = "fail" =>
            rc' = rc /\ isReconcileRequired(rc) /\ LiveVBCs # {} /\ \E v \in VBCs : vbc[v] = "Failed"
    BY DEF ReconcilerOutcome, LiveVBCs
  <2>2. ASSUME rpc' = "annCompleted", VolumesFailed(api), ~api.del PROVE FALSE
    <3>1. PICK v \in VBCs : vbc[v] = "Failed" BY <1>0, <1>e, <2>2 DEF FailureHasCause, Gone
    <3>2. v \in LiveVBCs BY <3>1 DEF LiveVBCs
    <3> QED BY <2>2, <3>1, <3>2 DEF ReconcilerOutcome
  <2> QED BY <2>1, <2>2
<1>3. CASE SameStatus /\ api'.del = api.del
           /\ ("volume-backup-completed" \in api'.ann =>
                  \/ "volume-backup-completed" \in api.ann
                  \/ rpc = "annCompleted")
           /\ (rpc' = "idle" \/ Kept)
  <2>1. /\ VersionsInOrder' /\ WorkerEqual' /\ Taken' /\ StartsEarly' /\ WorkerState' /\ Advance
        /\ (rpc' = "fail" => rpc = "fail") => FailureHasCause'
        /\ Gone(api) => Gone(api')
    BY <1>0, <1>2, <1>3, <1>v, OthersKeepOrder
  <2>2. VolumesFailed(api') <=> VolumesFailed(api) BY <1>3, SameStatusIs
  <2>3. FailureHasCause'
    <3>1. CASE rpc' = "fail"
      <4>1. wanted # {} BY <1>0, <1>f, <3>1 DEF FailureHasCause
      <4>2. \E v \in VBCs' : vbc'[v] = "Failed" BY <1>0, <1>f, <3>1
      <4>3. /\ (wanted' = {} => LiveVBCs' = {}) /\ (pc' = "noVolume" => wanted' = {})
        BY <1>0 DEF FailureHasCause
      <4> QED BY <1>0, <4>1, <4>2, <4>3 DEF FailureHasCause
    <3>2. CASE rpc' # "fail" BY <2>1, <3>2
    <3> QED BY <3>1, <3>2
  <2>4. FailedNotCompleted'
    <3>1. VolumesFailed(api') /\ ~api'.del => "volume-backup-completed" \notin api'.ann
      BY <1>0, <1>3, <2>2 DEF FailedNotCompleted
    <3>2. \A c \in Copies' \cup {api'} :
             VolumesFailed(c) /\ ~c.del => "volume-backup-completed" \notin c.ann
      BY <1>0, <1>c, <3>1 DEF FailedNotCompleted
    <3>3. rpc' = "fail" => isReconcileRequired(rc') BY <1>f
    <3>4. rpc' = "annCompleted" /\ ~api'.del => ~VolumesFailed(api') BY <1>3, <1>f, <2>2
    <3>5. /\ isReconcileRequired(rc)' <=> isReconcileRequired(rc')
          /\ VolumesFailed(api)' <=> VolumesFailed(api')
          /\ VolumesFailed(w)' <=> VolumesFailed(w)
      BY <1>0 DEF isReconcileRequired, VolumesFailed
    <3> QED BY <1>0, <3>2, <3>3, <3>4, <3>5 DEF FailedNotCompleted, VolumesFailed
  <2> QED BY <2>1, <2>3, <2>4 DEF OrderInv
<1>4. CASE /\ rpc = "fail" /\ rpc' = "idle" /\ rc.rv = api.rv /\ api.rv # 0
           /\ api'.stage = rc.stage /\ api'.state = "Failed"
           /\ api'.fin = api.fin /\ api'.del = api.del /\ api'.ann = api.ann
  <2>1. rc = api /\ isReconcileRequired(rc)
    BY <1>0, <1>4 DEF IInv, CopiesAgree, Agrees, FailedNotCompleted
  <2>2. /\ api.stage = "Volumes" /\ api'.stage = "Volumes" /\ Rank(api) = 2 /\ Rank(api') = 2
        /\ "volume-backup-completed" \notin api'.ann
    BY <1>0, <1>4, <2>1, RankOf DEF isReconcileRequired
  <2>3. Advance BY <1>4, <2>2 DEF Advance, Follows, Late
  <2>4. VersionsInOrder' /\ WorkerEqual'
    <3>1. w' = w /\ w'.rv = w.rv /\ SameVersion(w', w) BY <1>0, FollowsOrder
    <3> QED BY <1>0, <1>2, <2>3, <3>1, VersionsKeep
  <2>5. Taken' BY <1>0 DEF Taken
  <2>6. StartsEarly'
    <3>1. \A c \in Copies : c.rv # 0 /\ c.rv >= processed => Rank(c) # 0
      BY <1>4, <2>2 DEF IInv, BoundedLag, Lags
    <3>2. \A c \in Copies' : c.rv # 0 /\ c.rv >= processed => Rank(c) # 0
      BY <1>c, <2>2, <3>1
    <3>3. w.rv # 0 => Rank(w) # 0 BY <1>4, <2>2 DEF IInv, WorkerAgrees
    <3>4. pc = "finalizer" => w.rv # 0 BY DEF DeletionInv, HandlersHold
    <3> QED BY <1>0, <1>4, <2>2, <3>2, <3>3, <3>4 DEF StartsEarly, StartPcs
  <2>7. WorkerState' BY <1>0, <1>4 DEF WorkerState
  <2>8. FailureHasCause'
    BY <1>0, <1>4, <1>v, CausesKeep DEF Gone, FailureHasCause
  <2>9. FailedNotCompleted'
    <3>1. /\ isReconcileRequired(rc)' <=> isReconcileRequired(rc')
          /\ VolumesFailed(w)' <=> VolumesFailed(w)
      BY <1>0 DEF isReconcileRequired, VolumesFailed
    <3> QED BY <1>0, <1>4, <1>c, <2>2, <3>1 DEF FailedNotCompleted, VolumesFailed
  <2> QED BY <2>3, <2>4, <2>5, <2>6, <2>7, <2>8, <2>9 DEF OrderInv
<1>5. CASE Kept BY <1>3, <1>5 DEF Kept, SameStatus
<1>6. CASE /\ rpc' = "idle"
           /\ \/ rpc = "annCompleted" /\ Annotated("volume-backup-completed")
              \/ Annotated("volume-backup-delete-completed")
  BY <1>3, <1>6 DEF Annotated, SameStatus
<1> QED BY <1>1, <1>4, <1>5, <1>6

-----------------------------------------------------------------------------
(* What the stages promise *)

\* A version the store lets through is not older than the processed one.
LEMMA NotOlder ==
    ASSUME IInv
    PROVE  /\ api.rv # 0 => api.rv >= processed
           /\ api.rv \in Nat /\ processed \in Nat /\ \A c \in Copies : c.rv \in Nat
BY CopyTypes DEF IInv, WorkerAgrees

\* A status write promises what it may: it fits.
LEMMA StatusKeepsPromise ==
    ASSUME IInv, DeletionInv, OrderInv, PromiseInv, IInv', NEW b, NEW next, StatusStep(b, next)
    PROVE  PromiseInv'
<1>0. /\ TypeOK /\ TypeOK' /\ Quiesced /\ ArchiveKept /\ ArchiveGoes /\ apps' = apps
      /\ archive' = archive /\ cache' = cache /\ b.rv = w.rv
  BY DEF PromiseInv, IInv, StatusStep, HostsKept, WorkerFrame
<1>1. w.rv # 0 => StatusFits(b, next) BY DEF StatusStep
<1>2. \/ Wrote(b) /\ w.rv # 0 /\ StoredRevision /\ (w' = api' \/ w' = NoBackup)
      \/ Wrote(b) /\ w.rv # 0 /\ processed' = processed /\ w' = NoBackup
      \/ Kept /\ processed' = processed /\ (w' = NoBackup \/ (w' = w /\ b = w))
  BY <1>0 DEF StatusStep, StatusOutcome, Wrote, Leads, Stopped
<1>3. pc' \notin {"toVolumes", "resOK", "delFinalizer"}
  <2>1. next \in SyncPcs \cup {"return"} /\ next \notin {"toVolumes", "resOK", "delFinalizer"}
    BY PcSets DEF StatusStep, StatusNexts
  <2> QED BY <2>1, LeadsTo DEF StatusStep, StatusOutcome
<1>4. Written /\ (~Gone(api') => ~Gone(api))
  BY <1>2 DEF Written, Wrote, Kept, Gone
<1>c. /\ \A c \in Copies' : c \in Copies \/ c = api'
      /\ Kept => Copies' = Copies /\ api' = api
  BY <1>0, <1>4, WrittenCopies DEF Kept
<1>5. processed' >= processed /\ processed \in Nat /\ \A c \in Copies \cup {api} : c.rv \in Nat
  <2>1. processed \in Nat /\ api'.rv \in Nat BY <1>0, BackupFields DEF TypeOK
  <2> QED BY <1>2, <2>1, NotOlder DEF StoredRevision
<1>6. Wrote(b) /\ w.rv # 0 =>
         /\ StatusFits(b, next) /\ api'.stage = b.stage /\ api'.state = b.state
         /\ MayTakeSnapshots(api') => Held(apps)
         /\ Archived(api') /\ ~Gone(api) => archive = "stored"
         /\ api'.stage = "Finished" => api'.state # "Failed"
  BY <1>1 DEF Wrote, StatusFits, MayTakeSnapshots, Archived
<1>7. Quiesced'
  <2>1. ASSUME NEW c \in Copies' \cup {api'}, ~Gone(c), c.rv >= processed', MayTakeSnapshots(c)
        PROVE  Held(apps)
    <3>1. CASE c = api' /\ Wrote(b) /\ w.rv # 0 BY <1>6, <2>1, <3>1
    <3>2. CASE c \in Copies \cup {api}
      <4>1. c.rv >= processed
        <5>1. c.rv \in Nat /\ processed' \in Nat BY <1>0, <1>5, <3>2 DEF TypeOK
        <5> QED BY <1>5, <2>1, <5>1
      <4> QED BY <1>0, <2>1, <3>2, <4>1 DEF Quiesced
    <3> QED BY <1>2, <1>c, <2>1, <3>1, <3>2
  <2>2. ASSUME w'.rv # 0, MayTakeSnapshots(w') PROVE Held(apps)
    <3>1. CASE w' = api' /\ Wrote(b) /\ w.rv # 0 BY <1>6, <2>2, <3>1
    <3>2. CASE w' = w /\ b = w BY <1>1, <2>2, <3>2 DEF StatusFits
    <3> QED BY <1>2, <2>2, <3>1, <3>2, EmptyBackup
  <2> QED BY <1>0, <1>3, <2>1, <2>2 DEF Quiesced
<1>8. ArchiveKept'
  <2>1. ASSUME ~Gone(api'), NEW c \in Copies' \cup {api', w'}, Archived(c) PROVE archive = "stored"
    <3>1. CASE c = api' /\ Wrote(b) /\ w.rv # 0 BY <1>4, <1>6, <2>1, <3>1
    <3>2. CASE c \in Copies \cup {api, w} BY <1>0, <1>4, <2>1, <3>2 DEF ArchiveKept
    <3>3. CASE c = NoBackup BY <2>1, <3>3, EmptyBackup DEF Archived
    <3> QED BY <1>2, <1>c, <2>1, <3>1, <3>2, <3>3
  <2>2. ~Gone(api)' => ~Gone(api') BY DEF Gone
  <2> QED BY <1>0, <1>3, <2>1, <2>2 DEF ArchiveKept
<1>9. ArchiveGoes'
  BY <1>0, <1>2, <1>3, <1>6 DEF ArchiveGoes, Kept
<1> QED BY <1>7, <1>8, <1>9 DEF PromiseInv

\* A write that leaves the status alone breaks no promise.
LEMMA SameKeepsPromise ==
    ASSUME IInv, PromiseInv, IInv', Written, SameStatus, cache' = cache, api.del => api'.del,
           apps' = apps, archive' = archive, processed' >= processed,
           w' = w \/ w' = NoBackup \/ (w' = api' /\ api.rv # 0),
           \/ pc' = pc /\ w' = w
           \/ pc' \notin SnapshotPcs \cup {"toVolumes", "resOK", "delFinalizer"}
    PROVE  PromiseInv'
<1>0. /\ TypeOK /\ TypeOK' /\ Quiesced /\ ArchiveKept /\ ArchiveGoes
      /\ processed \in Nat /\ processed' \in Nat
  BY DEF PromiseInv, IInv, TypeOK
<1>1. (MayTakeSnapshots(api') <=> MayTakeSnapshots(api)) /\ (Archived(api') <=> Archived(api))
  BY SameStatusIs
<1>c. /\ \A c \in Copies' : c \in Copies \/ c = api'
      /\ api.rv = 0 => api' = api
  BY <1>0, WrittenCopies
<1>2. ~Gone(api') => ~Gone(api) BY <1>c DEF Gone
<1>3. Quiesced'
  <2>1. ASSUME NEW c \in Copies' \cup {api'}, ~Gone(c), c.rv >= processed', MayTakeSnapshots(c)
        PROVE  Held(apps)
    <3>1. CASE c = api'
      <4>1. api.rv # 0 /\ ~Gone(api) BY <1>2, <2>1, <3>1 DEF Gone
      <4> QED BY <1>0, <1>1, <2>1, <3>1, <4>1, NotOlder DEF Quiesced
    <3>2. CASE c \in Copies
      <4>1. c.rv \in Nat BY <3>2, NotOlder
      <4>2. c.rv >= processed BY <1>0, <2>1, <4>1
      <4> QED BY <1>0, <2>1, <3>2, <4>2 DEF Quiesced
    <3> QED BY <1>c, <2>1, <3>1, <3>2
  <2> QED BY <1>0, <2>1 DEF Quiesced, SnapshotPcs
<1>4. ArchiveKept'
  <2>1. ASSUME ~Gone(api'), NEW c \in Copies' \cup {api', w'}, Archived(c) PROVE archive = "stored"
    <3>1. CASE c = api' BY <1>0, <1>1, <1>2, <2>1, <3>1 DEF ArchiveKept
    <3>2. CASE c \in Copies \cup {w} BY <1>0, <1>2, <2>1, <3>2 DEF ArchiveKept
    <3>3. CASE c = NoBackup BY <2>1, <3>3, EmptyBackup DEF Archived
    <3> QED BY <1>c, <2>1, <3>1, <3>2, <3>3
  <2>2. ~Gone(api)' => ~Gone(api') BY DEF Gone
  <2> QED BY <1>0, <1>2, <2>1, <2>2 DEF ArchiveKept
<1>5. ArchiveGoes' BY <1>0 DEF ArchiveGoes, SameStatus
<1> QED BY <1>3, <1>4, <1>5 DEF PromiseInv

\* So patches and annotations break none.
LEMMA PatchKeepsPromise ==
    ASSUME IInv, PromiseInv, IInv', NEW b, NEW next, PatchStep(b, next) \/ AnnotateStep(b, next)
    PROVE  PromiseInv'
<1>0. TypeOK' /\ processed \in Nat BY DEF IInv, TypeOK
<1>1. /\ PatchOutcome(b, next) \/ AnnotateOutcome(b, next)
      /\ next \in {"initStatus", "validated", "scheduled", "return"}
      /\ b.stage = api.stage /\ b.state = api.state /\ b.del = api.del
      /\ cache' = cache /\ apps' = apps /\ archive' = archive
  BY DEF PatchStep, AnnotateStep, WorkerFrame, HostsKept
<1>2. /\ Kept \/ Patched(b)
      /\ processed' = processed \/ StoredRevision
      /\ w' = w \/ w' = NoBackup \/ (w' = api' /\ Patched(b))
      /\ pc' \in {"initStatus", "validated", "scheduled", "idle"}
  BY <1>1 DEF PatchOutcome, AnnotateOutcome, Leads, Stopped
<1>3. /\ Written /\ SameStatus /\ api'.del = api.del /\ (Patched(b) => api.rv # 0)
  BY <1>1, <1>2 DEF Written, Kept, Patched, Is, SameStatus
<1>4. processed' >= processed
  <2>1. api'.rv \in Nat BY <1>0, BackupFields DEF TypeOK
  <2> QED BY <1>0, <1>2, <2>1 DEF StoredRevision
<1>5. pc' \notin SnapshotPcs \cup {"toVolumes", "resOK", "delFinalizer"} BY <1>2 DEF SnapshotPcs
<1> QED BY <1>1, <1>2, <1>3, <1>4, <1>5, SameKeepsPromise

\* A step without a write breaks none: while a version may be let through for which
\* snapshots are taken, the worker is not where it resumes the applications.
LEMMA QuietKeepsPromise ==
    ASSUME IInv, DeletionInv, OrderInv, PromiseInv, IInv', QuietStep
    PROVE  PromiseInv'
<1>0. /\ TypeOK /\ TypeOK' /\ Quiesced /\ ArchiveKept /\ ArchiveGoes
      /\ Kept /\ api' = api /\ processed' = processed /\ w \in Backup
  BY DEF PromiseInv, IInv, QuietStep, Kept, TypeOK
<1>1. Copies' = Copies
  BY <1>0, WrittenCopies DEF QuietStep, WorkerFrame, Written
<1>2. /\ pc \in SyncPcs \cup {"finalizer"} /\ pc # "scheduled" /\ pc' \in SyncPcs \cup {"idle"}
      /\ w'.rv # 0 => MoveFits(pc') /\ w.rv # 0 /\ SameVersion(w', w)
      /\ w' = NoBackup \/ (w'.rv # 0 => SameVersion(w', w))
      /\ w'.rv = 0 \/ w'.rv # 0
      /\ Held(apps) => Held(apps') \/ (w.rv # 0 /\ pc \in UnfreezePcs)
      /\ archive = "stored" => archive' = "stored"
  BY EmptyBackup DEF QuietStep, SyncPcs
<1>3. ASSUME NEW c \in Copies \cup {api}, ~Gone(c), c.rv >= processed, MayTakeSnapshots(c)
      PROVE  Held(apps')
  <2>1. Held(apps) BY <1>0, <1>3 DEF Quiesced
  <2>2. ASSUME w.rv # 0, pc \in UnfreezePcs PROVE FALSE
    <3>1. api.rv # 0 BY <2>2, PcSets DEF DeletionInv, FinalizerHeld
    <3>2. c \in Backup /\ c.rv \in Nat /\ w.rv \in Nat /\ processed \in Nat BY <1>0, CopyTypes
    <3>3. w.rv <= processed BY <1>2, <2>2 DEF OrderInv, Taken
    <3>4. w.rv <= c.rv BY <1>3, <3>2, <3>3
    <3>5. Follows(w, c) BY <1>3, <2>2, <3>1, <3>4 DEF OrderInv, VersionsInOrder
    <3>6. Rank(c) = 2 /\ ~Late(c) BY <1>3, <3>2, RankOf DEF MayTakeSnapshots, Late
    <3>7. Rank(w) \in Nat /\ Rank(c) \in Nat BY <1>0, <3>2, BackupFields
    <3>8. CASE pc = "postExec"
      <4>1. Rank(w) = 3 BY <1>0, <2>2, <3>8, RankOf DEF IInv, WorkerStage, StageAt
      <4> QED BY <3>5, <3>6, <4>1 DEF Follows
    <3>9. CASE pc \in {"preReverse", "volReverse"}
      <4>1. w.stage \in {"PreHook", "Volumes"} BY <2>2, <3>9 DEF IInv, WorkerStage, StageAt
      <4>2. w.state = "Failed" BY <2>2, <3>9 DEF OrderInv, WorkerState, StateAt
      <4>3. Rank(w) \in {1, 2} BY <1>0, <4>1, RankOf
      <4> QED BY <3>5, <3>6, <4>2, <4>3 DEF Follows, Late
    <3> QED BY <2>2, <3>8, <3>9 DEF UnfreezePcs
  <2> QED BY <1>2, <2>1, <2>2
<1>4. ASSUME w'.rv # 0, pc' \in SnapshotPcs, MayTakeSnapshots(w') PROVE Held(apps')
  <2>1. pc \in SnapshotPcs /\ w.rv # 0 BY <1>2, <1>4 DEF MoveFits
  <2>2. MayTakeSnapshots(w) BY <1>2, <1>4 DEF SameVersion, MayTakeSnapshots
  <2>3. Held(apps) BY <1>0, <2>1, <2>2 DEF Quiesced, SnapshotPcs
  <2>4. pc \notin UnfreezePcs BY <2>1 DEF SnapshotPcs, UnfreezePcs
  <2> QED BY <1>2, <2>3, <2>4
<1>5. pc' = "toVolumes" /\ w'.rv # 0 => Held(apps') BY <1>2 DEF MoveFits
<1>6. Quiesced'
  <2>1. \A c \in Copies' \cup {api'} :
           ~Gone(c) /\ c.rv >= processed' /\ MayTakeSnapshots(c) => Held(apps')
    BY <1>0, <1>1, <1>3
  <2>2. /\ \A c : Gone(c)' <=> Gone(c)
        /\ MayTakeSnapshots(w)' <=> MayTakeSnapshots(w')
    BY DEF MayTakeSnapshots, Gone
  <2> QED BY <1>4, <1>5, <2>1, <2>2 DEF Quiesced, SnapshotPcs
<1>7. ArchiveKept'
  <2>1. ASSUME ~Gone(api), NEW c \in Copies' \cup {api', w'}, Archived(c) PROVE archive' = "stored"
    <3>1. CASE c \in Copies \cup {api} BY <1>0, <1>2, <2>1, <3>1 DEF ArchiveKept
    <3>2. CASE c = w'
      <4>1. w' # NoBackup BY <2>1, <3>2, EmptyBackup DEF Archived
      <4>2. SameVersion(w', w) BY <4>1 DEF QuietStep
      <4>3. Archived(w) BY <2>1, <3>2, <4>2 DEF SameVersion, Archived
      <4> QED BY <1>0, <1>2, <2>1, <4>3 DEF ArchiveKept
    <3> QED BY <1>0, <1>1, <2>1, <3>1, <3>2
  <2>2. pc' = "resOK" /\ w'.rv # 0 => archive' = "stored" BY <1>2 DEF MoveFits
  <2>3. Gone(api)' <=> Gone(api) BY <1>0 DEF Gone
  <2> QED BY <2>1, <2>2, <2>3 DEF ArchiveKept
<1>8. ArchiveGoes' BY <1>0, <1>2, PcSets DEF ArchiveGoes
<1> QED BY <1>6, <1>7, <1>8 DEF PromiseInv

\* Taking the key breaks none: what the store lets through is promised already.
LEMMA QueueKeepsPromise ==
    ASSUME IInv, OrderInv, PromiseInv, IInv', QueueOutcome
    PROVE  PromiseInv'
<1>0. /\ TypeOK /\ TypeOK' /\ Quiesced /\ ArchiveKept /\ ArchiveGoes
      /\ Kept /\ api' = api /\ apps' = apps /\ archive' = archive /\ pc = "idle"
      /\ processed \in Nat /\ \A c \in Copies \cup {api} : c.rv \in Nat
  BY CopyTypes DEF PromiseInv, IInv, QueueOutcome, Kept, HostsKept
<1>1. Copies' = Copies
  BY <1>0, WrittenCopies DEF QueueOutcome, WorkerFrame, Written
<1>2. \/ pc' = pc /\ w' = w /\ processed' = processed
      \/ /\ cache.rv # 0 /\ processed <= cache.rv /\ processed' = cache.rv /\ w' = cache
         /\ pc' \in {"delVBC", "finalizer", "sync"} /\ (pc' = "sync" => ~cache.del)
  BY DEF QueueOutcome
<1>3. \A c \in Copies \cup {api} : c.rv >= processed' => c.rv >= processed
  BY <1>0, <1>2, CopyCases
<1>4. Quiesced'
  <2>1. \A c \in Copies' \cup {api'} :
           ~Gone(c) /\ c.rv >= processed' /\ MayTakeSnapshots(c) => Held(apps')
    BY <1>0, <1>1, <1>3 DEF Quiesced
  <2>2. pc' = "sync" /\ w'.rv # 0 /\ MayTakeSnapshots(w') => Held(apps')
    BY <1>0, <1>2, CopyCases DEF Quiesced, Gone
  <2>3. /\ \A c : Gone(c)' <=> Gone(c)
        /\ MayTakeSnapshots(w)' <=> MayTakeSnapshots(w')
    BY DEF MayTakeSnapshots, Gone
  <2> QED BY <1>0, <1>2, <2>1, <2>2, <2>3 DEF Quiesced
<1>5. ArchiveKept'
  <2>1. Gone(api)' <=> Gone(api) BY <1>0 DEF Gone
  <2>2. pc' # "resOK" /\ w' \in Copies \cup {w} BY <1>0, <1>2, CopyCases
  <2> QED BY <1>0, <1>1, <2>1, <2>2 DEF ArchiveKept
<1>6. ArchiveGoes' BY <1>0, <1>2 DEF ArchiveGoes
<1> QED BY <1>4, <1>5, <1>6 DEF PromiseInv

\* A deletion breaks none: nothing is let through any more, and the archive of a
\* finished backup goes before the finalizer.
LEMMA DeleteKeepsPromise ==
    ASSUME IInv, DeletionInv, OrderInv, PromiseInv, IInv', DeleteStep
    PROVE  PromiseInv'
<1>0. /\ TypeOK /\ TypeOK' /\ Quiesced /\ ArchiveKept /\ ArchiveGoes
      /\ Kept /\ api' = api /\ apps' = apps /\ processed' = processed
      /\ api \in Backup /\ w \in Backup
  BY DEF PromiseInv, IInv, DeleteStep, Kept, TypeOK
<1>1. Copies' = Copies
  BY <1>0, WrittenCopies DEF DeleteStep, WorkerFrame, Written
<1>2. /\ pc \in DeletePcs /\ pc' \in DeletePcs \cup {"idle"}
      /\ w' = w \/ (w' = NoBackup /\ pc' = "idle")
      /\ pc' = "delFinalizer" /\ w.state # "Failed" /\ toOrdinal(w.stage) >= 4 => archive' # "stored"
  BY DEF DeleteStep
<1>3. Quiesced'
  <2>1. \A c \in Copies' \cup {api'} :
           ~Gone(c) /\ c.rv >= processed' /\ MayTakeSnapshots(c) => Held(apps')
    BY <1>0, <1>1 DEF Quiesced
  <2>2. pc' \notin SnapshotPcs \cup {"toVolumes"} BY <1>2 DEF DeletePcs, SnapshotPcs
  <2>3. \A c : Gone(c)' <=> Gone(c) BY DEF Gone
  <2> QED BY <2>1, <2>2, <2>3 DEF Quiesced, SnapshotPcs
<1>4. ArchiveKept'
  <2>1. Gone(api) BY <1>2, AllGone DEF Gone
  <2>2. Gone(api)' BY <1>0, <2>1 DEF Gone
  <2> QED BY <2>2 DEF ArchiveKept
<1>5. ASSUME pc' = "delFinalizer", api.stage = "Finished" PROVE archive' # "stored"
  <2>1. api.rv # 0 BY <1>5, EmptyBackup DEF IInv, RemovedIsEmpty
  <2>2. w.rv # 0 BY <1>2 DEF DeletionInv, HandlersHold
  <2>3. Rank(api) = 5 /\ Rank(w) \in Nat BY <1>0, <1>5, RankOf, BackupFields
  <2>4. Rank(w) >= 4 BY <2>1, <2>2, <2>3 DEF IInv, WorkerAgrees
  <2>5. toOrdinal(w.stage) \in Int BY <1>0, RankIsInt
  <2>6. toOrdinal(w.stage) >= 4 BY <2>3, <2>4, <2>5 DEF Rank
  <2>7. w.rv <= api.rv BY <2>1 DEF IInv, WorkerAgrees
  <2>8. Follows(w, api) BY <2>1, <2>2, <2>7 DEF OrderInv, VersionsInOrder
  <2>9. w.state # "Failed"
    BY <1>0, <1>5, <2>3, <2>4, <2>8 DEF Follows, Late, ArchiveGoes
  <2> QED BY <1>2, <1>5, <2>6, <2>9
<1>6. ArchiveGoes' BY <1>0, <1>5 DEF ArchiveGoes
<1> QED BY <1>3, <1>4, <1>6 DEF PromiseInv

\* The removal of the object breaks none,
LEMMA RemovalKeepsPromise ==
    ASSUME PromiseInv, api' = NoBackup, apps' = apps,
           \A c \in Copies' : c \in Copies \/ c = NoBackup,
           \A c \in Copies : Gone(c) \/ ~MayTakeSnapshots(c),
           (pc' = pc /\ w' = w) \/ (pc' = "idle" /\ w' = NoBackup)
    PROVE  PromiseInv'
<1>1. Gone(NoBackup) /\ Gone(api)' /\ (\A c : Gone(c)' <=> Gone(c)) /\ api'.stage # "Finished"
  BY EmptyBackup DEF Gone
<1>2. Quiesced' BY <1>1 DEF PromiseInv, Quiesced, MayTakeSnapshots
<1>3. ArchiveKept' BY <1>1 DEF ArchiveKept
<1>4. ArchiveGoes' BY <1>1 DEF ArchiveGoes
<1> QED BY <1>2, <1>3, <1>4 DEF PromiseInv

\* a restart does not either,
LEMMA RestartKeepsPromise ==
    ASSUME IInv, PromiseInv, NEW b \in {api, NoBackup}, Restart(b), UNCHANGED envVars
    PROVE  PromiseInv'
<1>0. /\ Quiesced /\ ArchiveKept /\ ArchiveGoes /\ apps' = apps /\ archive' = archive
      /\ api' = b /\ cache' = b /\ watch' = <<>> /\ pc' = "idle" /\ w' = NoBackup
  BY DEF PromiseInv, Restart, envVars
<1>1. Copies' = {b} BY <1>0 DEF Copies
<1>2. Gone(NoBackup) /\ (\A c : Gone(c)' <=> Gone(c)) /\ (Gone(api)' <=> Gone(b))
      /\ ~Archived(NoBackup)
  BY <1>0, EmptyBackup DEF Gone, Archived
<1>3. ~Gone(api) /\ MayTakeSnapshots(api) => Held(apps)
  BY <1>0, NotOlder DEF Quiesced, Gone
<1>4. Quiesced' BY <1>0, <1>1, <1>2, <1>3, EmptyBackup DEF Quiesced
<1>5. ArchiveKept' BY <1>0, <1>1, <1>2 DEF ArchiveKept
<1>6. ArchiveGoes' BY <1>0, EmptyBackup DEF ArchiveGoes
<1> QED BY <1>4, <1>5, <1>6 DEF PromiseInv

\* nor does a step that leaves the worker and the status alone,
LEMMA OthersKeepPromise ==
    ASSUME IInv, PromiseInv, IInv', Written, SameStatus,
           UNCHANGED <<cache, processed, pc, w, apps, archive>>, api.del => api'.del
    PROVE  PromiseInv'
<1>1. processed' >= processed BY DEF IInv, TypeOK
<1> QED BY <1>1, SameKeepsPromise

\* a delivery,
LEMMA InformerKeepsPromise ==
    ASSUME IInv, PromiseInv, Informer
    PROVE  PromiseInv'
<1>0. /\ Quiesced /\ ArchiveKept /\ ArchiveGoes /\ api' = api /\ Copies' \subseteq Copies
      /\ UNCHANGED <<processed, pc, w, apps, archive>>
  BY Delivered DEF IInv, PromiseInv, Informer, storeVars, workerVars, envVars
<1>1. \A c : Gone(c)' <=> Gone(c) BY DEF Gone
<1>2. Gone(api)' <=> Gone(api) BY <1>0 DEF Gone
<1>3. Quiesced' BY <1>0, <1>1 DEF Quiesced, MayTakeSnapshots
<1>4. ArchiveKept' BY <1>0, <1>1, <1>2 DEF ArchiveKept
<1>5. ArchiveGoes' BY <1>0 DEF ArchiveGoes
<1> QED BY <1>3, <1>4, <1>5 DEF PromiseInv

\* or the reconciler: a backup it fails takes no more snapshots.
LEMMA ReconcilerKeepsPromise ==
    ASSUME IInv, OrderInv, PromiseInv, IInv', ReconcilerOutcome
    PROVE  PromiseInv'
<1>0. /\ TypeOK /\ TypeOK' /\ Quiesced /\ ArchiveKept /\ ArchiveGoes
      /\ UNCHANGED <<cache, processed, pc, w, apps, archive>>
  BY DEF IInv, PromiseInv, ReconcilerOutcome, WorkerStays
<1>1. CASE Written /\ SameStatus /\ (api.del => api'.del)
  BY <1>0, <1>1, OthersKeepPromise
<1>2. CASE /\ rpc = "fail" /\ rc.rv = api.rv /\ Written /\ api.rv # 0
           /\ api'.stage = rc.stage /\ api'.state = "Failed" /\ api'.del = api.del
  <2>1. rc = api /\ isReconcileRequired(rc)
    BY <1>2 DEF IInv, CopiesAgree, Agrees, OrderInv, FailedNotCompleted
  <2>2. api'.stage = "Volumes" BY <1>2, <2>1 DEF isReconcileRequired
  <2>3. ~MayTakeSnapshots(api') /\ ~Archived(api')
    BY <1>2, <2>2 DEF MayTakeSnapshots, Archived
  <2>4. \A c \in Copies' : c \in Copies \/ c = api' BY <1>0, <1>2, WrittenCopies
  <2>5. ~Gone(api') => ~Gone(api) BY <1>2 DEF Gone
  <2>6. (\A c : Gone(c)' <=> Gone(c)) /\ (Gone(api)' <=> Gone(api')) BY DEF Gone
  <2>7. Quiesced' BY <1>0, <2>3, <2>4, <2>6 DEF Quiesced, MayTakeSnapshots
  <2>8. ArchiveKept' BY <1>0, <2>3, <2>4, <2>5, <2>6 DEF ArchiveKept
  <2>9. ArchiveGoes' BY <1>0, <2>2 DEF ArchiveGoes
  <2> QED BY <2>7, <2>8, <2>9 DEF PromiseInv
<1>3. Kept \/ Annotated("volume-backup-completed") \/ Annotated("volume-backup-delete-completed")
         => Written /\ SameStatus /\ (api.del => api'.del)
  BY DEF Kept, Annotated, Written, SameStatus
<1> QED BY <1>1, <1>2, <1>3 DEF ReconcilerOutcome

\* nor a user; a Backup that goes at once has not reached the volumes.
LEMMA UserKeepsPromise ==
    ASSUME IInv, DeletionInv, PromiseInv, IInv', UserDelete \/ UserTouch
    PROVE  PromiseInv'
<1>0. TypeOK BY DEF IInv
<1>1. CASE UserOutcome
  BY <1>1, OthersKeepPromise DEF UserOutcome, WorkerStays, SameStatus
<1>2. CASE UserDelete /\ Remove /\ ~api.fin
  <2>1. /\ api.rv # 0 /\ UNCHANGED <<cache, pc, w>> /\ apps' = apps
    BY <1>2 DEF UserDelete, workerVars, envVars
  <2>2. \A c \in Copies : ~c.fin /\ Rank(c) = 0
    BY <1>2, <2>1 DEF DeletionInv, MarksKept
  <2>3. \A c \in Copies' : c \in Copies \/ c = NoBackup
    BY <1>0, <1>2, <2>1, <2>2, RemovedKeeps DEF DeletionInv
  <2>4. \A c \in Copies : ~MayTakeSnapshots(c)
    BY <1>0, <2>2, CopyTypes, RankOf DEF MayTakeSnapshots
  <2>5. api' = NoBackup BY <1>2 DEF Remove
  <2> QED BY <2>1, <2>3, <2>4, <2>5, RemovalKeepsPromise
<1> QED BY <1>0, <1>1, <1>2, UserIs

-----------------------------------------------------------------------------
(* The whole program *)

\* Initially nothing has been promised.
LEMMA InitKeepsAll ==
    ASSUME Init
    PROVE  AllInv
<1>0. IInv /\ TypeOK BY InitKeeps DEF IInv
<1>1. /\ api.rv = 1 /\ api.stage = "unset" /\ api.state = "unset" /\ ~api.fin /\ ~api.del
      /\ api \in Backup
  <2>1. api = [NoBackup EXCEPT !.rv = 1] BY DEF Init
  <2> QED BY <2>1, EmptyBackup, Revised
<1>2. Rank(api) = 0 /\ Rank(NoBackup) = 0 BY <1>1, RankOf, EmptyBackup
<1>3. /\ watch = <<api>> /\ cache = NoBackup /\ w = NoBackup /\ pc = "idle" /\ rpc = "idle"
      /\ vdel = {} /\ vbc = [v \in VBCs |-> "absent"]
  BY DEF Init
<1>4. Copies = {NoBackup, api} /\ DOMAIN watch = {1} /\ watch[1] = api /\ LiveVBCs = {}
  BY <1>3 DEF Copies, LiveVBCs
<1>5. ~Gone(api) /\ Gone(NoBackup) BY <1>1, EmptyBackup DEF Gone
<1>6. "idle" \notin SyncPcs \cup DeletePcs \cup StartPcs \cup Locked \cup SnapshotPcs
  BY DEF SyncPcs, DeletePcs, StartPcs, Locked, SnapshotPcs
<1>7. DeletionInv
  <2>1. HandlersHold /\ DeleterKnows /\ FinalizerHeld /\ NothingLeft
    BY <1>3, <1>4, <1>6 DEF HandlersHold, DeleterKnows, FinalizerHeld, NothingLeft
  <2>2. MarksKept BY <1>1, <1>2, <1>3, <1>4, EmptyBackup DEF MarksKept
  <2>3. RemovalSeen BY <1>1, <1>4 DEF RemovalSeen
  <2>4. DeletionOrdered BY <1>3, <1>4, <1>5, EmptyBackup DEF DeletionOrdered
  <2> QED BY <2>1, <2>2, <2>3, <2>4 DEF DeletionInv
<1>8. OrderInv
  <2>1. VersionsInOrder
    BY <1>1, <1>2, <1>3, <1>4, EmptyBackup DEF VersionsInOrder, Follows, Late
  <2>2. WorkerEqual /\ Taken BY <1>1, <1>3, EmptyBackup DEF WorkerEqual, Taken
  <2>3. StartsEarly
    BY <1>1, <1>2, <1>3, <1>4, <1>6, EmptyBackup DEF StartsEarly, Late
  <2>4. WorkerState BY <1>3, <1>6, EmptyBackup DEF WorkerState
  <2>5. FailureHasCause BY <1>1, <1>3, <1>4 DEF FailureHasCause, VolumesFailed
  <2>6. FailedNotCompleted
    BY <1>1, <1>3, <1>4, EmptyBackup DEF FailedNotCompleted, VolumesFailed
  <2> QED BY <2>1, <2>2, <2>3, <2>4, <2>5, <2>6 DEF OrderInv
<1>9. PromiseInv
  <2>1. ~MayTakeSnapshots(api) /\ ~Archived(api) /\ ~Archived(NoBackup)
    BY <1>1, EmptyBackup DEF MayTakeSnapshots, Archived
  <2>2. Quiesced BY <1>3, <1>4, <1>5, <2>1 DEF Quiesced
  <2>3. ArchiveKept BY <1>3, <1>4, <2>1 DEF ArchiveKept
  <2>4. ArchiveGoes BY <1>1 DEF ArchiveGoes
  <2> QED BY <2>2, <2>3, <2>4 DEF PromiseInv
<1> QED BY <1>0, <1>7, <1>8, <1>9 DEF AllInv

\* The object goes: in the last call of its deletion or, if it never had a finalizer, when
\* the user deletes it.
Removal ==
    /\ pc = "delFinalizer" \/ ~api.del
    /\ api' = NoBackup

\* The steps of the worker that neither take a key nor delete keep the invariant.
LEMMA WorkKeepsAll ==
    ASSUME AllInv, IInv', WorkStep
    PROVE  AllInv' /\ Advance /\ Written
<1>0. IInv /\ DeletionInv /\ OrderInv /\ PromiseInv /\ TypeOK' BY DEF AllInv, IInv
<1>1. CASE QuietStep
  <2>1. Written BY <1>1 DEF QuietStep, Written
  <2> QED BY <1>0, <1>1, <2>1, QuietKeepsDeletion, QuietKeepsOrder, QuietKeepsPromise DEF AllInv
<1>2. ASSUME NEW b, NEW next, StatusStep(b, next) PROVE AllInv' /\ Advance /\ Written
  <2>1. Written BY <1>2 DEF StatusStep, StatusOutcome, Wrote, Written
  <2> QED BY <1>0, <1>2, <2>1, StatusKeepsDeletion, StatusKeepsOrder, StatusKeepsPromise DEF AllInv
<1>3. ASSUME NEW b, NEW next, PatchStep(b, next) PROVE AllInv' /\ Advance /\ Written
  <2>1. Written BY <1>3 DEF PatchStep, PatchOutcome, Patched, Written
  <2> QED BY <1>0, <1>3, <2>1, PatchKeepsDeletion, PatchKeepsOrder, PatchKeepsPromise DEF AllInv
<1>4. ASSUME NEW b, NEW next, AnnotateStep(b, next) PROVE AllInv' /\ Advance /\ Written
  <2>1. Written BY <1>4 DEF AnnotateStep, AnnotateOutcome, Patched, Written
  <2> QED BY <1>0, <1>4, <2>1, AnnotateKeepsDeletion, AnnotateKeepsOrder, PatchKeepsPromise DEF AllInv
<1> QED BY <1>1, <1>2, <1>3, <1>4 DEF WorkStep

\* The last call of a deletion keeps it, whether it answers or panics.
LEMMA FinalizerKeepsAll ==
    ASSUME AllInv, IInv', RemoveFinalizer \/ RemoveFinalizerPanics
    PROVE  AllInv' /\ Advance /\ (Written \/ Removal \/ api' = api)
<1>0. IInv /\ DeletionInv /\ OrderInv /\ PromiseInv /\ TypeOK /\ TypeOK' /\ pc = "delFinalizer"
  BY DEF AllInv, IInv, RemoveFinalizer, RemoveFinalizerPanics
<1>1. CASE RemoveFinalizer
  <2>1. /\ api.rv # 0 /\ Remove /\ api' = NoBackup /\ cache' = cache /\ pc' = "idle" /\ w' = NoBackup
        /\ UNCHANGED <<rpc, rc, wanted, vbc>> /\ apps' = apps
    BY <1>1 DEF RemoveFinalizer, Remove, Return, rcVars, volVars, envVars
  <2>2. \A c \in Copies : Gone(c) BY <1>0, <2>1, PcSets, AllGone
  <2>3. \A c \in Copies' : c \in Copies \/ c = NoBackup
    BY <1>0, <2>1, <2>2, RemovedKeeps DEF DeletionInv
  <2>4. DeletionInv' BY <1>0, <1>1, FinalizerKeepsDeletion
  <2>5. OrderInv' /\ Advance BY <1>0, <2>1, <2>3, RemovalKeepsOrder
  <2>6. PromiseInv' BY <1>0, <2>1, <2>2, <2>3, RemovalKeepsPromise
  <2> QED BY <1>0, <2>1, <2>4, <2>5, <2>6 DEF AllInv, Removal
<1>2. CASE RemoveFinalizerPanics
  <2>1. PICK b \in {api, NoBackup} : Restart(b) BY <1>2 DEF RemoveFinalizerPanics
  <2>2. UNCHANGED volVars /\ UNCHANGED envVars /\ api' = b
    BY <1>2, <2>1 DEF RemoveFinalizerPanics, Restart
  <2>3. LiveVBCs = {} BY <1>0 DEF DeletionInv, NothingLeft
  <2>4. DeletionInv' BY <1>0, <2>1, <2>2, <2>3, RestartKeepsDeletion
  <2>5. OrderInv' /\ Advance BY <1>0, <2>1, <2>2, RestartKeepsOrder
  <2>6. PromiseInv' BY <1>0, <2>1, <2>2, RestartKeepsPromise
  <2> QED BY <1>0, <2>2, <2>4, <2>5, <2>6 DEF AllInv, Removal
<1> QED BY <1>1, <1>2

\* Users, and everybody who only changes the object's metadata or the VBCs, keep it.
LEMMA OthersKeepAll ==
    ASSUME AllInv, IInv',
           \/ Reconciler \/ Informer \/ ReSync \/ UserDelete \/ UserTouch
           \/ ProviderFinishes \/ ProviderDeletes \/ ProviderRemoves \/ Crash \/ UNCHANGED vars
    PROVE  AllInv' /\ Advance /\ (Written \/ Removal \/ api' = api)
<1>0. IInv /\ DeletionInv /\ OrderInv /\ PromiseInv /\ TypeOK /\ TypeOK' BY DEF AllInv, IInv
<1>1. CASE Reconciler
  <2>1. ReconcilerOutcome BY <1>0, <1>1, ReconcilerIs
  <2>2. Written BY <2>1 DEF ReconcilerOutcome, Annotated, Written
  <2> QED
    BY <1>0, <2>1, <2>2, ReconcilerKeepsDeletion, ReconcilerKeepsOrder, ReconcilerKeepsPromise
       DEF AllInv
<1>2. CASE Informer
  <2>1. api' = api BY <1>2 DEF Informer
  <2> QED
    BY <1>0, <1>2, <2>1, InformerKeepsDeletion, InformerKeepsOrder, InformerKeepsPromise DEF AllInv
<1>3. CASE ReSync \/ UNCHANGED vars
  <2>1. NothingMoves BY <1>3, IdleIs
  <2>2. Written /\ SameStatus /\ api' = api BY <2>1 DEF NothingMoves, Kept, Written, SameStatus
  <2>3. PromiseInv' BY <1>0, <2>1, <2>2, OthersKeepPromise DEF NothingMoves, WorkerStays
  <2> QED BY <1>0, <2>1, <2>2, <2>3, IdleKeepsDeletion, IdleKeepsOrder DEF AllInv
<1>4. CASE UserDelete \/ UserTouch
  <2>1. Written \/ Removal
    BY <1>0, <1>4, UserIs DEF UserOutcome, Removal, UserDelete, Remove
  <2> QED BY <1>0, <1>4, <2>1, UserKeepsDeletion, UserKeepsOrder, UserKeepsPromise DEF AllInv
<1>5. CASE ProviderFinishes \/ ProviderDeletes \/ ProviderRemoves
  <2>1. ProviderOutcome BY <1>0, <1>5, ProviderIs
  <2>2. Written /\ SameStatus /\ api' = api BY <2>1 DEF ProviderOutcome, Kept, Written, SameStatus
  <2>3. PromiseInv' BY <1>0, <2>1, <2>2, OthersKeepPromise DEF ProviderOutcome
  <2> QED BY <1>0, <2>1, <2>2, <2>3, ProviderKeepsDeletion, ProviderKeepsOrder DEF AllInv
<1>6. CASE Crash
  <2>1. Restart(api) /\ UNCHANGED volVars /\ UNCHANGED envVars /\ api' = api
    BY <1>6 DEF Crash, Restart
  <2> QED
    BY <1>0, <2>1, RestartKeepsDeletion, RestartKeepsOrder, RestartKeepsPromise DEF AllInv
<1> QED BY <1>1, <1>2, <1>3, <1>4, <1>5, <1>6

\* Every step keeps the invariant, takes no stage and no late failure back, and lets the
\* object go only at the end of its deletion or before that has begun.
LEMMA NextKeepsAll ==
    ASSUME AllInv, [Next]_vars
    PROVE  AllInv' /\ Advance /\ (Written \/ Removal \/ api' = api)
<1>0. IInv' /\ IInv /\ TypeOK /\ DeletionInv /\ OrderInv /\ PromiseInv /\ TypeOK'
  BY NextKeeps DEF AllInv, IInv
<1>1. CASE Worker
  <2>1. CASE WorkStep BY <1>0, <2>1, WorkKeepsAll
  <2>2. CASE ProcessQueue
    <3>1. QueueOutcome BY <1>0, <2>2, ProcessQueueIs
    <3>2. api' = api BY <3>1 DEF QueueOutcome, Kept
    <3> QED BY <1>0, <3>1, <3>2, QueueKeepsDeletion, QueueKeepsOrder, QueueKeepsPromise DEF AllInv
  <2>3. CASE RemoveVolumeBackup \/ ListVolumeBackup \/ DeleteMetadataBackup
    <3>1. DeleteStep BY <1>0, <2>3, DeletersStep
    <3>2. api' = api BY <3>1 DEF DeleteStep, Kept
    <3> QED BY <1>0, <3>1, <3>2, DeleteKeepsDeletion, DeleteKeepsOrder, DeleteKeepsPromise DEF AllInv
  <2>4. CASE RemoveFinalizer \/ RemoveFinalizerPanics BY <1>0, <2>4, FinalizerKeepsAll
  <2> QED BY <1>1, <2>1, <2>2, <2>3, <2>4, WorkSteps
<1> QED BY <1>0, <1>1, OthersKeepAll DEF Next

\* The invariant holds of every behaviour.
THEOREM AllInductive == Spec => []AllInv
<1>1. Init => AllInv BY InitKeepsAll
<1>2. AllInv /\ [Next]_vars => AllInv' BY NextKeepsAll
<1> QED BY <1>1, <1>2, PTL DEF Spec

\* deleteBackup lets the object go only after its last VBC: also when the worker acts on
\* a stale copy, when replies are lost and when the process dies on the way.
THEOREM NoVBCIsOrphaned == Spec => []NoOrphanVBC
<1>1. AllInv => NoOrphanVBC BY DEF AllInv, DeletionInv, FinalizerHeld, NoOrphanVBC
<1> QED BY <1>1, AllInductive, PTL

\* processVolumeBackup asks for snapshots and VBCs only after a successful run of the pre
\* hooks that no run of the post hooks followed, so that every application is quiesced that
\* this run did not pass over: no version of the object that the processed store lets
\* through says otherwise.
THEOREM SnapshotsAreQuiesced == Spec => []SnapshotsWhileQuiesced
<1>1. ASSUME AllInv, pc \in {"volumeGroup", "createVBC"}, w.rv # 0
      PROVE  Held(apps)
  <2>1. w.stage = "Volumes" BY <1>1 DEF AllInv, IInv, WorkerStage, StageAt
  <2>2. w.state = "New" BY <1>1 DEF AllInv, OrderInv, WorkerState, StateAt
  <2> QED BY <1>1, <2>1, <2>2 DEF AllInv, PromiseInv, Quiesced, MayTakeSnapshots
<1>2. AllInv => SnapshotsWhileQuiesced BY <1>1 DEF SnapshotsWhileQuiesced
<1> QED BY <1>2, AllInductive, PTL

\* A Backup says Finished only while the metadata service has its archive.
THEOREM FinishedIsArchived == Spec => []FinishedHasArchive
<1>1. ASSUME AllInv, api.stage = "Finished", ~api.del
      PROVE  archive = "stored"
  <2>1. api.rv # 0 BY <1>1, EmptyBackup DEF AllInv, IInv, RemovedIsEmpty
  <2> QED BY <1>1, <2>1 DEF AllInv, PromiseInv, ArchiveKept, Archived, Gone
<1>2. AllInv => FinishedHasArchive BY <1>1 DEF FinishedHasArchive
<1> QED BY <1>2, AllInductive, PTL

\* No resync, stale copy or late result of a VBC takes up a failed backup again.
THEOREM FailureIsFinal == Spec => FailedIsFinal
<1>1. ASSUME AllInv, [Next]_vars, api.state = "Failed", toOrdinal(api.stage) > 0, api'.rv # 0
      PROVE  api'.state = "Failed"
  <2>0. api \in Backup BY <1>1 DEF AllInv, IInv, TypeOK
  <2>1. api.rv # 0 BY <1>1, EmptyBackup DEF AllInv, IInv, RemovedIsEmpty
  <2>2. toOrdinal(api.stage) \in Int BY <2>0, RankIsInt
  <2>3. Late(api) BY <1>1, <2>0, <2>2, RankType DEF Late
  <2>4. Follows(api, api') BY <1>1, <2>1, NextKeepsAll DEF Advance
  <2> QED BY <2>3, <2>4 DEF Follows, Late
<1>2. AllInv /\ [Next]_vars =>
         [api.state = "Failed" /\ toOrdinal(api.stage) > 0 /\ api'.rv # 0
            => api'.state = "Failed"]_vars
  BY <1>1
<1> QED BY <1>2, AllInductive, PTL DEF Spec, FailedIsFinal

\* When a finished Backup goes, deleteBackup has had its archive deleted, from however old
\* a copy of the object it decided that there is one; whether the provider, whose error the
\* metadata service drops, really deleted it is not claimed.
THEOREM ArchiveIsDeleted == Spec => ArchiveDeleted
<1>1. ASSUME AllInv, [Next]_vars, api.stage = "Finished", api.del, api'.rv = 0
      PROVE  archive # "stored"
  <2>0. api.rv \in Nat /\ api.rv # 0
    BY <1>1, EmptyBackup, CopyTypes DEF AllInv, IInv, RemovedIsEmpty
  <2>1. ~Written /\ api' # api BY <1>1, <2>0 DEF Written, Kept
  <2>2. pc = "delFinalizer" BY <1>1, <2>1, NextKeepsAll DEF Removal
  <2> QED BY <1>1, <2>2 DEF AllInv, PromiseInv, ArchiveGoes
<1>2. AllInv /\ [Next]_vars =>
         [api.stage = "Finished" /\ api.del /\ api'.rv = 0 => archive # "stored"]_vars
  BY <1>1
<1> QED BY <1>2, AllInductive, PTL DEF Spec, ArchiveDeleted
-----------------------------------------------------------------------------
(* The post hooks after the volumes *)

\* What is said of a version does not depend on the state.
LEMMA SaidOf ==
    /\ \A c : VolumesDone(c)' <=> VolumesDone(c)
    /\ \A c : Gone(c)' <=> Gone(c)
    /\ ~VolumesDone(NoBackup)
BY EmptyBackup DEF VolumesDone, VolumesPassed, Gone

\* A step keeps VolumesSaved if every version after it that says the volumes are done
\* comes with one that said so before, or with a volume that is.
LEMMA SavedKeeps ==
    ASSUME VolumesSaved, ~Gone(api') => ~Gone(api),
           ~Gone(api) /\ SomeVolumeSaved => SomeVolumeSaved',
           \A c \in Copies' \cup {api', w'} : VolumesDone(c) =>
              Gone(api) \/ SomeVolumeSaved \/ \E d \in Copies \cup {api, w} : VolumesDone(d),
           rpc' = "annCompleted" => rpc = "annCompleted" \/ SomeVolumeSaved
    PROVE  VolumesSaved'
<1>1. ~Gone(api)' => ~Gone(api) BY DEF Gone
<1>2. ASSUME ~Gone(api), \E d \in Copies \cup {api, w} : VolumesDone(d) PROVE SomeVolumeSaved
  BY <1>2 DEF VolumesSaved
<1>3. ASSUME ~Gone(api)', NEW c \in Copies' \cup {api', w'}, VolumesDone(c) PROVE SomeVolumeSaved'
  BY <1>1, <1>2, <1>3
<1>4. ASSUME ~Gone(api)', rpc' = "annCompleted" PROVE SomeVolumeSaved'
  BY <1>1, <1>4 DEF VolumesSaved
<1> QED BY <1>3, <1>4, SaidOf DEF VolumesSaved

\* The volumes stay as they are.
LEMMA SavedStays ==
    ASSUME wanted' = wanted, vbc' = vbc
    PROVE  SomeVolumeSaved' <=> SomeVolumeSaved
BY DEF SomeVolumeSaved, VBCs

\* A status write says that the volumes are done only if the worker's copy says so.
LEMMA StatusKeepsSaved ==
    ASSUME IInv, IInv', VolumesSaved, NEW b, NEW next, StatusStep(b, next)
    PROVE  VolumesSaved'
<1>0. TypeOK /\ TypeOK' BY DEF IInv
<1>1. /\ cache' = cache /\ rpc' = rpc /\ (w.rv # 0 => StatusFits(b, next)) /\ b.rv = w.rv
      /\ StatusOutcome(b, next)
      /\ SomeVolumeSaved' <=> SomeVolumeSaved
  BY SavedStays DEF StatusStep, WorkerFrame, VolumesKept
<1>2. /\ Kept \/ (Wrote(b) /\ w.rv # 0)
      /\ w' \in {w, api', NoBackup}
  BY <1>1 DEF StatusOutcome, Wrote, Leads, Stopped
<1>3. VolumesDone(api') => VolumesDone(api) \/ VolumesDone(w)
  <2>1. CASE Kept BY <2>1 DEF Kept
  <2>2. CASE Wrote(b) /\ w.rv # 0
    BY <1>1, <2>2 DEF Wrote, StatusFits, VolumesDone, VolumesPassed
  <2> QED BY <1>2, <2>1, <2>2
<1>4. Written /\ (~Gone(api') => ~Gone(api)) BY <1>2 DEF Written, Wrote, Kept, Gone
<1>5. \A c \in Copies' : c \in Copies \/ c = api' BY <1>0, <1>1, <1>4, WrittenCopies
<1> QED BY <1>1, <1>2, <1>3, <1>4, <1>5, SaidOf, SavedKeeps

\* A write that leaves the status alone says nothing new, but for the annotation that the
\* volumes are done.
LEMMA SameKeepsSaved ==
    ASSUME IInv, IInv', VolumesSaved, Written, SameStatus, cache' = cache,
           api.del => api'.del,
           w' \in {w, api', NoBackup},
           SomeVolumeSaved => SomeVolumeSaved',
           \/ api'.ann \subseteq api.ann \cup (Annotations \ {"volume-backup-completed"})
           \/ SomeVolumeSaved \/ Gone(api),
           rpc' = "annCompleted" => rpc = "annCompleted" \/ SomeVolumeSaved
    PROVE  VolumesSaved'
<1>0. TypeOK /\ TypeOK' BY DEF IInv
<1>1. /\ \A c \in Copies' : c \in Copies \/ c = api'
      /\ api.rv = 0 => api' = api
  BY <1>0, WrittenCopies
<1>2. ~Gone(api') => ~Gone(api) BY <1>1 DEF Gone
<1>3. VolumesDone(api') => VolumesDone(api) \/ SomeVolumeSaved \/ Gone(api)
  BY DEF VolumesDone, VolumesPassed, SameStatus
<1> QED BY <1>1, <1>2, <1>3, SaidOf, SavedKeeps
\* The patches and annotations of the worker: it says that the volumes are done only if
\* there are none.
LEMMA PatchKeepsSaved ==
    ASSUME IInv, OrderInv, IInv', VolumesSaved,
           NEW b, NEW next, PatchStep(b, next) \/ AnnotateStep(b, next)
    PROVE  VolumesSaved'
<1>1. /\ PatchOutcome(b, next) \/ AnnotateOutcome(b, next)
      /\ b.stage = api.stage /\ b.state = api.state /\ b.del = api.del
      /\ cache' = cache /\ rpc' = rpc /\ (SomeVolumeSaved' <=> SomeVolumeSaved)
      /\ \/ pc = "noVolume"
         \/ b.ann \subseteq api.ann \cup {"backup-resources", "fail-hooks-completed"}
  BY SavedStays DEF PatchStep, AnnotateStep, WorkerFrame, VolumesKept
<1>2. /\ Kept \/ Patched(b)
      /\ w' \in {w, api', NoBackup}
  BY <1>1 DEF PatchOutcome, AnnotateOutcome, Leads, Stopped
<1>3. Written /\ SameStatus /\ api'.del = api.del
  BY <1>1, <1>2 DEF Written, Kept, Patched, Is, SameStatus
<1>4. pc = "noVolume" => SomeVolumeSaved BY DEF OrderInv, FailureHasCause, SomeVolumeSaved
<1>5. {"backup-resources", "fail-hooks-completed"} \subseteq Annotations \ {"volume-backup-completed"}
  BY DEF Annotations
<1>6. Kept => api'.ann = api.ann BY DEF Kept
<1>7. Patched(b) => api'.ann = b.ann BY DEF Patched, Is
<1> QED BY <1>1, <1>2, <1>3, <1>4, <1>5, <1>6, <1>7, SameKeepsSaved

\* A step without a write leaves the complete volumes and what is said alone.
LEMMA QuietKeepsSaved ==
    ASSUME IInv, IInv', VolumesSaved, QuietStep
    PROVE  VolumesSaved'
<1>1. /\ Kept /\ api' = api /\ Written /\ cache' = cache /\ rpc' = rpc /\ wanted' = wanted
      /\ w' = NoBackup \/ SameVersion(w', w)
      /\ \A v \in VBCs : vbc[v] = "Completed" => vbc'[v] = "Completed"
  BY DEF QuietStep, Kept, WorkerFrame, Written
<1>2. Copies' = Copies BY <1>1, WrittenCopies DEF IInv
<1>3. SomeVolumeSaved => SomeVolumeSaved' BY <1>1 DEF SomeVolumeSaved, VBCs
<1>4. VolumesDone(w') => VolumesDone(w)
  BY <1>1, SaidOf DEF SameVersion, VolumesDone, VolumesPassed
<1> QED BY <1>1, <1>2, <1>3, <1>4, SavedKeeps

\* Taking the key and the deletion leave the object alone.
LEMMA TakenKeepsSaved ==
    ASSUME IInv, IInv', VolumesSaved, QueueOutcome \/ DeleteStep
    PROVE  VolumesSaved'
<1>1. /\ Kept /\ api' = api /\ Written /\ cache' = cache /\ rpc' = rpc
      /\ w' \in {w, cache, NoBackup} /\ (SomeVolumeSaved' <=> SomeVolumeSaved)
  BY SavedStays DEF QueueOutcome, DeleteStep, Kept, WorkerFrame, Written, VolumesKept
<1>2. Copies' = Copies BY <1>1, WrittenCopies DEF IInv
<1> QED BY <1>1, <1>2, CopyCases, SaidOf, SavedKeeps

\* When the object goes there is nothing to keep.
LEMMA RemovalKeepsSaved ==
    ASSUME api' = NoBackup
    PROVE  VolumesSaved'
<1>1. Gone(api)' BY EmptyBackup DEF Gone
<1> QED BY <1>1 DEF VolumesSaved

\* After a restart the server's object alone is left.
LEMMA RestartKeepsSaved ==
    ASSUME VolumesSaved, Restart(api), UNCHANGED volVars
    PROVE  VolumesSaved'
<1>1. /\ api' = api /\ cache' = api /\ watch' = <<>> /\ w' = NoBackup /\ rpc' = "idle"
      /\ SomeVolumeSaved' <=> SomeVolumeSaved
  BY SavedStays DEF Restart, volVars
<1>2. Copies' = {api} BY <1>1 DEF Copies
<1> QED BY <1>1, <1>2, SaidOf, SavedKeeps

\* What is delivered was said before.
LEMMA InformerKeepsSaved ==
    ASSUME IInv, VolumesSaved, Informer
    PROVE  VolumesSaved'
<1>1. /\ api' = api /\ w' = w /\ rpc' = rpc /\ (SomeVolumeSaved' <=> SomeVolumeSaved)
      /\ Copies' \subseteq Copies
  BY SavedStays, Delivered DEF IInv, Informer, workerVars, rcVars, volVars
<1> QED BY <1>1, SavedKeeps

\* The reconciler finds the volumes done only if it lists complete ones.
LEMMA ReconcilerKeepsSaved ==
    ASSUME IInv, IInv', VolumesSaved, ReconcilerOutcome
    PROVE  VolumesSaved'
<1>0. /\ TypeOK /\ TypeOK' /\ cache' = cache /\ w' = w /\ (SomeVolumeSaved' <=> SomeVolumeSaved)
  BY SavedStays DEF IInv, ReconcilerOutcome, WorkerStays
<1>1. rpc' = "annCompleted" => SomeVolumeSaved
  BY DEF ReconcilerOutcome, LiveVBCs, SomeVolumeSaved
<1>2. CASE /\ rpc = "fail" /\ rc.rv = api.rv /\ Written /\ api.rv # 0
           /\ api'.stage = rc.stage /\ api'.state = "Failed"
           /\ api'.del = api.del /\ api'.ann = api.ann
  <2>1. rc = api BY <1>2 DEF IInv, CopiesAgree, Agrees
  <2>2. VolumesDone(api') => VolumesDone(api) BY <1>2, <2>1 DEF VolumesDone, VolumesPassed
  <2>3. ~Gone(api') => ~Gone(api) BY <1>2 DEF Gone
  <2>4. \A c \in Copies' : c \in Copies \/ c = api' BY <1>0, <1>2, WrittenCopies
  <2> QED BY <1>0, <1>1, <2>2, <2>3, <2>4, SavedKeeps
<1>3. CASE Kept
  BY <1>0, <1>1, <1>3, SameKeepsSaved DEF Kept, Written, SameStatus
<1>4. CASE rpc = "annCompleted" /\ Annotated("volume-backup-completed")
  <2>1. SomeVolumeSaved \/ Gone(api) BY <1>4 DEF VolumesSaved
  <2> QED BY <1>0, <1>1, <1>4, <2>1, SameKeepsSaved DEF Annotated, SameStatus
<1>5. CASE Annotated("volume-backup-delete-completed")
  <2>1. "volume-backup-delete-completed" \in Annotations \ {"volume-backup-completed"}
    BY DEF Annotations
  <2> QED BY <1>0, <1>1, <1>5, <2>1, SameKeepsSaved DEF Annotated, SameStatus
<1> QED BY <1>2, <1>3, <1>4, <1>5 DEF ReconcilerOutcome

\* The providers take back a complete volume backup only in a deletion.
LEMMA ProviderKeepsSaved ==
    ASSUME IInv, DeletionInv, IInv', VolumesSaved, ProviderOutcome
    PROVE  VolumesSaved'
<1>1. /\ Kept /\ Written /\ SameStatus /\ api' = api /\ cache' = cache /\ w' = w /\ rpc' = rpc
      /\ wanted' = wanted
  BY DEF ProviderOutcome, Kept, Written, SameStatus
<1>2. CASE vdel = {}
  <2>1. SomeVolumeSaved => SomeVolumeSaved'
    BY <1>1, <1>2 DEF ProviderOutcome, SomeVolumeSaved, VBCs
  <2> QED BY <1>1, <2>1, SameKeepsSaved
<1>3. CASE vdel # {}
  <2>1. Gone(api) BY <1>3 DEF DeletionInv, DeleterKnows
  <2>2. Gone(api)' BY <1>1, <2>1, SaidOf DEF Gone
  <2> QED BY <2>2 DEF VolumesSaved
<1> QED BY <1>2, <1>3

\* Users say nothing of the volumes.
LEMMA UserKeepsSaved ==
    ASSUME IInv, IInv', VolumesSaved, UserDelete \/ UserTouch
    PROVE  VolumesSaved'
<1>1. CASE UserOutcome
  <2>1. SomeVolumeSaved' <=> SomeVolumeSaved BY <1>1, SavedStays DEF UserOutcome, WorkerStays
  <2> QED BY <1>1, <2>1, SameKeepsSaved DEF UserOutcome, WorkerStays, SameStatus
<1>2. CASE Remove BY <1>2, RemovalKeepsSaved DEF Remove
<1> QED BY <1>1, <1>2, UserIs DEF IInv
\* Every step keeps it.
LEMMA NextKeepsSaved ==
    ASSUME AllInv, VolumesSaved, [Next]_vars
    PROVE  VolumesSaved'
<1>0. /\ IInv /\ IInv' /\ TypeOK /\ DeletionInv /\ OrderInv
  BY NextKeeps DEF AllInv, IInv
<1>1. CASE Worker
  <2>1. CASE WorkStep
    BY <1>0, <2>1, QuietKeepsSaved, StatusKeepsSaved, PatchKeepsSaved DEF WorkStep
  <2>2. CASE ProcessQueue BY <1>0, <2>2, ProcessQueueIs, TakenKeepsSaved
  <2>3. CASE RemoveVolumeBackup \/ ListVolumeBackup \/ DeleteMetadataBackup
    BY <1>0, <2>3, DeletersStep, TakenKeepsSaved
  <2>4. CASE RemoveFinalizer
    <3>1. api' = NoBackup BY <2>4 DEF RemoveFinalizer, Remove
    <3> QED BY <3>1, RemovalKeepsSaved
  <2>5. CASE RemoveFinalizerPanics
    <3>1. PICK b \in {api, NoBackup} : Restart(b) BY <2>5 DEF RemoveFinalizerPanics
    <3>2. UNCHANGED volVars /\ api' = b BY <2>5, <3>1 DEF RemoveFinalizerPanics, Restart
    <3> QED BY <3>1, <3>2, RestartKeepsSaved, RemovalKeepsSaved
  <2> QED BY <1>1, <2>1, <2>2, <2>3, <2>4, <2>5, WorkSteps
<1>2. CASE Reconciler BY <1>0, <1>2, ReconcilerIs, ReconcilerKeepsSaved
<1>3. CASE Informer BY <1>0, <1>3, InformerKeepsSaved
<1>4. CASE ReSync \/ UNCHANGED vars
  <2>1. NothingMoves BY <1>4, IdleIs
  <2>2. SomeVolumeSaved' <=> SomeVolumeSaved BY <2>1, SavedStays DEF NothingMoves, WorkerStays
  <2> QED BY <1>0, <2>1, <2>2, SameKeepsSaved DEF NothingMoves, WorkerStays, Kept, Written, SameStatus
<1>5. CASE UserDelete \/ UserTouch BY <1>0, <1>5, UserKeepsSaved
<1>6. CASE ProviderFinishes \/ ProviderDeletes \/ ProviderRemoves
  BY <1>0, <1>6, ProviderIs, ProviderKeepsSaved
<1>7. CASE Crash BY <1>7, RestartKeepsSaved DEF Crash
<1> QED BY <1>1, <1>2, <1>3, <1>4, <1>5, <1>6, <1>7 DEF Next

\* No version of the object says that the volumes are done, or lies behind them, before a
\* volume backup is complete: whatever replies are lost, copies are stale and processes die.
THEOREM VolumesAreSaved == Spec => []VolumesSaved
<1>1. Init => VolumesSaved
  <2> SUFFICES ASSUME Init PROVE VolumesSaved OBVIOUS
  <2>1. /\ api = [NoBackup EXCEPT !.rv = 1] /\ watch = <<api>> /\ cache = NoBackup
        /\ w = NoBackup /\ rpc = "idle"
    BY DEF Init
  <2>2. api.stage = "unset" /\ api.ann = {} BY <2>1, EmptyBackup, Revised
  <2>3. Copies = {NoBackup, api} BY <2>1 DEF Copies
  <2>4. ~VolumesDone(api) BY <2>2 DEF VolumesDone, VolumesPassed
  <2> QED BY <2>1, <2>3, <2>4, SaidOf DEF VolumesSaved
<1>2. AllInv /\ VolumesSaved /\ [Next]_vars => VolumesSaved' BY NextKeepsSaved
<1> QED BY <1>1, <1>2, AllInductive, PTL DEF Spec

\* The stage goes past Volumes only once a volume backup is complete, if there is a volume,
\* for any number of provisioners, attempts, faults and crashes. Not once all are: the
\* reconciler counts the VBCs it lists, and a retry of processVolumeBackup may leave those
\* of an attempt incomplete.
THEOREM PostHookWaits == Spec => []PostHookAfterSomeVolume
<1>1. ASSUME AllInv, VolumesSaved, toOrdinal(api.stage) >= toOrdinal("PostHook"), ~api.del
      PROVE  SomeVolumeSaved
  <2>1. api \in Backup BY <1>1 DEF AllInv, IInv, TypeOK
  <2>2. api.stage \in {"PostHook", "Resources", "Finished"}
    <3>1. toOrdinal("PostHook") = 3 BY OrdinalValues
    <3>2. toOrdinal(api.stage) \in Int /\ toOrdinal(api.stage) >= 3 BY <1>1, <2>1, <3>1, RankIsInt
    <3>3. Rank(api) >= 3 BY <3>2 DEF Rank
    <3> QED BY <2>1, <3>3, RankOf DEF Backup, Stages
  <2>3. ~Gone(api)
    BY <1>1, <2>2, EmptyBackup DEF AllInv, IInv, RemovedIsEmpty, Gone
  <2> QED BY <1>1, <2>2, <2>3 DEF VolumesSaved, VolumesDone, VolumesPassed
<1>2. AllInv /\ VolumesSaved => PostHookAfterSomeVolume BY <1>1 DEF PostHookAfterSomeVolume
<1> QED BY <1>2, AllInductive, VolumesAreSaved, PTL

=============================================================================
