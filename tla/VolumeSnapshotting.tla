--------------------------- MODULE VolumeSnapshotting ---------------------------
(***************************************************************************)
(* The snapshots of the volumes of one backup.  The backup controller's    *)
(* attempt (volume/) asks for one VolumeSnapshot per provisioner and waits *)
(* for it; the snapshot controller (controllers/snapshot) records the      *)
(* volumes in its status and runs one goroutine per VolumeSnapshot, which  *)
(* creates the CSI snapshots with the class that the class syncer selected *)
(* for the driver.  BackupController sees all this as one step.            *)
(*                                                                         *)
(* The lister returns the informer's own object, and syncSnapshotVolumes   *)
(* changes it in place before it writes it: the copy is part of the state. *)
(* A VolumeSnapshot is named by its provisioner; a further attempt of the  *)
(* backup uses new names and is a further instance.                        *)
(***************************************************************************)
EXTENDS Naturals, Sequences, FiniteSets, SequencesExt

CONSTANTS
    Provisioners,   \* provisioners of the volumes
    Backups,        \* what may be backed up: the PVCs of every provisioner, in order
    CSIDrivers,     \* provisioners that are CSI drivers
    Classes,        \* VolumeSnapshotClasses
    DriverOf,       \* driver of a class
    MaxDisturbed,   \* bound: failed calls and lost replies, outdated copies
                    \* taken up, deleted classes and crashes, together
    MaxStates       \* bound: snapshot states of one object, above all that is reached

PVCs == UNION {ToSet(b[s]) : b \in Backups, s \in Provisioners}

ASSUME SnapshotAssumption ==
    /\ CSIDrivers \subseteq Provisioners
    /\ \A b \in Backups :
          /\ b \in [Provisioners -> Seq(PVCs)]
          /\ \A s \in Provisioners : Len(b[s]) <= MaxStates
    /\ DriverOf \in [Classes -> CSIDrivers]
    /\ {MaxDisturbed, MaxStates} \subseteq Nat

VARIABLES
    VolumesOf,  \* the volumes of this backup
    snap,       \* the VolumeSnapshots at the API server
    cache,      \* the informer's copies
    queue,      \* keys in the work queue
    store,      \* processedSnapshot
    w,          \* the worker of the snapshot controller
    h,          \* csiSnapshotHandler: the goroutine of every VolumeSnapshot
    csi,        \* the CSI snapshots created so far
    r,          \* the attempt of the backup controller
    vbcs,       \* provisioners with a VolumeBackupContent
    classes,    \* classes at the API server
    dropped,    \* classes that were deleted
    known,      \* classes the class syncer was told of
    selected,   \* defaultSCByProvider
    faults,     \* failed calls and lost replies
    late,       \* outdated copies the worker took up
    crashes

vars == <<VolumesOf, snap, cache, queue, store, w, h, csi, r, vbcs, classes, dropped, known, selected,
          faults, late, crashes>>
classVars == <<classes, dropped, known, selected>>
ctrlVars  == <<cache, queue, store, w>>
bounds    == <<VolumesOf, late, crashes>>

-----------------------------------------------------------------------------
(* Objects.  ref is the number of a CSI snapshot, 0 for none. *)
(* A CSI snapshot without a status and one that is not ready are polled     *)
(* again alike.                                                             *)

NoSnapshot == [rv |-> 0, synced |-> FALSE, states |-> <<>>, ready |-> "unset", failed |-> FALSE]
Exists(o)  == o.rv > 0

Idle == [pc |-> "idle", key |-> "unset", obj |-> NoSnapshot]
Gone == [pc |-> "none", todo |-> <<>>, ref |-> 0, ready |-> "unset"]

\* A list of at most MaxStates states.
Bounded(q) == SubSeq(q, 1, IF Len(q) < MaxStates THEN Len(q) ELSE MaxStates)

Init ==
    /\ VolumesOf \in Backups
    /\ snap = [s \in Provisioners |-> NoSnapshot]
    /\ cache = snap
    /\ queue = {} /\ store = [s \in Provisioners |-> 0]
    /\ w = Idle /\ h = [s \in Provisioners |-> Gone]
    /\ csi = <<>>
    /\ r = [pc |-> "group", todo |-> {}, done |-> {}, cur |-> "unset"]
    /\ vbcs = {}
    /\ classes = Classes /\ dropped = {}
    /\ known = {} /\ selected = <<>>
    /\ faults = 0 /\ late = 0 /\ crashes = 0

Undisturbed == faults + late + crashes + Cardinality(dropped) < MaxDisturbed

\* What a call may return: a lost reply is a call carried out and an error.
Call(outcome) ==
    /\ outcome \in {"ok", "fails", "lost"}
    /\ outcome # "ok" => Undisturbed
    /\ faults' = IF outcome = "ok" THEN faults ELSE faults + 1

\* A write is carried out unless the copy is outdated.
Write(s, o, outcome) ==
    snap' = IF outcome # "fails" /\ o.rv = snap[s].rv
            THEN [snap EXCEPT ![s] = [o EXCEPT !.rv = @ + 1]] ELSE snap

Written(s, o, outcome) == outcome = "ok" /\ o.rv = snap[s].rv

-----------------------------------------------------------------------------
(* The attempt of the backup controller (processVolumeBackup). *)

AttemptFails == r' = [r EXCEPT !.pc = "failed", !.todo = {}, !.cur = "unset"]

UnchangedByAttempt == UNCHANGED <<ctrlVars, h, csi, classVars, bounds>>

NewGroup ==
    /\ r.pc = "group"
    /\ \E outcome \in {"ok", "fails"} :
         /\ Call(outcome)
         /\ IF outcome = "ok" THEN r' = [r EXCEPT !.pc = "provisioners"] ELSE AttemptFails
    /\ UNCHANGED <<snap, vbcs>> /\ UnchangedByAttempt

\* Apply groups the volumes; a volume that is not bound ends the attempt.
GroupByProvisioner ==
    /\ r.pc = "provisioners"
    /\ \E outcome \in {"ok", "fails"} :
         /\ Call(outcome)
         /\ IF outcome = "ok"
            THEN r' = [r EXCEPT !.pc = "create", !.todo = {s \in Provisioners : VolumesOf[s] # <<>>}]
            ELSE AttemptFails
    /\ UNCHANGED <<snap, vbcs>> /\ UnchangedByAttempt

\* An error leaves the VolumeSnapshots created before.
kahuSnapshot(s) ==
    /\ r.pc = "create" /\ s \in r.todo
    /\ \E outcome \in {"ok", "fails", "lost"} :
         /\ Call(outcome)
         /\ Write(s, NoSnapshot, outcome)
         /\ IF outcome # "ok" THEN AttemptFails
            ELSE r' = [r EXCEPT !.todo = @ \ {s}, !.done = @ \cup {s},
                                !.pc = IF r.todo = {s} THEN "wait" ELSE "create"]
    /\ UNCHANGED vbcs /\ UnchangedByAttempt

\* The VolumeSnapshots are waited for one after the other, in the order of
\* their generated names.
WaitForSnapshotToReady(s) ==
    /\ r.pc = "wait" /\ r.cur = "unset" /\ s \in r.done
    /\ r' = [r EXCEPT !.cur = s]
    /\ UNCHANGED <<snap, vbcs, faults>> /\ UnchangedByAttempt

\* One poll: NotFound is polled again, ReadyToUse false too.
verifySnapshotStatus ==
    /\ r.pc = "wait" /\ r.cur # "unset"
    /\ LET o == snap[r.cur]
       IN  \/ /\ o.ready = "true"
              /\ r' = [r EXCEPT !.cur = "unset", !.done = @ \ {r.cur}, !.todo = @ \cup {r.cur},
                                !.pc = IF r.done = {r.cur} THEN "snapshots" ELSE "wait"]
              /\ Call("ok")
           \/ /\ o.ready # "true" /\ o.failed
              /\ AttemptFails
              /\ Call("ok")
           \/ /\ AttemptFails
              /\ Call("fails")
    /\ UNCHANGED <<snap, vbcs>> /\ UnchangedByAttempt

\* waitForSnapshotStatus: ten minutes for each.
AttemptTimeout ==
    /\ r.pc = "wait" /\ r.cur # "unset"
    /\ AttemptFails
    /\ UNCHANGED <<snap, vbcs, faults>> /\ UnchangedByAttempt

\* GetSnapshots reads every VolumeSnapshot again.
BySnapshot ==
    /\ r.pc = "snapshots"
    /\ \E outcome \in {"ok", "fails"} :
         /\ Call(outcome)
         /\ IF outcome = "ok" THEN r' = [r EXCEPT !.pc = "backup"] ELSE AttemptFails
    /\ UNCHANGED <<snap, vbcs>> /\ UnchangedByAttempt

\* Every VolumeSnapshot gets its VolumeBackupContent; its state is not asked.
ensureVBCWithBackupSourceRef(s) ==
    /\ r.pc = "backup" /\ s \in r.todo
    /\ \E outcome \in {"ok", "fails", "lost"} :
         /\ Call(outcome)
         /\ vbcs' = IF outcome # "fails" /\ Exists(snap[s]) THEN vbcs \cup {s} ELSE vbcs
         /\ IF outcome # "ok" \/ ~Exists(snap[s]) THEN AttemptFails
            ELSE r' = [r EXCEPT !.todo = @ \ {s}, !.pc = IF r.todo = {s} THEN "done" ELSE "backup"]
    /\ UNCHANGED snap /\ UnchangedByAttempt

-----------------------------------------------------------------------------
(* The worker of the snapshot controller. *)

\* Throw away only older versions.
StoreRevisionUpdate(s) == cache[s].rv >= store[s]

snapshotHandled(o) == o.failed \/ o.ready # "unset"

\* Every volume is appended, whatever the list holds.
WithVolumes(s, q) ==
    Bounded(q \o [i \in DOMAIN VolumesOf[s] |-> [pvc |-> VolumesOf[s][i], ref |-> 0]])

Return == w' = Idle

\* The key is added again unless its retries are used up.
ReturnErr == w' = Idle /\ (queue' = queue \cup {w.key} \/ UNCHANGED queue)

ProcessQueue(s) ==
    /\ w.pc = "idle" /\ s \in queue
    /\ cache[s].rv # snap[s].rv => Undisturbed
    /\ late' = IF cache[s].rv # snap[s].rv THEN late + 1 ELSE late
    /\ queue' = queue \ {s}
    /\ LET o == cache[s]
       IN  IF ~Exists(o) \/ snapshotHandled(o) \/ ~StoreRevisionUpdate(s)
           THEN UNCHANGED <<w, cache, store>>
           ELSE /\ store' = [store EXCEPT ![s] = o.rv]
                /\ LET appended == IF o.synced THEN o
                                  ELSE [o EXCEPT !.states = WithVolumes(s, @)]
                   IN  /\ cache' = [cache EXCEPT ![s] = appended]
                       /\ w' = [pc |-> IF o.synced THEN "support" ELSE "states",
                                key |-> s, obj |-> appended]
    /\ UNCHANGED <<VolumesOf, snap, h, csi, r, vbcs, classVars, faults, crashes>>

\* Mutant: the resource version is not compared.
SyncStatesUnlocked ==
    /\ w.pc = "states"
    /\ w' = [w EXCEPT !.pc = "annotate", !.obj = [w.obj EXCEPT !.rv = snap[w.key].rv + 1]]
    /\ snap' = [snap EXCEPT ![w.key] = [w.obj EXCEPT !.rv = snap[w.key].rv + 1]]
    /\ UNCHANGED <<cache, queue, store, h, csi, r, vbcs, classVars, faults, bounds>>

\* syncSnapshotVolumes writes the states of the informer's copy.
SyncStates ==
    /\ w.pc = "states"
    /\ \E outcome \in {"ok", "fails", "lost"} :
         /\ Call(outcome)
         /\ Write(w.key, w.obj, outcome)
         /\ IF Written(w.key, w.obj, outcome)
            THEN w' = [w EXCEPT !.pc = "annotate", !.obj = [w.obj EXCEPT !.rv = @ + 1]] /\ UNCHANGED queue
            ELSE ReturnErr
    /\ UNCHANGED <<cache, store, h, csi, r, vbcs, classVars, bounds>>

AnnotateSynced ==
    /\ w.pc = "annotate"
    /\ LET o == [w.obj EXCEPT !.synced = TRUE]
       IN  \E outcome \in {"ok", "fails", "lost"} :
             /\ Call(outcome)
             /\ Write(w.key, o, outcome)
             /\ IF Written(w.key, o, outcome)
                THEN w' = [w EXCEPT !.pc = "support", !.obj = [o EXCEPT !.rv = @ + 1]] /\ UNCHANGED queue
                ELSE ReturnErr
    /\ UNCHANGED <<cache, store, h, csi, r, vbcs, classVars, bounds>>

\* supportCSISnapshot, handleCSISnapshot: a goroutine that runs is left alone.
HandleCSISnapshot ==
    /\ w.pc = "support"
    /\ \/ /\ Call("fails")
          /\ ReturnErr
          /\ UNCHANGED h
       \/ /\ Call("ok")
          /\ Return
          /\ h' = IF w.key \in CSIDrivers /\ h[w.key].pc = "none"
                  THEN [h EXCEPT ![w.key] = [Gone EXCEPT !.pc = "class", !.todo = w.obj.states]]
                  ELSE h
          /\ UNCHANGED queue
    /\ UNCHANGED <<snap, cache, store, csi, r, vbcs, classVars, bounds>>

-----------------------------------------------------------------------------
(* The goroutine of a VolumeSnapshot (csi/handler.go). *)

HandlerEnds(s) == h' = [h EXCEPT ![s] = Gone]

UnchangedByHandler == UNCHANGED <<ctrlVars, r, vbcs, classVars, bounds>>

\* The loop over the states of the goroutine's copy goes on with q.
GoOn(s, q) ==
    h' = [h EXCEPT ![s] = [@ EXCEPT !.pc = IF q = <<>> THEN "wait" ELSE "create", !.todo = q, !.ref = 0]]

\* Nobody sees the goroutine's error: only the next event or resync comes back.
Handle(s) ==
    /\ h[s].pc = "class"
    /\ IF s \in DOMAIN selected
       THEN GoOn(s, h[s].todo)
       ELSE HandlerEnds(s)
    /\ UNCHANGED <<snap, csi, faults>> /\ UnchangedByHandler

\* A state with a CSI snapshot is left out.
NextState(s) ==
    /\ h[s].pc = "create" /\ Head(h[s].todo).ref # 0
    /\ GoOn(s, Tail(h[s].todo))
    /\ UNCHANGED <<snap, csi, faults>> /\ UnchangedByHandler

CreateCSISnapshot(s) ==
    /\ h[s].pc = "create" /\ Head(h[s].todo).ref = 0
    /\ \E outcome \in {"ok", "fails", "lost"} :
         /\ Call(outcome)
         /\ csi' = IF outcome = "fails" THEN csi
                   ELSE Append(csi, [pvc |-> Head(h[s].todo).pvc, ready |-> FALSE])
         /\ IF outcome = "ok"
            THEN h' = [h EXCEPT ![s].pc = "record", ![s].ref = Len(csi) + 1]
            ELSE HandlerEnds(s)
    /\ UNCHANGED snap /\ UnchangedByHandler

\* Every state of the volume refers to the new CSI snapshot.
Referring(q, p, ref) ==
    [i \in DOMAIN q |-> IF q[i].pvc = p THEN [q[i] EXCEPT !.ref = ref] ELSE q[i]]

applySnapshot(s) ==
    /\ h[s].pc = "record"
    /\ LET o == [snap[s] EXCEPT !.states = Referring(@, Head(h[s].todo).pvc, h[s].ref)]
       IN  \E outcome \in {"ok", "fails", "lost"} :
             /\ Call(outcome)
             /\ IF Exists(o) THEN Write(s, o, outcome) ELSE UNCHANGED snap
             /\ IF outcome # "ok" \/ ~Exists(o) THEN HandlerEnds(s)
                ELSE GoOn(s, Tail(h[s].todo))
    /\ UNCHANGED csi /\ UnchangedByHandler

\* Mutant: the first CSI snapshot that is ready is enough.
CSIReadyAny(o) ==
    \/ o.ready = "true"
    \/ \E i \in DOMAIN o.states : o.states[i].ref # 0 /\ csi[o.states[i].ref].ready

\* All states refer to a CSI snapshot that is ready; anything else is polled
\* again.
CSIReady(o) ==
    \/ o.ready = "true"
    \/ \A i \in DOMAIN o.states : o.states[i].ref # 0 /\ csi[o.states[i].ref].ready

Verdict(s, ready) == h' = [h EXCEPT ![s].pc = "mark", ![s].ready = ready]

\* One poll of waitForSnapshotToReady.
waitForSnapshotToReady(s) ==
    /\ h[s].pc = "wait"
    /\ \/ /\ Exists(snap[s]) /\ snap[s].failed
          /\ Verdict(s, "false")
          /\ Call("ok")
       \/ /\ Exists(snap[s]) /\ ~snap[s].failed /\ CSIReady(snap[s])
          /\ Verdict(s, "true")
          /\ Call("ok")
       \/ /\ Verdict(s, "false")
          /\ Call("fails")
    /\ UNCHANGED <<snap, csi>> /\ UnchangedByHandler

\* waitForSnapshotStatus: five minutes.
HandlerTimeout(s) ==
    /\ h[s].pc = "wait"
    /\ Verdict(s, "false")
    /\ UNCHANGED <<snap, csi, faults>> /\ UnchangedByHandler

MarkReadyToUse(s) ==
    /\ h[s].pc = "mark"
    /\ \E outcome \in {"ok", "fails", "lost"} :
         /\ Call(outcome)
         /\ IF Exists(snap[s]) THEN Write(s, [snap[s] EXCEPT !.ready = h[s].ready], outcome)
            ELSE UNCHANGED snap
    /\ HandlerEnds(s)
    /\ UNCHANGED csi /\ UnchangedByHandler

-----------------------------------------------------------------------------
(* The class syncer. *)

UnchangedByClasses == UNCHANGED <<snap, ctrlVars, h, csi, r, vbcs, faults, bounds>>

\* decideDefaultSC's answer is overwritten: the class added last is selected.
processAdd(c) ==
    /\ c \in classes \ known
    /\ known' = known \cup {c}
    /\ selected' = [d \in DOMAIN selected \cup {DriverOf[c]} |->
                        IF d = DriverOf[c] THEN c ELSE selected[d]]
    /\ UNCHANGED <<classes, dropped>> /\ UnchangedByClasses

\* The selected class goes, another one of its driver is not looked for.
processDelete(c) ==
    /\ c \in known \ classes
    /\ known' = known \ {c}
    /\ selected' = [d \in {x \in DOMAIN selected : selected[x] # c} |-> selected[d]]
    /\ UNCHANGED <<classes, dropped>> /\ UnchangedByClasses

\* A deletion learnt from a new listing is a DeletedFinalStateUnknown, which
\* processSnapshotClass does not know.
processUnknown(c) ==
    /\ c \in known \ classes
    /\ known' = known \ {c}
    /\ UNCHANGED <<classes, dropped, selected>> /\ UnchangedByClasses

-----------------------------------------------------------------------------
(* Informer, resync, and what others do. *)

Inform(s) ==
    /\ cache[s].rv # snap[s].rv
    /\ cache' = [cache EXCEPT ![s] = snap[s]]
    /\ queue' = IF Exists(snap[s]) THEN queue \cup {s} ELSE queue
    /\ UNCHANGED <<snap, store, w, h, csi, r, vbcs, classVars, faults, bounds>>

\* Mutant: the resync leaves out what is synced.
ReSyncUnsynced(s) ==
    /\ Exists(cache[s]) /\ ~cache[s].synced /\ s \notin queue
    /\ queue' = queue \cup {s}
    /\ UNCHANGED <<snap, cache, store, w, h, csi, r, vbcs, classVars, faults, bounds>>

reSync(s) ==
    /\ Exists(cache[s]) /\ s \notin queue
    /\ queue' = queue \cup {s}
    /\ UNCHANGED <<snap, cache, store, w, h, csi, r, vbcs, classVars, faults, bounds>>

CSIDriverFinishes ==
    \E i \in DOMAIN csi :
        /\ ~csi[i].ready
        /\ csi' = [csi EXCEPT ![i].ready = TRUE]
        /\ UNCHANGED <<snap, ctrlVars, h, r, vbcs, classVars, faults, bounds>>

\* A provisioner that is no CSI driver has a snapshot controller of its own.
ExternalFinishes(s) ==
    /\ s \notin CSIDrivers /\ Exists(snap[s]) /\ snap[s].synced /\ ~snapshotHandled(snap[s])
    /\ \E result \in {[ready |-> "true", failed |-> FALSE], [ready |-> "unset", failed |-> TRUE]} :
         snap' = [snap EXCEPT ![s] = [snap[s] EXCEPT !.rv = @ + 1, !.ready = result.ready,
                                                     !.failed = result.failed]]
    /\ UNCHANGED <<ctrlVars, h, csi, r, vbcs, classVars, faults, bounds>>

DropClass(c) ==
    /\ Undisturbed /\ c \in classes
    /\ classes' = classes \ {c} /\ dropped' = dropped \cup {c}
    /\ UNCHANGED <<known, selected>> /\ UnchangedByClasses

\* The process restarts: the informers list the objects there are.
Crash ==
    /\ Undisturbed
    /\ crashes' = crashes + 1
    /\ cache' = snap /\ queue' = {s \in Provisioners : Exists(snap[s])}
    /\ store' = [s \in Provisioners |-> 0]
    /\ w' = Idle /\ h' = [s \in Provisioners |-> Gone]
    /\ IF r.pc = "done" THEN UNCHANGED r ELSE AttemptFails
    /\ known' = {} /\ selected' = <<>>
    /\ UNCHANGED <<VolumesOf, snap, csi, vbcs, classes, dropped, faults, late>>

-----------------------------------------------------------------------------
(* Specification *)

Attempt ==
    \/ NewGroup \/ GroupByProvisioner \/ verifySnapshotStatus \/ AttemptTimeout \/ BySnapshot
    \/ \E s \in Provisioners :
        kahuSnapshot(s) \/ WaitForSnapshotToReady(s) \/ ensureVBCWithBackupSourceRef(s)

Worker ==
    \/ SyncStates \/ AnnotateSynced \/ HandleCSISnapshot
    \/ \E s \in Provisioners : ProcessQueue(s)

Handler(s) ==
    \/ Handle(s) \/ NextState(s) \/ CreateCSISnapshot(s) \/ applySnapshot(s) \/ waitForSnapshotToReady(s)
    \/ HandlerTimeout(s) \/ MarkReadyToUse(s)

Informers ==
    \/ \E s \in Provisioners : Inform(s)
    \/ \E c \in Classes : processAdd(c) \/ processDelete(c) \/ processUnknown(c)

Next ==
    \/ Attempt \/ Worker \/ Informers
    \/ \E s \in Provisioners : Handler(s) \/ reSync(s) \/ ExternalFinishes(s)
    \/ CSIDriverFinishes
    \/ \E c \in Classes : DropClass(c)
    \/ Crash

(* The worker, the goroutines and the informers run and the resync comes     *)
(* round; drivers and users do what they like.                               *)
Spec == Init /\ [][Next]_vars

FairSpec ==
    /\ Spec
    /\ WF_vars(Worker) /\ WF_vars(Informers)
    /\ \A s \in Provisioners : WF_vars(Handler(s)) /\ WF_vars(reSync(s))

-----------------------------------------------------------------------------
(* Properties *)

\* The objects, their copies and the goroutines; a reference is the number of a CSI
\* snapshot that was created.
SnapshotStates == [pvc : PVCs, ref : Nat]
VolumeSnapshots ==
    [rv : Nat, synced : BOOLEAN, states : Seq(SnapshotStates),
     ready : {"unset", "true", "false"}, failed : BOOLEAN]
Goroutines ==
    [pc : {"none", "class", "create", "record", "wait", "mark"}, todo : Seq(SnapshotStates), ref : Nat,
     ready : {"unset", "true", "false"}]

TypeOK ==
    /\ VolumesOf \in Backups
    /\ snap \in [Provisioners -> VolumeSnapshots] /\ cache \in [Provisioners -> VolumeSnapshots]
    /\ queue \subseteq Provisioners
    /\ store \in [Provisioners -> Nat]
    /\ w \in [pc : {"idle", "states", "annotate", "support"}, key : Provisioners \cup {"unset"},
              obj : VolumeSnapshots]
    /\ w.pc # "idle" => w.key \in Provisioners
    /\ h \in [Provisioners -> Goroutines]
    /\ csi \in Seq([pvc : PVCs, ready : BOOLEAN])
    /\ r \in [pc : {"group", "provisioners", "create", "wait", "snapshots", "backup", "done", "failed"},
              todo : SUBSET Provisioners, done : SUBSET Provisioners,
              cur : Provisioners \cup {"unset"}]
    /\ vbcs \subseteq Provisioners
    /\ classes \cup dropped \cup known \subseteq Classes /\ IsFiniteSet(dropped)
    /\ selected \in UNION {[D -> Classes] : D \in SUBSET CSIDrivers}
    /\ faults + late + crashes + Cardinality(dropped) \in 0..MaxDisturbed
    /\ faults \in Nat /\ late \in Nat /\ crashes \in Nat

\* Every volume of the provisioner has a finished CSI snapshot.
Taken(s) ==
    \A p \in ToSet(VolumesOf[s]) : \E i \in DOMAIN snap[s].states :
        LET st == snap[s].states[i]
        IN  st.pvc = p /\ st.ref # 0 /\ csi[st.ref].pvc = p /\ csi[st.ref].ready

(* A VolumeSnapshot of a CSI driver becomes ready to use only when every     *)
(* volume the backup asked for has a state that refers to a CSI snapshot of  *)
(* this volume and the driver has finished it, whatever calls failed, states *)
(* were recorded twice, outdated copies handled or processes crashed on the  *)
(* way: the last poll and the write that follows it agree (Handle,           *)
(* waitForSnapshotToReady, csi/handler.go:79-254).                           *)
ReadyMeansTaken ==
    [][\A s \in CSIDrivers :
          snap[s].ready # "true" /\ snap'[s].ready = "true" => Taken(s)]_vars

(* The volumes are recorded a second time in a VolumeSnapshot only after a   *)
(* failed call or a crash, once for each: appending to the informer's copy,  *)
(* handling the same version again and outdated copies do not, because the   *)
(* API server refuses an outdated copy (syncSnapshotVolumes,                 *)
(* controller.go:203-230).                                                   *)
StatesPaidFor ==
    \A s \in Provisioners :
        Len(snap[s].states) <= Len(VolumesOf[s]) * (1 + faults + crashes)

(* A VolumeSnapshot of a CSI driver is decided, ready or not, as long as its *)
(* driver has a class and none of its classes is deleted: the errors of the  *)
(* goroutine are lost, but the map forgets it and the resync comes back      *)
(* (handleCSISnapshot, controller.go:262-272).  A deleted class may leave    *)
(* the driver without a selection although another class exists.             *)
Decided ==
    \A s \in CSIDrivers :
        (Exists(snap[s]) /\ \E c \in classes : DriverOf[c] = s)
            ~> (snapshotHandled(snap[s]) \/ \E c \in dropped : DriverOf[c] = s)

(* A driver that has a snapshot class has one selected once the syncer knows *)
(* all classes.  It need not: processDelete removes the selection although   *)
(* another class remains.                                                    *)
ClassSelected ==
    known = classes => \A d \in CSIDrivers : (\E c \in classes : DriverOf[c] = d) => d \in DOMAIN selected

(* A volume with a CSI snapshot does not get another one: "ignore if already *)
(* CSI object created" (csi/handler.go:87).  It does when the goroutine ends *)
(* and is started again from a copy read before it recorded its snapshots;   *)
(* the references of a VolumeSnapshot that was ready, and may have its       *)
(* VolumeBackupContent, are then replaced by those of unfinished snapshots   *)
(* taken later.                                                              *)
CreatedOnce == \A i, j \in DOMAIN csi : csi[i].pvc = csi[j].pvc => i = j

-----------------------------------------------------------------------------
(* The inductive invariant behind StatesPaidFor and ReadyMeansTaken *)

\* The optimistic lock: a copy of the server's version differs from it in the states
\* only, the informer's in those that syncSnapshotVolumes appended; the worker's copy is
\* the server's once its states are written.
Fresh(s, o) == o.rv = snap[s].rv
Same(o, p) == o.synced = p.synced /\ o.ready = p.ready /\ o.failed = p.failed
CopiesAgree ==
    /\ \A s \in Provisioners :
          /\ cache[s].rv <= snap[s].rv
          /\ Fresh(s, cache[s]) => Same(cache[s], snap[s])
          /\ cache[s].synced => snap[s].synced
          /\ ~Exists(snap[s]) => snap[s] = NoSnapshot
    /\ w.pc # "idle" => Exists(w.obj) /\ w.obj.rv <= snap[w.key].rv
    /\ w.pc \in {"states", "annotate"} => ~w.obj.synced
    /\ w.pc = "states" /\ Fresh(w.key, w.obj) => Same(w.obj, snap[w.key])
    /\ w.pc = "annotate" /\ Fresh(w.key, w.obj) => w.obj = snap[w.key]
    /\ w.pc = "support" => snap[w.key].synced

\* A list that has been recorded names every volume, and what it refers to was created
\* for the volume.
Covers(s, q) == \A p \in ToSet(VolumesOf[s]) : \E i \in DOMAIN q : q[i].pvc = p
RefersTo(i, p) == i \in DOMAIN csi /\ csi[i].pvc = p
Recorded(s, q) ==
    /\ Len(q) <= MaxStates
    /\ q = <<>> \/ Covers(s, q)
    /\ \A i \in DOMAIN q : q[i].ref # 0 => RefersTo(q[i].ref, q[i].pvc)
ListsRecorded ==
    /\ \A s \in Provisioners :
          /\ Recorded(s, snap[s].states) /\ Recorded(s, cache[s].states)
          /\ snap[s].synced => Covers(s, snap[s].states)
    /\ w.pc \in {"states", "annotate"} =>
          Recorded(w.key, w.obj.states) /\ Covers(w.key, w.obj.states)

\* A goroutine runs for a VolumeSnapshot whose list is complete, and records the CSI
\* snapshot it created for the volume it is at; what it found ready is.
GoroutineKnows ==
    \A s \in Provisioners :
        /\ h[s].pc # "none" => snap[s].synced
        /\ h[s].pc \in {"create", "record"} => h[s].todo # <<>>
        /\ h[s].pc = "record" => RefersTo(h[s].ref, Head(h[s].todo).pvc)
        /\ h[s].pc = "mark" /\ h[s].ready = "true" => snap[s].ready = "true" \/ Taken(s)

\* While the list may be appended to once more, every appended list before the first
\* was paid for by a failure; so was one more if the worker has none in hand.
Paid(s, k) == Len(VolumesOf[s]) * k
InHand(s) == w.pc = "annotate" /\ w.key = s /\ Fresh(s, w.obj)
Appending(s) == w.pc = "states" /\ w.key = s /\ Fresh(s, w.obj)
ListsPaidFor ==
    \A s \in Provisioners :
        /\ Len(snap[s].states) <= Paid(s, 1 + faults + crashes)
        /\ ~snap[s].synced /\ ~InHand(s) => Len(snap[s].states) <= Paid(s, faults + crashes)
        /\ Fresh(s, cache[s]) /\ ~cache[s].synced =>
              /\ Len(cache[s].states) <= Paid(s, 1 + faults + crashes)
              /\ ~InHand(s) /\ ~Appending(s) => Len(cache[s].states) <= Paid(s, faults + crashes)
        /\ Appending(s) => Len(w.obj.states) <= Paid(s, 1 + faults + crashes)

IInv == TypeOK /\ CopiesAgree /\ ListsRecorded /\ GoroutineKnows /\ ListsPaidFor

=============================================================================
