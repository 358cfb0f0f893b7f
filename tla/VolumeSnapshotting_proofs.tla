----------------------- MODULE VolumeSnapshotting_proofs -----------------------
(***************************************************************************)
(* Proofs about VolumeSnapshotting, for every value of its constants: the  *)
(* volumes are recorded in a VolumeSnapshot once and once more per failed  *)
(* call or crash, and one that becomes ready to use has a finished CSI     *)
(* snapshot of every volume of the backup.                                 *)
(*                                                                         *)
(* Every step is first given its shape: the objects at the API server and  *)
(* their copies stay as they are, one object is rewritten and its list     *)
(* kept, or it is one of the few steps that append to a list, write one or *)
(* take up a copy.  The parts of the invariant are proved over the shapes. *)
(***************************************************************************)
EXTENDS VolumeSnapshotting, TLAPS, FiniteSetTheorems

-----------------------------------------------------------------------------
(* Objects and lists *)

\* The volumes of a provisioner: a list that fits into an object.
LEMMA VolumesAre ==
    ASSUME VolumesOf \in Backups, NEW s \in Provisioners
    PROVE  /\ VolumesOf[s] \in Seq(PVCs) /\ Len(VolumesOf[s]) <= MaxStates
           /\ Len(VolumesOf[s]) \in Nat
BY SnapshotAssumption

\* The fields of an object
LEMMA ObjectFields ==
    ASSUME NEW o \in VolumeSnapshots
    PROVE  /\ o.rv \in Nat /\ o.synced \in BOOLEAN /\ o.states \in Seq(SnapshotStates)
           /\ o.ready \in {"unset", "true", "false"} /\ o.failed \in BOOLEAN
           /\ Len(o.states) \in Nat
<1>1. /\ o.rv \in Nat /\ o.synced \in BOOLEAN /\ o.states \in Seq(SnapshotStates)
      /\ o.ready \in {"unset", "true", "false"} /\ o.failed \in BOOLEAN
  BY DEF VolumeSnapshots
<1> QED BY <1>1

\* The empty object has its type.
LEMMA NoSnapshotType ==
    /\ NoSnapshot \in VolumeSnapshots /\ NoSnapshot.rv = 0 /\ NoSnapshot.states = <<>>
    /\ ~NoSnapshot.synced /\ NoSnapshot.ready = "unset" /\ ~NoSnapshot.failed
<1>1. <<>> \in Seq(SnapshotStates) OBVIOUS
<1> QED BY <1>1 DEF NoSnapshot, VolumeSnapshots

\* A function over 1..n with values in S is a list of S.
LEMMA FunctionIsList ==
    ASSUME NEW S, NEW n \in Nat, NEW f \in [1..n -> S]
    PROVE  f \in Seq(S) /\ Len(f) = n /\ DOMAIN f = 1..n
OBVIOUS

\* A bounded list is the front of the list it is taken from.
LEMMA BoundedIs ==
    ASSUME NEW q \in Seq(SnapshotStates)
    PROVE  /\ Bounded(q) \in Seq(SnapshotStates)
           /\ Len(Bounded(q)) \in Nat
           /\ Len(Bounded(q)) <= MaxStates /\ Len(Bounded(q)) <= Len(q)
           /\ Len(q) <= MaxStates => Len(Bounded(q)) = Len(q)
           /\ Len(q) > MaxStates => Len(Bounded(q)) = MaxStates
           /\ \A i \in 1..Len(Bounded(q)) : Bounded(q)[i] = q[i]
<1> DEFINE n == IF Len(q) < MaxStates THEN Len(q) ELSE MaxStates
<1>1. MaxStates \in Nat BY SnapshotAssumption
<1>2. n \in Nat /\ n <= Len(q) /\ n <= MaxStates /\ (Len(q) <= MaxStates => n = Len(q))
      /\ (Len(q) > MaxStates => n = MaxStates)
  BY <1>1
<1>3. Bounded(q) = SubSeq(q, 1, n) BY DEF Bounded
<1> HIDE DEF n
<1>4. SubSeq(q, 1, n) \in Seq(SnapshotStates) /\ Len(SubSeq(q, 1, n)) = n
      /\ \A i \in 1..n : SubSeq(q, 1, n)[i] = q[i]
  BY <1>2
<1> QED BY <1>2, <1>3, <1>4

\* The list with the volumes appended: it names them all, is longer by their number at
\* most, and refers to nothing new.
LEMMA WithVolumesIs ==
    ASSUME VolumesOf \in Backups, NEW s \in Provisioners,
           NEW q \in Seq(SnapshotStates), Recorded(s, q)
    PROVE  /\ WithVolumes(s, q) \in Seq(SnapshotStates)
           /\ Len(WithVolumes(s, q)) \in Nat
           /\ Len(WithVolumes(s, q)) <= Len(q) + Len(VolumesOf[s])
           /\ Recorded(s, WithVolumes(s, q)) /\ Covers(s, WithVolumes(s, q))
<1> DEFINE v == VolumesOf[s]
           a == [i \in DOMAIN v |-> [pvc |-> v[i], ref |-> 0]]
           c == q \o a
<1>1. v \in Seq(PVCs) /\ Len(v) \in Nat /\ Len(v) <= MaxStates /\ DOMAIN v = 1..Len(v)
  BY VolumesAre
<1>2. a \in [1..Len(v) -> SnapshotStates] /\ \A i \in 1..Len(v) : a[i].pvc = v[i] /\ a[i].ref = 0
  BY <1>1 DEF SnapshotStates
<1>3. ToSet(v) = {v[i] : i \in 1..Len(v)} BY <1>1 DEF ToSet
<1>4. WithVolumes(s, q) = Bounded(c) BY DEF WithVolumes
<1> HIDE DEF v, a
<1>5. a \in Seq(SnapshotStates) /\ Len(a) = Len(v) BY <1>1, <1>2, FunctionIsList
<1>6. /\ c \in Seq(SnapshotStates) /\ Len(c) = Len(q) + Len(v)
      /\ \A i \in 1..Len(q) : c[i] = q[i]
      /\ \A i \in 1..Len(v) : c[Len(q) + i] = a[i]
      /\ \A i \in 1..Len(c) : i \in 1..Len(q) \/ i - Len(q) \in 1..Len(v)
  BY <1>1, <1>5
<1> HIDE DEF c
<1> DEFINE w0 == Bounded(c)
<1>7. /\ w0 \in Seq(SnapshotStates) /\ Len(w0) \in Nat /\ Len(w0) <= MaxStates /\ Len(w0) <= Len(c)
      /\ Len(c) <= MaxStates => Len(w0) = Len(c)
      /\ Len(c) > MaxStates => Len(w0) = MaxStates
      /\ \A i \in 1..Len(w0) : w0[i] = c[i]
  BY <1>6, BoundedIs
<1> HIDE DEF w0
<1>8. \A i \in DOMAIN w0 : w0[i].ref # 0 => RefersTo(w0[i].ref, w0[i].pvc)
  <2> TAKE i \in DOMAIN w0
  <2>1. i \in 1..Len(w0) /\ i \in 1..Len(c) /\ w0[i] = c[i] BY <1>6, <1>7
  <2>2. CASE i \in 1..Len(q) BY <2>1, <2>2, <1>6 DEF Recorded
  <2>3. CASE i - Len(q) \in 1..Len(v)
    <3>1. c[Len(q) + (i - Len(q))] = a[i - Len(q)] BY <2>3, <1>6
    <3>2. Len(q) + (i - Len(q)) = i BY <2>1
    <3> QED BY <2>1, <2>3, <3>1, <3>2, <1>2
  <2> QED BY <2>1, <2>2, <2>3, <1>6
<1>9. Covers(s, w0)
  <2>1. CASE q = <<>>
    <3>1. Len(c) = Len(v) /\ Len(w0) = Len(v) /\ Len(q) = 0 BY <2>1, <1>1, <1>6, <1>7
    <3> SUFFICES ASSUME NEW i \in 1..Len(v) PROVE \E j \in DOMAIN w0 : w0[j].pvc = v[i]
      BY <1>3 DEF Covers, v
    <3>2. i \in DOMAIN w0 /\ w0[i] = c[i] BY <3>1, <1>7
    <3>3. c[Len(q) + i] = a[i] /\ Len(q) + i = i BY <1>6, <3>1
    <3> QED BY <3>2, <3>3, <1>2
  <2>2. CASE q # <<>>
    <3>1. Covers(s, q) /\ Len(q) <= MaxStates BY <2>2 DEF Recorded
    <3>0. Len(q) \in Nat /\ MaxStates \in Nat BY SnapshotAssumption
    <3>2. Len(q) <= Len(w0)
      <4>1. CASE Len(c) <= MaxStates BY <4>1, <3>0, <1>1, <1>6, <1>7
      <4>2. CASE Len(c) > MaxStates BY <4>2, <3>0, <3>1, <1>7
      <4>3. Len(c) \in Nat BY <1>6
      <4> QED BY <4>1, <4>2, <4>3, <3>0
    <3>3. \A i \in DOMAIN q : i \in DOMAIN w0 /\ w0[i] = q[i] BY <3>2, <1>6, <1>7
    <3> QED BY <3>1, <3>3 DEF Covers
  <2> QED BY <2>1, <2>2
<1>10. Recorded(s, w0) BY <1>7, <1>8, <1>9 DEF Recorded
<1> QED BY <1>4, <1>6, <1>7, <1>9, <1>10 DEF w0, v
-----------------------------------------------------------------------------
(* The budget of disturbances *)

\* Each step but a crash leaves the volumes of the backup alone, and most do nothing but
\* a call that may fail.
LEMMA StepIsCall ==
    ASSUME Next
    PROVE  \/ /\ UNCHANGED <<VolumesOf, late, crashes, dropped>>
              /\ UNCHANGED faults \/ \E outcome \in {"ok", "fails", "lost"} : Call(outcome)
           \/ \E s \in Provisioners : ProcessQueue(s)
           \/ \E c \in Classes : DropClass(c)
           \/ Crash
<1> DEFINE Quiet == UNCHANGED <<VolumesOf, late, crashes, dropped>>
                    /\ (UNCHANGED faults \/ \E outcome \in {"ok", "fails", "lost"} : Call(outcome))
<1>1. ASSUME Attempt PROVE Quiet
  <2>1. CASE NewGroup BY <2>1 DEF NewGroup, UnchangedByAttempt, bounds, classVars
  <2>2. CASE GroupByProvisioner BY <2>2 DEF GroupByProvisioner, UnchangedByAttempt, bounds, classVars
  <2>3. CASE verifySnapshotStatus
    BY <2>3 DEF verifySnapshotStatus, UnchangedByAttempt, bounds, classVars
  <2>4. CASE AttemptTimeout BY <2>4 DEF AttemptTimeout, UnchangedByAttempt, bounds, classVars
  <2>5. CASE BySnapshot BY <2>5 DEF BySnapshot, UnchangedByAttempt, bounds, classVars
  <2>6. ASSUME NEW s \in Provisioners, kahuSnapshot(s) PROVE Quiet
    BY <2>6 DEF kahuSnapshot, UnchangedByAttempt, bounds, classVars
  <2>7. ASSUME NEW s \in Provisioners, WaitForSnapshotToReady(s) PROVE Quiet
    BY <2>7 DEF WaitForSnapshotToReady, UnchangedByAttempt, bounds, classVars
  <2>8. ASSUME NEW s \in Provisioners, ensureVBCWithBackupSourceRef(s) PROVE Quiet
    BY <2>8 DEF ensureVBCWithBackupSourceRef, UnchangedByAttempt, bounds, classVars
  <2> QED BY <1>1, <2>1, <2>2, <2>3, <2>4, <2>5, <2>6, <2>7, <2>8 DEF Attempt
<1>2. CASE SyncStates BY <1>2 DEF SyncStates, bounds, classVars
<1>3. CASE AnnotateSynced BY <1>3 DEF AnnotateSynced, bounds, classVars
<1>4. CASE HandleCSISnapshot BY <1>4 DEF HandleCSISnapshot, bounds, classVars
<1>5. ASSUME NEW s \in Provisioners, Handler(s) PROVE Quiet
  <2>1. CASE Handle(s) BY <2>1 DEF Handle, UnchangedByHandler, bounds, classVars
  <2>2. CASE CreateCSISnapshot(s) BY <2>2 DEF CreateCSISnapshot, UnchangedByHandler, bounds, classVars
  <2>3. CASE applySnapshot(s) BY <2>3 DEF applySnapshot, UnchangedByHandler, bounds, classVars
  <2>4. CASE waitForSnapshotToReady(s)
    BY <2>4 DEF waitForSnapshotToReady, UnchangedByHandler, bounds, classVars
  <2>5. CASE HandlerTimeout(s) BY <2>5 DEF HandlerTimeout, UnchangedByHandler, bounds, classVars
  <2>6. CASE MarkReadyToUse(s) BY <2>6 DEF MarkReadyToUse, UnchangedByHandler, bounds, classVars
  <2>7. CASE NextState(s) BY <2>7 DEF NextState, UnchangedByHandler, bounds, classVars
  <2> QED BY <1>5, <2>1, <2>2, <2>3, <2>4, <2>5, <2>6, <2>7 DEF Handler
<1>6. ASSUME NEW s \in Provisioners, Inform(s) PROVE Quiet BY <1>6 DEF Inform, bounds, classVars
<1>7. ASSUME NEW s \in Provisioners, reSync(s) PROVE Quiet BY <1>7 DEF reSync, bounds, classVars
<1>8. ASSUME NEW s \in Provisioners, ExternalFinishes(s) PROVE Quiet
  BY <1>8 DEF ExternalFinishes, bounds, classVars
<1>9. CASE CSIDriverFinishes BY <1>9 DEF CSIDriverFinishes, bounds, classVars
<1>10. ASSUME NEW c \in Classes, processAdd(c) \/ processDelete(c) \/ processUnknown(c) PROVE Quiet
  BY <1>10 DEF processAdd, processDelete, processUnknown, UnchangedByClasses, bounds
<1> QED BY <1>1, <1>2, <1>3, <1>4, <1>5, <1>6, <1>7, <1>8, <1>9, <1>10 DEF Next, Worker, Informers

\* The disturbances keep within their bound, and the counters only rise.
LEMMA BudgetStep ==
    ASSUME TypeOK, Next
    PROVE  /\ VolumesOf' = VolumesOf
           /\ faults' \in Nat /\ late' \in Nat /\ crashes' \in Nat /\ IsFiniteSet(dropped')
           /\ faults' + late' + crashes' + Cardinality(dropped') \in 0..MaxDisturbed
           /\ faults <= faults' /\ crashes <= crashes'
<1> DEFINE k == Cardinality(dropped)
<1>1. k \in Nat /\ MaxDisturbed \in Nat BY FS_CardinalityType, SnapshotAssumption DEF TypeOK
<1>2. faults \in Nat /\ late \in Nat /\ crashes \in Nat /\ IsFiniteSet(dropped)
      /\ faults + late + crashes + k \in 0..MaxDisturbed
  BY DEF TypeOK
<1>3. Undisturbed <=> faults + late + crashes + k < MaxDisturbed BY DEF Undisturbed
<1>4. CASE UNCHANGED <<VolumesOf, late, crashes, dropped>> /\ UNCHANGED faults BY <1>2, <1>4
<1>5. ASSUME UNCHANGED <<VolumesOf, late, crashes, dropped>>,
             NEW outcome \in {"ok", "fails", "lost"}, Call(outcome)
      PROVE  /\ faults' \in Nat /\ faults <= faults'
             /\ faults' + late + crashes + k \in 0..MaxDisturbed
  <2> HIDE DEF k
  <2> QED BY <1>1, <1>2, <1>3, <1>5 DEF Call
<1>6. ASSUME NEW s \in Provisioners, ProcessQueue(s)
      PROVE  /\ UNCHANGED <<VolumesOf, faults, crashes, dropped>>
             /\ late' \in Nat /\ faults + late' + crashes + k \in 0..MaxDisturbed
  <2>1. UNCHANGED <<VolumesOf, faults, crashes, dropped>> BY <1>6 DEF ProcessQueue, classVars
  <2>2. late' = late \/ (Undisturbed /\ late' = late + 1) BY <1>6 DEF ProcessQueue
  <2> HIDE DEF k
  <2> QED BY <2>1, <2>2, <1>1, <1>2, <1>3
<1>7. ASSUME NEW c \in Classes, DropClass(c)
      PROVE  /\ UNCHANGED <<VolumesOf, faults, late, crashes>>
             /\ IsFiniteSet(dropped') /\ faults + late + crashes + Cardinality(dropped') \in 0..MaxDisturbed
  <2>1. UNCHANGED <<VolumesOf, faults, late, crashes>> /\ Undisturbed /\ dropped' = dropped \cup {c}
    BY <1>7 DEF DropClass, UnchangedByClasses, bounds
  <2>2. IsFiniteSet(dropped') /\ (Cardinality(dropped') = k \/ Cardinality(dropped') = k + 1)
    BY <2>1, <1>2, FS_AddElement
  <2> HIDE DEF k
  <2> QED BY <2>1, <2>2, <1>1, <1>2, <1>3
<1>8. CASE Crash
  <2>1. UNCHANGED <<VolumesOf, faults, late, dropped>> /\ Undisturbed /\ crashes' = crashes + 1
    BY <1>8 DEF Crash
  <2>2. crashes' \in Nat /\ crashes <= crashes' /\ faults + late + crashes' + k \in 0..MaxDisturbed
    <3> HIDE DEF k
    <3> QED BY <2>1, <1>1, <1>2, <1>3
  <2> QED BY <2>1, <2>2, <1>2
<1> QED BY <1>2, <1>4, <1>5, <1>6, <1>7, <1>8, StepIsCall
-----------------------------------------------------------------------------
(* Types *)

\* The objects, copies, worker and goroutines alone
Objects ==
    /\ snap \in [Provisioners -> VolumeSnapshots] /\ cache \in [Provisioners -> VolumeSnapshots]
    /\ queue \subseteq Provisioners
    /\ store \in [Provisioners -> Nat]
    /\ w \in [pc : {"idle", "states", "annotate", "support"}, key : Provisioners \cup {"unset"},
              obj : VolumeSnapshots]
    /\ w.pc # "idle" => w.key \in Provisioners
    /\ h \in [Provisioners -> Goroutines]
    /\ csi \in Seq([pvc : PVCs, ready : BOOLEAN])

\* The attempt of the backup controller and the classes alone
AttemptAndClasses ==
    /\ r \in [pc : {"group", "provisioners", "create", "wait", "snapshots", "backup", "done", "failed"},
              todo : SUBSET Provisioners, done : SUBSET Provisioners,
              cur : Provisioners \cup {"unset"}]
    /\ vbcs \subseteq Provisioners
    /\ classes \cup dropped \cup known \subseteq Classes
    /\ selected \in UNION {[D -> Classes] : D \in SUBSET CSIDrivers}

\* The worker at rest and the goroutine that does not run have their types.
LEMMA IdleType ==
    /\ Idle \in [pc : {"idle", "states", "annotate", "support"}, key : Provisioners \cup {"unset"},
                 obj : VolumeSnapshots]
    /\ Idle.pc = "idle" /\ Gone \in Goroutines /\ Gone.pc = "none" /\ Gone.todo = <<>>
<1>1. <<>> \in Seq(SnapshotStates) OBVIOUS
<1> QED BY <1>1, NoSnapshotType DEF Idle, Gone, Goroutines

\* An object written anew
NextVersion(o) == [o EXCEPT !.rv = @ + 1]

\* The object written anew differs in its version only.
LEMMA NextVersionIs ==
    ASSUME NEW o \in VolumeSnapshots
    PROVE  /\ NextVersion(o) \in VolumeSnapshots /\ NextVersion(o).rv = o.rv + 1
           /\ NextVersion(o).states = o.states /\ NextVersion(o).synced = o.synced
           /\ Same(NextVersion(o), o)
BY DEF NextVersion, VolumeSnapshots, Same

\* A write is carried out on the version it was read from, or nothing happens.
LEMMA WriteIs ==
    ASSUME snap \in [Provisioners -> VolumeSnapshots], NEW s \in Provisioners,
           NEW o \in VolumeSnapshots, NEW outcome, Write(s, o, outcome)
    PROVE  /\ snap' \in [Provisioners -> VolumeSnapshots]
           /\ NextVersion(o) \in VolumeSnapshots /\ NextVersion(o).rv = o.rv + 1
           /\ NextVersion(o).states = o.states /\ Same(NextVersion(o), o)
           /\ \/ snap' = snap /\ ~Written(s, o, outcome) /\ (Fresh(s, o) => outcome # "ok")
              \/ Fresh(s, o) /\ outcome # "fails" /\ snap' = [snap EXCEPT ![s] = NextVersion(o)]
<1>1. /\ NextVersion(o) \in VolumeSnapshots /\ NextVersion(o).rv = o.rv + 1
      /\ NextVersion(o).states = o.states /\ Same(NextVersion(o), o)
  BY NextVersionIs
<1>2. CASE outcome # "fails" /\ o.rv = snap[s].rv
  <2>1. snap' = [snap EXCEPT ![s] = NextVersion(o)] BY <1>2 DEF Write, NextVersion
  <2> QED BY <1>1, <1>2, <2>1 DEF Fresh
<1>3. CASE ~(outcome # "fails" /\ o.rv = snap[s].rv)
  <2>1. snap' = snap BY <1>3 DEF Write
  <2> QED BY <1>1, <1>3, <2>1 DEF Fresh, Written
<1> QED BY <1>2, <1>3

\* A goroutine that ends or goes on has its type.
LEMMA GoroutineType ==
    ASSUME h \in [Provisioners -> Goroutines], NEW s \in Provisioners
    PROVE  /\ HandlerEnds(s) => h' \in [Provisioners -> Goroutines]
           /\ \A q \in Seq(SnapshotStates) : GoOn(s, q) => h' \in [Provisioners -> Goroutines]
           /\ \A ready \in {"true", "false"} : Verdict(s, ready) => h' \in [Provisioners -> Goroutines]
<1>1. h[s] \in Goroutines OBVIOUS
<1>2. HandlerEnds(s) => h' \in [Provisioners -> Goroutines] BY IdleType DEF HandlerEnds
<1>3. ASSUME NEW q \in Seq(SnapshotStates), GoOn(s, q) PROVE h' \in [Provisioners -> Goroutines]
  <2>1. [h[s] EXCEPT !.pc = IF q = <<>> THEN "wait" ELSE "create", !.todo = q, !.ref = 0] \in Goroutines
    BY <1>1 DEF Goroutines
  <2> QED BY <1>3, <2>1 DEF GoOn
<1>4. ASSUME NEW ready \in {"true", "false"}, Verdict(s, ready)
      PROVE  h' \in [Provisioners -> Goroutines]
  <2>1. [h[s] EXCEPT !.pc = "mark", !.ready = ready] \in Goroutines BY <1>1 DEF Goroutines
  <2>2. h' = [h EXCEPT ![s] = [h[s] EXCEPT !.pc = "mark", !.ready = ready]] BY <1>4 DEF Verdict
  <2> QED BY <2>1, <2>2
<1> QED BY <1>2, <1>3, <1>4

\* The states with the reference are states, for the same volumes.
LEMMA ReferringIs ==
    ASSUME NEW q \in Seq(SnapshotStates), NEW p, NEW ref \in Nat
    PROVE  /\ Referring(q, p, ref) \in Seq(SnapshotStates)
           /\ Len(Referring(q, p, ref)) = Len(q)
           /\ DOMAIN Referring(q, p, ref) = DOMAIN q
           /\ \A i \in DOMAIN q :
                 /\ Referring(q, p, ref)[i].pvc = q[i].pvc
                 /\ Referring(q, p, ref)[i].ref = q[i].ref \/ (q[i].pvc = p /\ Referring(q, p, ref)[i].ref = ref)
<1> DEFINE a == Referring(q, p, ref)
<1>1. DOMAIN q = 1..Len(q) /\ Len(q) \in Nat OBVIOUS
<1>2. \A i \in DOMAIN q : q[i] \in SnapshotStates OBVIOUS
<1>3. \A i \in DOMAIN q : [q[i] EXCEPT !.ref = ref] \in SnapshotStates
                          /\ [q[i] EXCEPT !.ref = ref].pvc = q[i].pvc
                          /\ [q[i] EXCEPT !.ref = ref].ref = ref
  BY <1>2 DEF SnapshotStates
<1>4. a = [i \in DOMAIN q |-> IF q[i].pvc = p THEN [q[i] EXCEPT !.ref = ref] ELSE q[i]] BY DEF Referring
<1> HIDE DEF a
<1>5. a \in [1..Len(q) -> SnapshotStates] BY <1>1, <1>2, <1>3, <1>4
<1>6. \A i \in DOMAIN q : a[i].pvc = q[i].pvc /\ (a[i].ref = q[i].ref \/ (q[i].pvc = p /\ a[i].ref = ref))
  BY <1>3, <1>4
<1> QED BY <1>1, <1>5, <1>6, FunctionIsList DEF a
\* TypeOK consists of these two and the budget.
LEMMA TypeParts == TypeOK <=> /\ VolumesOf \in Backups /\ Objects /\ AttemptAndClasses
                              /\ faults + late + crashes + Cardinality(dropped) \in 0..MaxDisturbed
                              /\ faults \in Nat /\ late \in Nat /\ crashes \in Nat
                              /\ IsFiniteSet(dropped)
BY DEF TypeOK, Objects, AttemptAndClasses

\* The steps of the attempt keep the types of the objects.
LEMMA AttemptObjects ==
    ASSUME Objects, Attempt
    PROVE  Objects'
<1> USE DEF UnchangedByAttempt, ctrlVars
<1>1. ASSUME NEW s \in Provisioners, kahuSnapshot(s) PROVE Objects'
  <2>1. UNCHANGED <<cache, queue, store, w, h, csi>> BY <1>1 DEF kahuSnapshot
  <2>2. snap' \in [Provisioners -> VolumeSnapshots]
    <3>1. PICK outcome \in {"ok", "fails", "lost"} : Write(s, NoSnapshot, outcome)
      BY <1>1 DEF kahuSnapshot
    <3> QED BY <3>1, WriteIs, NoSnapshotType DEF Objects
  <2> QED BY <2>1, <2>2 DEF Objects
<1>2. ASSUME UNCHANGED <<snap, cache, queue, store, w, h, csi>> PROVE Objects'
  BY <1>2 DEF Objects
<1>3. CASE NewGroup BY <1>2, <1>3 DEF NewGroup
<1>4. CASE GroupByProvisioner BY <1>2, <1>4 DEF GroupByProvisioner
<1>5. CASE verifySnapshotStatus BY <1>2, <1>5 DEF verifySnapshotStatus
<1>6. CASE AttemptTimeout BY <1>2, <1>6 DEF AttemptTimeout
<1>7. CASE BySnapshot BY <1>2, <1>7 DEF BySnapshot
<1>8. ASSUME NEW s \in Provisioners, WaitForSnapshotToReady(s) PROVE Objects'
  BY <1>2, <1>8 DEF WaitForSnapshotToReady
<1>9. ASSUME NEW s \in Provisioners, ensureVBCWithBackupSourceRef(s) PROVE Objects'
  BY <1>2, <1>9 DEF ensureVBCWithBackupSourceRef
<1> QED BY <1>1, <1>3, <1>4, <1>5, <1>6, <1>7, <1>8, <1>9 DEF Attempt

\* The steps of the worker keep the types of the objects.
LEMMA WorkerObjects ==
    ASSUME VolumesOf \in Backups, Objects, ListsRecorded, Worker
    PROVE  Objects'
<1> DEFINE WT == [pc : {"idle", "states", "annotate", "support"}, key : Provisioners \cup {"unset"},
                  obj : VolumeSnapshots]
<1>0. w \in WT /\ (w.pc # "idle" => w.key \in Provisioners) /\ w.obj \in VolumeSnapshots
  BY DEF Objects
<1>1. ASSUME NEW s \in Provisioners, ProcessQueue(s) PROVE Objects'
  <2>1. UNCHANGED <<snap, h, csi>> /\ queue' = queue \ {s} BY <1>1 DEF ProcessQueue
  <2>2. cache' \in [Provisioners -> VolumeSnapshots] /\ store' \in [Provisioners -> Nat]
        /\ w' \in WT /\ (w'.pc # "idle" => w'.key \in Provisioners)
    <3>1. CASE UNCHANGED <<w, cache, store>> BY <3>1 DEF Objects
    <3>2. CASE /\ store' = [store EXCEPT ![s] = cache[s].rv]
               /\ cache' = [cache EXCEPT ![s] = cache[s]]
               /\ w' = [pc |-> "support", key |-> s, obj |-> cache[s]]
      BY <3>2, ObjectFields DEF Objects
    <3>3. CASE /\ store' = [store EXCEPT ![s] = cache[s].rv]
               /\ cache' = [cache EXCEPT ![s] = [cache[s] EXCEPT !.states = WithVolumes(s, @)]]
               /\ w' = [pc |-> "states", key |-> s,
                        obj |-> [cache[s] EXCEPT !.states = WithVolumes(s, @)]]
      <4>1. cache[s] \in VolumeSnapshots /\ cache[s].rv \in Nat /\ cache[s].states \in Seq(SnapshotStates)
        BY ObjectFields DEF Objects
      <4>2. WithVolumes(s, cache[s].states) \in Seq(SnapshotStates)
        BY <4>1, WithVolumesIs DEF ListsRecorded
      <4>3. [cache[s] EXCEPT !.states = WithVolumes(s, @)] \in VolumeSnapshots
        BY <4>1, <4>2 DEF VolumeSnapshots
      <4> QED BY <3>3, <4>1, <4>3 DEF Objects
    <3> QED BY <1>1, <3>1, <3>2, <3>3 DEF ProcessQueue
  <2> QED BY <2>1, <2>2 DEF Objects
<1>2. ASSUME NEW o \in VolumeSnapshots, NEW pc \in {"annotate", "support"}, w.key \in Provisioners,
             UNCHANGED <<cache, store, h, csi>>, NEW outcome, Write(w.key, o, outcome),
             \/ w' = [w EXCEPT !.pc = pc, !.obj = NextVersion(o)] /\ UNCHANGED queue
             \/ ReturnErr
      PROVE  Objects'
  <2>1. snap' \in [Provisioners -> VolumeSnapshots] /\ NextVersion(o) \in VolumeSnapshots
    BY <1>2, WriteIs DEF Objects
  <2>2. w' \in WT /\ (w'.pc # "idle" => w'.key \in Provisioners) /\ queue' \subseteq Provisioners
    BY <1>0, <1>2, <2>1, IdleType DEF ReturnErr, Objects
  <2> QED BY <1>2, <2>1, <2>2 DEF Objects
<1>3. CASE SyncStates
  <2>1. PICK outcome \in {"ok", "fails", "lost"} :
          /\ Write(w.key, w.obj, outcome)
          /\ \/ w' = [w EXCEPT !.pc = "annotate", !.obj = NextVersion(w.obj)] /\ UNCHANGED queue
             \/ ReturnErr
    BY <1>3 DEF SyncStates, NextVersion
  <2> QED BY <1>0, <1>2, <1>3, <2>1 DEF SyncStates
<1>4. CASE AnnotateSynced
  <2> DEFINE o == [w.obj EXCEPT !.synced = TRUE]
  <2>1. o \in VolumeSnapshots BY <1>0 DEF VolumeSnapshots
  <2>2. PICK outcome \in {"ok", "fails", "lost"} :
          /\ Write(w.key, o, outcome)
          /\ \/ w' = [w EXCEPT !.pc = "support", !.obj = NextVersion(o)] /\ UNCHANGED queue
             \/ ReturnErr
    BY <1>4 DEF AnnotateSynced, NextVersion
  <2> HIDE DEF o
  <2> QED BY <1>0, <1>2, <1>4, <2>1, <2>2 DEF AnnotateSynced
<1>5. CASE HandleCSISnapshot
  <2>1. UNCHANGED <<snap, cache, store, csi>> /\ w.key \in Provisioners
    BY <1>0, <1>5 DEF HandleCSISnapshot
  <2>2. w' = Idle /\ queue' \subseteq Provisioners
    BY <1>0, <1>5 DEF HandleCSISnapshot, Return, ReturnErr, Objects
  <2>3. h' \in [Provisioners -> Goroutines]
    <3>1. w.obj.states \in Seq(SnapshotStates) BY <1>0, ObjectFields
    <3>2. [Gone EXCEPT !.pc = "class", !.todo = w.obj.states] \in Goroutines
      BY <3>1, IdleType DEF Goroutines
    <3>3. h' = h \/ h' = [h EXCEPT ![w.key] = [Gone EXCEPT !.pc = "class", !.todo = w.obj.states]]
      BY <1>5 DEF HandleCSISnapshot
    <3> QED BY <2>1, <3>2, <3>3 DEF Objects
  <2> QED BY <2>1, <2>2, <2>3, IdleType DEF Objects
<1> QED BY <1>1, <1>3, <1>4, <1>5 DEF Worker
\* The steps of a goroutine keep the types of the objects.
LEMMA HandlerObjects ==
    ASSUME Objects, GoroutineKnows, NEW s \in Provisioners, Handler(s)
    PROVE  Objects'
<1> USE DEF UnchangedByHandler, ctrlVars
<1>1. /\ h \in [Provisioners -> Goroutines] /\ h[s] \in Goroutines /\ h[s].todo \in Seq(SnapshotStates)
      /\ h[s].ref \in Nat /\ snap[s] \in VolumeSnapshots
      /\ h[s].ready \in {"unset", "true", "false"}
  BY DEF Objects, Goroutines
<1>2. h[s].pc \in {"create", "record"} => h[s].todo # <<>> /\ Head(h[s].todo) \in SnapshotStates
                                         /\ Tail(h[s].todo) \in Seq(SnapshotStates)
                                         /\ Head(h[s].todo).pvc \in PVCs
  <2> SUFFICES ASSUME h[s].todo # <<>>
      PROVE  Head(h[s].todo) \in SnapshotStates /\ Tail(h[s].todo) \in Seq(SnapshotStates)
             /\ Head(h[s].todo).pvc \in PVCs
    BY DEF GoroutineKnows
  <2>1. Head(h[s].todo) \in SnapshotStates /\ Tail(h[s].todo) \in Seq(SnapshotStates) BY <1>1
  <2> QED BY <2>1 DEF SnapshotStates
<1>3. ASSUME UNCHANGED <<cache, queue, store, w>>, snap' \in [Provisioners -> VolumeSnapshots],
             h' \in [Provisioners -> Goroutines], csi' \in Seq([pvc : PVCs, ready : BOOLEAN])
      PROVE  Objects'
  BY <1>3 DEF Objects
<1>4. snap \in [Provisioners -> VolumeSnapshots] /\ csi \in Seq([pvc : PVCs, ready : BOOLEAN])
  BY DEF Objects
<1>5. CASE Handle(s)
  <2>1. GoOn(s, h[s].todo) \/ HandlerEnds(s) BY <1>5 DEF Handle
  <2> QED BY <1>1, <1>3, <1>4, <1>5, <2>1, GoroutineType DEF Handle
<1>6. CASE NextState(s)
  <2>1. h' \in [Provisioners -> Goroutines] BY <1>1, <1>2, <1>6, GoroutineType DEF NextState
  <2>2. UNCHANGED <<snap, csi, cache, queue, store, w>> BY <1>6 DEF NextState
  <2> QED BY <1>3, <1>4, <2>1, <2>2
<1>7. CASE CreateCSISnapshot(s)
  <2> DEFINE new == [pvc |-> Head(h[s].todo).pvc, ready |-> FALSE]
  <2>1. new \in [pvc : PVCs, ready : BOOLEAN] BY <1>2, <1>7 DEF CreateCSISnapshot
  <2>2. csi' = csi \/ csi' = Append(csi, new) BY <1>7 DEF CreateCSISnapshot
  <2>3. csi' \in Seq([pvc : PVCs, ready : BOOLEAN]) /\ Len(csi) + 1 \in Nat
    <3> DEFINE C == [pvc : PVCs, ready : BOOLEAN]
    <3>1. csi \in Seq(C) /\ new \in C BY <1>4, <2>1
    <3> HIDE DEF C, new
    <3>2. csi' \in Seq(C) /\ Len(csi) + 1 \in Nat BY <2>2, <3>1
    <3> QED BY <3>2 DEF C
  <2> HIDE DEF new
  <2>4. h' \in [Provisioners -> Goroutines]
    <3>1. CASE HandlerEnds(s) BY <1>1, <3>1, GoroutineType
    <3>2. CASE h' = [h EXCEPT ![s].pc = "record", ![s].ref = Len(csi) + 1]
      <4>1. [h[s] EXCEPT !.pc = "record", !.ref = Len(csi) + 1] \in Goroutines
        BY <1>1, <2>3 DEF Goroutines
      <4>2. h' = [h EXCEPT ![s] = [h[s] EXCEPT !.pc = "record", !.ref = Len(csi) + 1]] BY <3>2
      <4> QED BY <1>1, <4>1, <4>2
    <3> QED BY <1>7, <3>1, <3>2 DEF CreateCSISnapshot
  <2> QED BY <1>3, <1>4, <1>7, <2>3, <2>4 DEF CreateCSISnapshot
<1>8. CASE applySnapshot(s)
  <2> DEFINE o == [snap[s] EXCEPT !.states = Referring(@, Head(h[s].todo).pvc, h[s].ref)]
  <2>1. snap[s].states \in Seq(SnapshotStates) BY <1>1, ObjectFields
  <2>2. Referring(snap[s].states, Head(h[s].todo).pvc, h[s].ref) \in Seq(SnapshotStates)
    BY <1>1, <2>1, ReferringIs
  <2>3. o \in VolumeSnapshots BY <1>1, <2>2 DEF VolumeSnapshots
  <2>4. PICK outcome \in {"ok", "fails", "lost"} :
          /\ Write(s, o, outcome) \/ UNCHANGED snap
          /\ HandlerEnds(s) \/ GoOn(s, Tail(h[s].todo))
    BY <1>8 DEF applySnapshot
  <2> HIDE DEF o
  <2>5. snap' \in [Provisioners -> VolumeSnapshots] BY <1>4, <2>3, <2>4, WriteIs
  <2>6. h' \in [Provisioners -> Goroutines]
    BY <1>1, <1>2, <1>8, <2>4, GoroutineType DEF applySnapshot
  <2> QED BY <1>3, <1>4, <1>8, <2>5, <2>6 DEF applySnapshot
<1>9. CASE waitForSnapshotToReady(s)
  BY <1>1, <1>3, <1>4, <1>9, GoroutineType DEF waitForSnapshotToReady
<1>10. CASE HandlerTimeout(s) BY <1>1, <1>3, <1>4, <1>10, GoroutineType DEF HandlerTimeout
<1>11. CASE MarkReadyToUse(s)
  <2> DEFINE o == [snap[s] EXCEPT !.ready = h[s].ready]
  <2>1. o \in VolumeSnapshots BY <1>1 DEF VolumeSnapshots
  <2>2. PICK outcome \in {"ok", "fails", "lost"} : Write(s, o, outcome) \/ UNCHANGED snap
    BY <1>11 DEF MarkReadyToUse
  <2> HIDE DEF o
  <2>3. snap' \in [Provisioners -> VolumeSnapshots] BY <1>4, <2>1, <2>2, WriteIs
  <2> QED BY <1>1, <1>3, <1>4, <1>11, <2>3, GoroutineType DEF MarkReadyToUse
<1> QED BY <1>5, <1>6, <1>7, <1>8, <1>9, <1>10, <1>11 DEF Handler

\* So do the informers, the drivers and a crash.
LEMMA OtherObjects ==
    ASSUME Objects,
           \/ Informers \/ CSIDriverFinishes \/ Crash
           \/ \E s \in Provisioners : reSync(s) \/ ExternalFinishes(s)
           \/ \E c \in Classes : DropClass(c)
    PROVE  Objects'
<1>1. ASSUME NEW s \in Provisioners, Inform(s) PROVE Objects'
  BY <1>1 DEF Inform, Objects
<1>2. ASSUME NEW c \in Classes,
             processAdd(c) \/ processDelete(c) \/ processUnknown(c) \/ DropClass(c)
      PROVE  Objects'
  <2>1. UNCHANGED <<snap, cache, queue, store, w, h, csi>>
    BY <1>2 DEF processAdd, processDelete, processUnknown, DropClass, UnchangedByClasses, ctrlVars
  <2> QED BY <2>1 DEF Objects
<1>3. ASSUME NEW s \in Provisioners, reSync(s) PROVE Objects' BY <1>3 DEF reSync, Objects
<1>4. ASSUME NEW s \in Provisioners, ExternalFinishes(s) PROVE Objects'
  <2>1. UNCHANGED <<cache, queue, store, w, h, csi>> BY <1>4 DEF ExternalFinishes, ctrlVars
  <2>2. PICK result \in {[ready |-> "true", failed |-> FALSE], [ready |-> "unset", failed |-> TRUE]} :
          snap' = [snap EXCEPT ![s] = [snap[s] EXCEPT !.rv = @ + 1, !.ready = result.ready,
                                                      !.failed = result.failed]]
    BY <1>4 DEF ExternalFinishes
  <2>3. result.ready \in {"unset", "true", "false"} /\ result.failed \in BOOLEAN
    <3>1. CASE result = [ready |-> "true", failed |-> FALSE] BY <3>1
    <3>2. CASE result = [ready |-> "unset", failed |-> TRUE] BY <3>2
    <3> QED BY <3>1, <3>2
  <2>4. snap[s] \in VolumeSnapshots /\ snap[s].rv + 1 \in Nat BY ObjectFields DEF Objects
  <2>5. [snap[s] EXCEPT !.rv = @ + 1, !.ready = result.ready, !.failed = result.failed]
          \in VolumeSnapshots
    BY <2>3, <2>4 DEF VolumeSnapshots
  <2>6. snap' \in [Provisioners -> VolumeSnapshots]
    <3> DEFINE o == [snap[s] EXCEPT !.rv = @ + 1, !.ready = result.ready, !.failed = result.failed]
    <3>1. snap' = [snap EXCEPT ![s] = o] BY <2>2
    <3> HIDE DEF o
    <3>2. o \in VolumeSnapshots BY <2>5 DEF o
    <3> QED BY <3>1, <3>2 DEF Objects
  <2> QED BY <2>1, <2>6 DEF Objects
<1>5. CASE CSIDriverFinishes
  <2>1. UNCHANGED <<snap, cache, queue, store, w, h>> BY <1>5 DEF CSIDriverFinishes, ctrlVars
  <2>2. PICK i \in DOMAIN csi : csi' = [csi EXCEPT ![i].ready = TRUE] BY <1>5 DEF CSIDriverFinishes
  <2>3. csi' \in Seq([pvc : PVCs, ready : BOOLEAN])
    <3> DEFINE C == [pvc : PVCs, ready : BOOLEAN]
    <3>1. csi \in Seq(C) /\ i \in 1..Len(csi) BY <2>2 DEF Objects
    <3> HIDE DEF C
    <3>2. csi[i] \in C BY <3>1
    <3>3. [csi[i] EXCEPT !.ready = TRUE] \in C BY <3>2 DEF C
    <3>4. csi' = [csi EXCEPT ![i] = [csi[i] EXCEPT !.ready = TRUE]] BY <2>2
    <3>5. csi \in [1..Len(csi) -> C] /\ Len(csi) \in Nat BY <3>1
    <3>6. csi' \in [1..Len(csi) -> C] BY <3>1, <3>3, <3>4, <3>5
    <3>7. csi' \in Seq(C) BY <3>5, <3>6, FunctionIsList
    <3> QED BY <3>7 DEF C
  <2> QED BY <2>1, <2>3 DEF Objects
<1>6. CASE Crash
  <2>1. w' = Idle /\ UNCHANGED <<snap, csi>> /\ cache' = snap
        /\ queue' = {s \in Provisioners : Exists(snap[s])}
        /\ store' = [s \in Provisioners |-> 0] /\ h' = [s \in Provisioners |-> Gone]
    BY <1>6 DEF Crash
  <2> QED BY <2>1, IdleType DEF Objects
<1> QED BY <1>1, <1>2, <1>3, <1>4, <1>5, <1>6 DEF Informers
\* The attempt has its type after each of its steps.
LEMMA AttemptType ==
    ASSUME VolumesOf \in Backups, AttemptAndClasses, Attempt
    PROVE  AttemptAndClasses'
<1> DEFINE RT == [pc : {"group", "provisioners", "create", "wait", "snapshots", "backup", "done", "failed"},
                  todo : SUBSET Provisioners, done : SUBSET Provisioners,
                  cur : Provisioners \cup {"unset"}]
<1>0. /\ r \in RT /\ r.todo \subseteq Provisioners /\ r.done \subseteq Provisioners
      /\ r.cur \in Provisioners \cup {"unset"}
  BY DEF AttemptAndClasses
<1>1. ASSUME r' \in RT, vbcs' \subseteq Provisioners, UNCHANGED classVars PROVE AttemptAndClasses'
  BY <1>1 DEF AttemptAndClasses, classVars
<1>2. AttemptFails => r' \in RT BY <1>0 DEF AttemptFails
<1>3. vbcs \subseteq Provisioners BY DEF AttemptAndClasses
<1> USE DEF UnchangedByAttempt
<1>4. CASE NewGroup
  <2>1. r' \in RT BY <1>0, <1>2, <1>4 DEF NewGroup
  <2> QED BY <1>1, <1>3, <1>4, <2>1 DEF NewGroup
<1>5. CASE GroupByProvisioner
  <2>1. r' \in RT
    <3>1. CASE AttemptFails BY <1>2, <3>1
    <3>2. CASE r' = [r EXCEPT !.pc = "create", !.todo = {s \in Provisioners : VolumesOf[s] # <<>>}]
      <4> DEFINE T == {s \in Provisioners : VolumesOf[s] # <<>>}
      <4>1. T \subseteq Provisioners OBVIOUS
      <4> HIDE DEF T
      <4>2. [r EXCEPT !.pc = "create", !.todo = T] \in RT BY <1>0, <4>1
      <4> QED BY <3>2, <4>2 DEF T
    <3> QED BY <1>5, <3>1, <3>2 DEF GroupByProvisioner
  <2> QED BY <1>1, <1>3, <1>5, <2>1 DEF GroupByProvisioner
<1>6. ASSUME NEW s \in Provisioners, kahuSnapshot(s) PROVE AttemptAndClasses'
  <2>1. r' \in RT
    <3> DEFINE pc == IF r.todo = {s} THEN "wait" ELSE "create"
               a  == r.todo \ {s}
               b  == r.done \cup {s}
    <3>1. a \subseteq Provisioners /\ b \subseteq Provisioners /\ pc \in {"wait", "create"} BY <1>0
    <3>2. AttemptFails \/ r' = [r EXCEPT !.todo = a, !.done = b, !.pc = pc]
      BY <1>6 DEF kahuSnapshot
    <3> HIDE DEF a, b, pc
    <3>3. [r EXCEPT !.todo = a, !.done = b, !.pc = pc] \in RT BY <1>0, <3>1
    <3> QED BY <1>2, <3>2, <3>3
  <2> QED BY <1>1, <1>3, <1>6, <2>1 DEF kahuSnapshot
<1>7. ASSUME NEW s \in Provisioners, WaitForSnapshotToReady(s) PROVE AttemptAndClasses'
  <2>1. r' \in RT BY <1>0, <1>7 DEF WaitForSnapshotToReady
  <2> QED BY <1>1, <1>3, <1>7, <2>1 DEF WaitForSnapshotToReady
<1>8. CASE verifySnapshotStatus
  <2>1. r' \in RT
    <3> DEFINE pc == IF r.done = {r.cur} THEN "snapshots" ELSE "wait"
               a  == r.done \ {r.cur}
               b  == r.todo \cup {r.cur}
    <3>1. a \subseteq Provisioners /\ b \subseteq Provisioners /\ pc \in {"snapshots", "wait"}
      BY <1>0, <1>8 DEF verifySnapshotStatus
    <3>2. AttemptFails \/ r' = [r EXCEPT !.cur = "unset", !.done = a, !.todo = b, !.pc = pc]
      BY <1>8 DEF verifySnapshotStatus
    <3> HIDE DEF a, b, pc
    <3>3. [r EXCEPT !.cur = "unset", !.done = a, !.todo = b, !.pc = pc] \in RT BY <1>0, <3>1
    <3> QED BY <1>2, <3>2, <3>3
  <2> QED BY <1>1, <1>3, <1>8, <2>1 DEF verifySnapshotStatus
<1>9. CASE AttemptTimeout BY <1>1, <1>2, <1>3, <1>9 DEF AttemptTimeout
<1>10. CASE BySnapshot
  <2>1. r' \in RT BY <1>0, <1>2, <1>10 DEF BySnapshot
  <2> QED BY <1>1, <1>3, <1>10, <2>1 DEF BySnapshot
<1>11. ASSUME NEW s \in Provisioners, ensureVBCWithBackupSourceRef(s) PROVE AttemptAndClasses'
  <2>1. r' \in RT
    <3> DEFINE pc == IF r.todo = {s} THEN "done" ELSE "backup"
               a  == r.todo \ {s}
    <3>1. a \subseteq Provisioners /\ pc \in {"done", "backup"} BY <1>0
    <3>2. AttemptFails \/ r' = [r EXCEPT !.todo = a, !.pc = pc]
      BY <1>11 DEF ensureVBCWithBackupSourceRef
    <3> HIDE DEF a, pc
    <3>3. [r EXCEPT !.todo = a, !.pc = pc] \in RT BY <1>0, <3>1
    <3> QED BY <1>2, <3>2, <3>3
  <2>2. vbcs' \subseteq Provisioners BY <1>3, <1>11 DEF ensureVBCWithBackupSourceRef
  <2> QED BY <1>1, <1>11, <2>1, <2>2 DEF ensureVBCWithBackupSourceRef
<1> QED BY <1>4, <1>5, <1>6, <1>7, <1>8, <1>9, <1>10, <1>11 DEF Attempt

\* So have the classes, whoever steps.
LEMMA ClassesType ==
    ASSUME AttemptAndClasses,
           \/ Worker \/ Informers \/ CSIDriverFinishes \/ Crash
           \/ \E s \in Provisioners : Handler(s) \/ reSync(s) \/ ExternalFinishes(s)
           \/ \E c \in Classes : DropClass(c)
    PROVE  AttemptAndClasses'
<1>1. ASSUME UNCHANGED <<r, vbcs, classVars>> PROVE AttemptAndClasses'
  BY <1>1 DEF AttemptAndClasses, classVars
<1>2. CASE Worker
  <2>1. UNCHANGED <<r, vbcs, classVars>>
    BY <1>2 DEF Worker, ProcessQueue, SyncStates, AnnotateSynced, HandleCSISnapshot
  <2> QED BY <1>1, <2>1
<1>3. ASSUME NEW s \in Provisioners, Handler(s) PROVE AttemptAndClasses'
  <2>1. UNCHANGED <<r, vbcs, classVars>>
    BY <1>3 DEF Handler, Handle, NextState, CreateCSISnapshot, applySnapshot,
                waitForSnapshotToReady, HandlerTimeout, MarkReadyToUse, UnchangedByHandler
  <2> QED BY <1>1, <2>1
<1>4. ASSUME NEW s \in Provisioners, Inform(s) \/ reSync(s) \/ ExternalFinishes(s)
      PROVE  AttemptAndClasses'
  <2>1. UNCHANGED <<r, vbcs, classVars>> BY <1>4 DEF Inform, reSync, ExternalFinishes
  <2> QED BY <1>1, <2>1
<1>5. CASE CSIDriverFinishes
  <2>1. UNCHANGED <<r, vbcs, classVars>> BY <1>5 DEF CSIDriverFinishes
  <2> QED BY <1>1, <2>1
<1>6. PICK D \in SUBSET CSIDrivers : selected \in [D -> Classes] BY DEF AttemptAndClasses
<1>7. ASSUME NEW E \in SUBSET CSIDrivers, selected' \in [E -> Classes],
             classes' \cup dropped' \cup known' \subseteq Classes, UNCHANGED <<r, vbcs>>
      PROVE  AttemptAndClasses'
  BY <1>7 DEF AttemptAndClasses
<1>8. classes \subseteq Classes /\ dropped \subseteq Classes /\ known \subseteq Classes
  BY DEF AttemptAndClasses
<1>9. ASSUME NEW c \in Classes, processAdd(c) PROVE AttemptAndClasses'
  <2>1. UNCHANGED <<r, vbcs, classes, dropped>> /\ known' \subseteq Classes
    BY <1>8, <1>9 DEF processAdd, UnchangedByClasses
  <2>2. DriverOf[c] \in CSIDrivers BY SnapshotAssumption
  <2>3. selected' = [d \in D \cup {DriverOf[c]} |-> IF d = DriverOf[c] THEN c ELSE selected[d]]
    BY <1>6, <1>9 DEF processAdd
  <2>4. selected' \in [D \cup {DriverOf[c]} -> Classes] BY <1>6, <2>3
  <2> QED BY <1>7, <1>8, <2>1, <2>2, <2>4
<1>10. ASSUME NEW c \in Classes, processDelete(c) PROVE AttemptAndClasses'
  <2>1. UNCHANGED <<r, vbcs, classes, dropped>> /\ known' \subseteq Classes
    BY <1>8, <1>10 DEF processDelete, UnchangedByClasses
  <2> DEFINE E == {x \in D : selected[x] # c}
  <2>2. selected' \in [E -> Classes] BY <1>6, <1>10 DEF processDelete
  <2> QED BY <1>7, <1>8, <2>1, <2>2
<1>11. ASSUME NEW c \in Classes, processUnknown(c) \/ DropClass(c) PROVE AttemptAndClasses'
  <2>1. UNCHANGED <<r, vbcs, selected>> /\ classes' \cup dropped' \cup known' \subseteq Classes
    BY <1>8, <1>11 DEF processUnknown, DropClass, UnchangedByClasses
  <2> QED BY <1>6, <1>7, <2>1
<1>12. CASE Crash
  <2>1. /\ UNCHANGED <<vbcs, classes, dropped>> /\ known' = {} /\ selected' = <<>>
        /\ UNCHANGED r \/ AttemptFails
    BY <1>12 DEF Crash
  <2>2. selected' \in [{} -> Classes] BY <2>1
  <2>3. /\ r' \in [pc : {"group", "provisioners", "create", "wait", "snapshots", "backup", "done", "failed"},
                   todo : SUBSET Provisioners, done : SUBSET Provisioners,
                   cur : Provisioners \cup {"unset"}]
        /\ vbcs' \subseteq Provisioners
    BY <2>1 DEF AttemptFails, AttemptAndClasses
  <2>4. {} \in SUBSET CSIDrivers /\ classes' \cup dropped' \cup known' \subseteq Classes BY <1>8, <2>1
  <2> QED BY <2>2, <2>3, <2>4 DEF AttemptAndClasses
<1> QED BY <1>2, <1>3, <1>4, <1>5, <1>9, <1>10, <1>11, <1>12 DEF Informers

\* Every step keeps the types.
LEMMA TypeStep ==
    ASSUME IInv, Next
    PROVE  TypeOK'
<1>1. TypeOK /\ Objects /\ AttemptAndClasses /\ VolumesOf \in Backups BY TypeParts DEF IInv
<1>2. Objects'
  <2>1. CASE Attempt BY <1>1, <2>1, AttemptObjects
  <2>2. CASE Worker BY <1>1, <2>2, WorkerObjects DEF IInv
  <2>3. ASSUME NEW s \in Provisioners, Handler(s) PROVE Objects'
    BY <1>1, <2>3, HandlerObjects DEF IInv
  <2>4. CASE ~Attempt /\ ~Worker /\ ~(\E s \in Provisioners : Handler(s))
    BY <1>1, <2>4, OtherObjects DEF Next
  <2> QED BY <2>1, <2>2, <2>3, <2>4
<1>3. AttemptAndClasses'
  <2>1. CASE Attempt BY <1>1, <2>1, AttemptType
  <2>2. CASE ~Attempt BY <1>1, <2>2, ClassesType DEF Next
  <2> QED BY <2>1, <2>2
<1>4. TypeOK' <=> (VolumesOf' \in Backups /\ Objects' /\ AttemptAndClasses'
                   /\ faults' + late' + crashes' + Cardinality(dropped') \in 0..MaxDisturbed
                   /\ faults' \in Nat /\ late' \in Nat /\ crashes' \in Nat
                   /\ IsFiniteSet(dropped'))
  BY DEF TypeOK, Objects, AttemptAndClasses
<1> QED BY <1>1, <1>2, <1>3, <1>4, BudgetStep
-----------------------------------------------------------------------------
(* The shapes of the steps *)

\* The objects, their copies and the worker's stay as they are.
Quiet == UNCHANGED <<snap, cache, w>>

\* One object is written that the worker has nothing to record in: nothing is recorded
\* yet, or everything.  Its list keeps its volumes, and refers to what was created; the
\* object of a CSI driver becomes ready only when its volumes are taken.
Rewrites(s, new) ==
    /\ snap' = [snap EXCEPT ![s] = new] /\ UNCHANGED <<cache, w, csi>>
    /\ new \in VolumeSnapshots /\ new.rv = snap[s].rv + 1
    /\ new.synced = snap[s].synced
    /\ snap[s].synced \/ (snap[s] = NoSnapshot /\ new.states = <<>>)
    /\ Len(new.states) = Len(snap[s].states) /\ DOMAIN new.states = DOMAIN snap[s].states
    /\ \A i \in DOMAIN new.states :
          /\ new.states[i].pvc = snap[s].states[i].pvc
          /\ new.states[i].ref # 0 => RefersTo(new.states[i].ref, new.states[i].pvc)
    /\ new.ready = "true" => snap[s].ready = "true" \/ Taken(s) \/ s \notin CSIDrivers

\* A write of o to an object that is synced rewrites it, when o differs from it in what
\* the goroutine changes.
LEMMA WriteRewrites ==
    ASSUME IInv, NEW s \in Provisioners, NEW o \in VolumeSnapshots, NEW outcome,
           Write(s, o, outcome), UNCHANGED <<cache, w, csi>>,
           o.synced = snap[s].synced,
           snap[s].synced \/ (snap[s] = NoSnapshot /\ o.states = <<>>),
           Len(o.states) = Len(snap[s].states), DOMAIN o.states = DOMAIN snap[s].states,
           \A i \in DOMAIN o.states :
              /\ o.states[i].pvc = snap[s].states[i].pvc
              /\ o.states[i].ref # 0 => RefersTo(o.states[i].ref, o.states[i].pvc),
           o.ready = "true" => snap[s].ready = "true" \/ Taken(s) \/ s \notin CSIDrivers
    PROVE  Quiet \/ \E new : Rewrites(s, new)
<1>1. snap \in [Provisioners -> VolumeSnapshots] BY DEF IInv, TypeOK
<1>2. /\ NextVersion(o) \in VolumeSnapshots /\ NextVersion(o).rv = o.rv + 1
      /\ NextVersion(o).states = o.states /\ Same(NextVersion(o), o)
      /\ \/ snap' = snap
         \/ Fresh(s, o) /\ snap' = [snap EXCEPT ![s] = NextVersion(o)]
  BY <1>1, WriteIs
<1>3. CASE snap' = snap BY <1>3 DEF Quiet
<1>4. CASE Fresh(s, o) /\ snap' = [snap EXCEPT ![s] = NextVersion(o)]
  <2> DEFINE new == NextVersion(o)
  <2>1. new.rv = snap[s].rv + 1 /\ new.synced = o.synced /\ new.ready = o.ready
    BY <1>2, <1>4 DEF Fresh, Same
  <2>2. new \in VolumeSnapshots /\ new.states = o.states /\ snap' = [snap EXCEPT ![s] = new]
    BY <1>2, <1>4
  <2> HIDE DEF new
  <2>3. Rewrites(s, new) BY <2>1, <2>2 DEF Rewrites
  <2> QED BY <2>3
<1> QED BY <1>2, <1>3, <1>4

\* The list of an object refers to what was created.
LEMMA RefersToCreated ==
    ASSUME IInv, NEW s \in Provisioners, NEW i \in DOMAIN snap[s].states, snap[s].states[i].ref # 0
    PROVE  RefersTo(snap[s].states[i].ref, snap[s].states[i].pvc)
BY DEF IInv, ListsRecorded, Recorded

\* A goroutine writes an object whose volumes are all recorded.
LEMMA HandlerShape ==
    ASSUME IInv, NEW s \in Provisioners, Handler(s)
    PROVE  Quiet \/ \E new : Rewrites(s, new)
<1>1. TypeOK /\ GoroutineKnows /\ snap[s] \in VolumeSnapshots /\ snap[s].states \in Seq(SnapshotStates)
      /\ h[s] \in Goroutines /\ h[s].ref \in Nat
  BY ObjectFields DEF IInv, TypeOK, Goroutines
<1>2. UNCHANGED <<cache, w>>
  BY DEF Handler, Handle, NextState, CreateCSISnapshot, applySnapshot, waitForSnapshotToReady,
         HandlerTimeout, MarkReadyToUse, UnchangedByHandler, ctrlVars
<1>3. CASE Handle(s) \/ NextState(s) \/ CreateCSISnapshot(s) \/ waitForSnapshotToReady(s) \/ HandlerTimeout(s)
  BY <1>2, <1>3 DEF Handle, NextState, CreateCSISnapshot, waitForSnapshotToReady, HandlerTimeout, Quiet
<1>4. CASE applySnapshot(s)
  <2> DEFINE p == Head(h[s].todo).pvc
             q == Referring(snap[s].states, p, h[s].ref)
             o == [snap[s] EXCEPT !.states = q]
  <2>1. snap[s].synced /\ RefersTo(h[s].ref, p) /\ csi' = csi
    BY <1>1, <1>4 DEF applySnapshot, GoroutineKnows
  <2>2. /\ q \in Seq(SnapshotStates) /\ Len(q) = Len(snap[s].states) /\ DOMAIN q = DOMAIN snap[s].states
        /\ \A i \in DOMAIN q : /\ q[i].pvc = snap[s].states[i].pvc
                               /\ q[i].ref = snap[s].states[i].ref \/ (q[i].pvc = p /\ q[i].ref = h[s].ref)
    BY <1>1, ReferringIs
  <2>3. PICK outcome \in {"ok", "fails", "lost"} : Write(s, o, outcome) \/ UNCHANGED snap
    BY <1>4 DEF applySnapshot
  <2> HIDE DEF q, p
  <2>4. o \in VolumeSnapshots /\ o.states = q /\ o.synced = snap[s].synced /\ o.ready = snap[s].ready
    BY <1>1, <2>2 DEF VolumeSnapshots
  <2>5. \A i \in DOMAIN q : q[i].ref # 0 => RefersTo(q[i].ref, q[i].pvc)
    BY <2>1, <2>2, RefersToCreated
  <2> HIDE DEF o
  <2>6. CASE UNCHANGED snap BY <1>2, <2>6 DEF Quiet
  <2>7. CASE Write(s, o, outcome) BY <1>2, <2>1, <2>2, <2>4, <2>5, <2>7, WriteRewrites
  <2> QED BY <2>3, <2>6, <2>7
<1>5. CASE MarkReadyToUse(s)
  <2> DEFINE o == [snap[s] EXCEPT !.ready = h[s].ready]
  <2>1. snap[s].synced /\ (h[s].ready = "true" => snap[s].ready = "true" \/ Taken(s)) /\ csi' = csi
    BY <1>1, <1>5 DEF MarkReadyToUse, GoroutineKnows
  <2>2. PICK outcome \in {"ok", "fails", "lost"} : Write(s, o, outcome) \/ UNCHANGED snap
    BY <1>5 DEF MarkReadyToUse
  <2>3. o \in VolumeSnapshots /\ o.states = snap[s].states /\ o.synced = snap[s].synced
        /\ o.ready = h[s].ready
    BY <1>1 DEF VolumeSnapshots, Goroutines
  <2> HIDE DEF o
  <2>4. CASE UNCHANGED snap BY <1>2, <2>4 DEF Quiet
  <2>5. CASE Write(s, o, outcome)
    <3>1. \A i \in DOMAIN o.states :
             /\ o.states[i].pvc = snap[s].states[i].pvc
             /\ o.states[i].ref # 0 => RefersTo(o.states[i].ref, o.states[i].pvc)
      BY <2>3, RefersToCreated
    <3> QED BY <1>2, <2>1, <2>3, <2>5, <3>1, WriteRewrites
  <2> QED BY <2>2, <2>4, <2>5
<1> QED BY <1>3, <1>4, <1>5 DEF Handler

\* Every step has one of the shapes.
LEMMA StepShape ==
    ASSUME IInv, Next
    PROVE  \/ Quiet
           \/ \E s \in Provisioners : \E new : Rewrites(s, new)
           \/ \E s \in Provisioners : ProcessQueue(s) \/ Inform(s)
           \/ SyncStates \/ AnnotateSynced \/ HandleCSISnapshot \/ Crash
<1> DEFINE Goal == Quiet \/ \E s \in Provisioners : \E new : Rewrites(s, new)
<1>1. ASSUME NEW s \in Provisioners, kahuSnapshot(s) PROVE Goal
  <2>1. PICK outcome \in {"ok", "fails", "lost"} : Write(s, NoSnapshot, outcome)
    BY <1>1 DEF kahuSnapshot
  <2>2. UNCHANGED <<cache, w, csi>> BY <1>1 DEF kahuSnapshot, UnchangedByAttempt, ctrlVars
  <2>3. snap[s] \in VolumeSnapshots /\ snap[s].rv \in Nat BY ObjectFields DEF IInv, TypeOK
  <2>4. CASE snap[s].rv = 0
    <3>1. snap[s] = NoSnapshot BY <2>4 DEF IInv, CopiesAgree, Exists
    <3>2. \A i \in DOMAIN NoSnapshot.states : FALSE BY NoSnapshotType
    <3>3. Quiet \/ \E new : Rewrites(s, new)
      BY <2>1, <2>2, <3>1, <3>2, NoSnapshotType, WriteRewrites
    <3> QED BY <3>3
  <2>5. CASE snap[s].rv # 0 BY <2>1, <2>2, <2>5, NoSnapshotType DEF Write, Quiet
  <2> QED BY <2>4, <2>5
<1>2. CASE \/ NewGroup \/ GroupByProvisioner \/ verifySnapshotStatus \/ AttemptTimeout \/ BySnapshot
           \/ \E s \in Provisioners : WaitForSnapshotToReady(s) \/ ensureVBCWithBackupSourceRef(s)
  BY <1>2 DEF NewGroup, GroupByProvisioner, verifySnapshotStatus, AttemptTimeout, BySnapshot,
              WaitForSnapshotToReady, ensureVBCWithBackupSourceRef, UnchangedByAttempt, ctrlVars, Quiet
<1>3. ASSUME NEW s \in Provisioners, Handler(s) PROVE Goal BY <1>3, HandlerShape
<1>4. ASSUME NEW s \in Provisioners, ExternalFinishes(s) PROVE Goal
  <2>1. UNCHANGED <<cache, w, csi>> /\ s \notin CSIDrivers /\ snap[s].synced
    BY <1>4 DEF ExternalFinishes, ctrlVars
  <2>2. PICK result \in {[ready |-> "true", failed |-> FALSE], [ready |-> "unset", failed |-> TRUE]} :
          snap' = [snap EXCEPT ![s] = [snap[s] EXCEPT !.rv = @ + 1, !.ready = result.ready,
                                                      !.failed = result.failed]]
    BY <1>4 DEF ExternalFinishes
  <2> DEFINE o == [snap[s] EXCEPT !.rv = @ + 1, !.ready = result.ready, !.failed = result.failed]
  <2>3. result.ready \in {"unset", "true", "false"} /\ result.failed \in BOOLEAN
    <3>1. CASE result = [ready |-> "true", failed |-> FALSE] BY <3>1
    <3>2. CASE result = [ready |-> "unset", failed |-> TRUE] BY <3>2
    <3> QED BY <3>1, <3>2
  <2>4. snap[s] \in VolumeSnapshots /\ snap[s].rv \in Nat BY ObjectFields DEF IInv, TypeOK
  <2>5. o \in VolumeSnapshots /\ o.rv = snap[s].rv + 1 /\ o.states = snap[s].states
        /\ o.synced = snap[s].synced
    <3> DEFINE k == snap[s].rv + 1
               a == result.ready
               b == result.failed
    <3>1. o = [snap[s] EXCEPT !.rv = k, !.ready = a, !.failed = b] OBVIOUS
    <3>2. k \in Nat /\ a \in {"unset", "true", "false"} /\ b \in BOOLEAN BY <2>3, <2>4
    <3> HIDE DEF k, a, b, o
    <3>3. o \in VolumeSnapshots /\ o.rv = k /\ o.states = snap[s].states /\ o.synced = snap[s].synced
      BY <2>4, <3>1, <3>2 DEF VolumeSnapshots
    <3> QED BY <3>3 DEF k
  <2>6. snap' = [snap EXCEPT ![s] = o] BY <2>2
  <2> HIDE DEF o
  <2>7. Rewrites(s, o) BY <2>1, <2>5, <2>6, RefersToCreated DEF Rewrites
  <2> QED BY <2>7
<1>5. CASE \/ CSIDriverFinishes
           \/ \E s \in Provisioners : reSync(s)
           \/ \E c \in Classes : processAdd(c) \/ processDelete(c) \/ processUnknown(c) \/ DropClass(c)
  BY <1>5 DEF CSIDriverFinishes, reSync, processAdd, processDelete, processUnknown, DropClass,
              UnchangedByClasses, ctrlVars, Quiet
<1> QED BY <1>1, <1>2, <1>3, <1>4, <1>5 DEF Next, Attempt, Worker, Informers
\* The worker wrote o and goes on at pc, or it returns, and then pays for a write of the
\* server's version.
WorkerWrote(o, pc) ==
    \/ /\ Fresh(w.key, o) /\ snap' = [snap EXCEPT ![w.key] = NextVersion(o)]
       /\ \/ w' = [w EXCEPT !.pc = pc, !.obj = NextVersion(o)]
          \/ w' = Idle /\ faults' = faults + 1
    \/ snap' = snap /\ w' = Idle /\ (Fresh(w.key, o) => faults' = faults + 1)

\* What the two writes of the worker do.
LEMMA WorkerWrites ==
    ASSUME IInv, NEW o \in VolumeSnapshots, NEW pc, w.pc # "idle",
           NEW outcome \in {"ok", "fails", "lost"}, Call(outcome), Write(w.key, o, outcome),
           IF Written(w.key, o, outcome)
           THEN w' = [w EXCEPT !.pc = pc, !.obj = NextVersion(o)] ELSE ReturnErr
    PROVE  WorkerWrote(o, pc)
<1>1. w.key \in Provisioners /\ snap \in [Provisioners -> VolumeSnapshots] BY DEF IInv, TypeOK
<1>2. \/ snap' = snap /\ ~Written(w.key, o, outcome) /\ (Fresh(w.key, o) => outcome # "ok")
      \/ Fresh(w.key, o) /\ outcome # "fails" /\ snap' = [snap EXCEPT ![w.key] = NextVersion(o)]
  BY <1>1, WriteIs
<1>3. outcome # "ok" => faults' = faults + 1 BY DEF Call
<1>4. Written(w.key, o, outcome) <=> outcome = "ok" /\ Fresh(w.key, o) BY DEF Written, Fresh
<1>5. ~Written(w.key, o, outcome) => w' = Idle BY DEF ReturnErr
<1> QED BY <1>2, <1>3, <1>4, <1>5 DEF WorkerWrote

\* The worker writes its copy, with the states or with the annotation.
LEMMA WorkerSteps ==
    ASSUME IInv
    PROVE  /\ SyncStates => /\ w.pc = "states" /\ WorkerWrote(w.obj, "annotate")
                            /\ UNCHANGED <<VolumesOf, cache, h, csi, crashes>>
           /\ AnnotateSynced => /\ w.pc = "annotate"
                                /\ WorkerWrote([w.obj EXCEPT !.synced = TRUE], "support")
                                /\ UNCHANGED <<VolumesOf, cache, h, csi, crashes>>
<1>1. w.obj \in VolumeSnapshots /\ [w.obj EXCEPT !.synced = TRUE] \in VolumeSnapshots
  BY DEF IInv, TypeOK, VolumeSnapshots
<1>2. ASSUME SyncStates
      PROVE  /\ w.pc = "states" /\ WorkerWrote(w.obj, "annotate")
             /\ UNCHANGED <<VolumesOf, cache, h, csi, crashes>>
  <2>1. w.pc = "states" /\ UNCHANGED <<VolumesOf, cache, h, csi, crashes>>
    BY <1>2 DEF SyncStates, bounds
  <2>2. PICK outcome \in {"ok", "fails", "lost"} :
          /\ Call(outcome) /\ Write(w.key, w.obj, outcome)
          /\ IF Written(w.key, w.obj, outcome)
             THEN w' = [w EXCEPT !.pc = "annotate", !.obj = NextVersion(w.obj)] ELSE ReturnErr
    BY <1>2 DEF SyncStates, NextVersion
  <2> QED BY <1>1, <2>1, <2>2, WorkerWrites
<1>3. ASSUME AnnotateSynced
      PROVE  /\ w.pc = "annotate" /\ WorkerWrote([w.obj EXCEPT !.synced = TRUE], "support")
             /\ UNCHANGED <<VolumesOf, cache, h, csi, crashes>>
  <2> DEFINE o == [w.obj EXCEPT !.synced = TRUE]
  <2>1. w.pc = "annotate" /\ UNCHANGED <<VolumesOf, cache, h, csi, crashes>>
    BY <1>3 DEF AnnotateSynced, bounds
  <2>2. PICK outcome \in {"ok", "fails", "lost"} :
          /\ Call(outcome) /\ Write(w.key, o, outcome)
          /\ IF Written(w.key, o, outcome)
             THEN w' = [w EXCEPT !.pc = "support", !.obj = NextVersion(o)] ELSE ReturnErr
    BY <1>3 DEF AnnotateSynced, NextVersion
  <2>3. o \in VolumeSnapshots BY <1>1
  <2> HIDE DEF o
  <2>4. WorkerWrote(o, "support") BY <2>1, <2>2, <2>3, WorkerWrites
  <2> QED BY <2>1, <2>4 DEF o
<1> QED BY <1>2, <1>3

\* The worker took up the copy of s, and appended the volumes to it unless it is synced.
TakesUp(s, new) ==
    /\ Exists(cache[s])
    /\ new \in VolumeSnapshots /\ new.rv = cache[s].rv /\ Same(new, cache[s])
    /\ cache' = [cache EXCEPT ![s] = new]
    /\ w' = [pc |-> IF cache[s].synced THEN "support" ELSE "states", key |-> s, obj |-> new]
    /\ new.states = IF cache[s].synced THEN cache[s].states ELSE WithVolumes(s, cache[s].states)

\* What ProcessQueue does.
LEMMA ProcessQueueIs ==
    ASSUME IInv, NEW s \in Provisioners, ProcessQueue(s)
    PROVE  /\ w.pc = "idle" /\ UNCHANGED <<VolumesOf, snap, h, csi, faults, crashes>>
           /\ UNCHANGED <<w, cache>> \/ \E new : TakesUp(s, new)
<1>1. w.pc = "idle" /\ UNCHANGED <<VolumesOf, snap, h, csi, faults, crashes>>
  BY DEF ProcessQueue
<1>2. cache \in [Provisioners -> VolumeSnapshots] /\ cache[s] \in VolumeSnapshots
      /\ cache[s].states \in Seq(SnapshotStates)
  BY ObjectFields DEF IInv, TypeOK
<1>3. CASE UNCHANGED <<w, cache>> BY <1>1, <1>3
<1>4. CASE /\ Exists(cache[s]) /\ cache[s].synced
           /\ cache' = [cache EXCEPT ![s] = cache[s]]
           /\ w' = [pc |-> "support", key |-> s, obj |-> cache[s]]
  <2>1. TakesUp(s, cache[s]) BY <1>2, <1>4 DEF TakesUp, Same
  <2> QED BY <1>1, <2>1
<1>5. CASE /\ Exists(cache[s]) /\ ~cache[s].synced
           /\ cache' = [cache EXCEPT ![s] = [cache[s] EXCEPT !.states = WithVolumes(s, @)]]
           /\ w' = [pc |-> "states", key |-> s, obj |-> [cache[s] EXCEPT !.states = WithVolumes(s, @)]]
  <2> DEFINE q == WithVolumes(s, cache[s].states)
             new == [cache[s] EXCEPT !.states = q]
  <2>1. q \in Seq(SnapshotStates) BY <1>2, WithVolumesIs DEF IInv, TypeOK, ListsRecorded
  <2>2. cache' = [cache EXCEPT ![s] = new] /\ w' = [pc |-> "states", key |-> s, obj |-> new]
    BY <1>5
  <2> HIDE DEF q
  <2>3. new \in VolumeSnapshots /\ new.rv = cache[s].rv /\ Same(new, cache[s]) /\ new.states = q
    BY <1>2, <2>1 DEF VolumeSnapshots, Same
  <2> HIDE DEF new
  <2>4. TakesUp(s, new) BY <1>5, <2>2, <2>3 DEF TakesUp, q
  <2> QED BY <1>1, <2>4
<1> QED BY <1>1, <1>3, <1>4, <1>5 DEF ProcessQueue
-----------------------------------------------------------------------------
(* The copies *)

\* What the copy of one object and the copy of the worker have to do with the object
CopyAgrees(s) ==
    /\ cache[s].rv <= snap[s].rv
    /\ Fresh(s, cache[s]) => Same(cache[s], snap[s])
    /\ cache[s].synced => snap[s].synced
    /\ ~Exists(snap[s]) => snap[s] = NoSnapshot
WorkerAgrees ==
    /\ w.pc # "idle" => Exists(w.obj) /\ w.obj.rv <= snap[w.key].rv
    /\ w.pc \in {"states", "annotate"} => ~w.obj.synced
    /\ w.pc = "states" /\ Fresh(w.key, w.obj) => Same(w.obj, snap[w.key])
    /\ w.pc = "annotate" /\ Fresh(w.key, w.obj) => w.obj = snap[w.key]
    /\ w.pc = "support" => snap[w.key].synced

\* CopiesAgree consists of these, before a step and after it.
LEMMA CopyParts ==
    /\ CopiesAgree <=> (\A s \in Provisioners : CopyAgrees(s)) /\ WorkerAgrees
    /\ CopiesAgree' <=> (\A s \in Provisioners : CopyAgrees(s)') /\ WorkerAgrees'
BY DEF CopiesAgree, CopyAgrees, WorkerAgrees

\* The copies agree with an object that is rewritten, by whomever: it is new to them.
LEMMA NewVersionAgrees ==
    ASSUME IInv, NEW k \in Provisioners, NEW new \in VolumeSnapshots,
           snap' = [snap EXCEPT ![k] = new], cache' = cache,
           new.rv = snap[k].rv + 1, snap[k].synced => new.synced
    PROVE  /\ \A s \in Provisioners : CopyAgrees(s)'
           /\ w' = w => WorkerAgrees'
<1>1. TypeOK /\ (\A s \in Provisioners : CopyAgrees(s)) /\ WorkerAgrees BY CopyParts DEF IInv
<1>2. /\ snap \in [Provisioners -> VolumeSnapshots] /\ cache \in [Provisioners -> VolumeSnapshots]
      /\ \A s \in Provisioners : snap[s].rv \in Nat /\ cache[s].rv \in Nat
      /\ w.obj \in VolumeSnapshots /\ w.obj.rv \in Nat
  BY <1>1, ObjectFields DEF TypeOK
<1>3. \A s \in Provisioners : snap'[s] = IF s = k THEN new ELSE snap[s] BY <1>2
<1>4. \A s \in Provisioners : CopyAgrees(s)'
  <2> TAKE s \in Provisioners
  <2>1. CASE s = k
    <3>1. snap'[s] = new /\ cache'[s] = cache[s] /\ CopyAgrees(s) BY <1>1, <1>3, <2>1
    <3>2. cache[s].rv <= snap[s].rv /\ (cache[s].synced => snap[s].synced) BY <3>1 DEF CopyAgrees
    <3>3. cache[s].rv < new.rv /\ new.rv > 0 BY <1>2, <2>1, <3>2
    <3>4. cache[s].synced => new.synced BY <2>1, <3>2
    <3>5. cache[s].rv <= new.rv /\ cache[s].rv # new.rv BY <1>2, <2>1, <3>3
    <3> QED BY <3>1, <3>3, <3>4, <3>5 DEF CopyAgrees, Fresh, Exists
  <2>2. CASE s # k
    <3>1. snap'[s] = snap[s] /\ cache'[s] = cache[s] /\ CopyAgrees(s) BY <1>1, <1>3, <2>2
    <3> QED BY <3>1 DEF CopyAgrees, Fresh, Same, Exists
  <2> QED BY <2>1, <2>2
<1>5. ASSUME w' = w PROVE WorkerAgrees'
  <2>1. CASE w.pc = "idle" BY <1>5, <2>1 DEF WorkerAgrees
  <2>2. CASE w.pc # "idle" /\ w.key # k
    <3>1. w.key \in Provisioners BY <1>1, <2>2 DEF TypeOK
    <3>2. snap'[w.key] = snap[w.key] BY <1>3, <2>2, <3>1
    <3> QED BY <1>1, <1>5, <3>2 DEF WorkerAgrees, Fresh, Same, Exists
  <2>3. CASE w.pc # "idle" /\ w.key = k
    <3>1. snap'[w.key] = new /\ w.obj.rv <= snap[k].rv BY <1>1, <1>3, <2>3 DEF WorkerAgrees
    <3>2. w.obj.rv <= new.rv /\ w.obj.rv # new.rv BY <1>2, <3>1
    <3>3. w.pc = "support" => new.synced BY <1>1, <2>3 DEF WorkerAgrees
    <3> QED BY <1>1, <1>5, <3>1, <3>2, <3>3 DEF WorkerAgrees, Fresh, Exists
  <2> QED BY <2>1, <2>2, <2>3
<1> QED BY <1>4, <1>5

\* The copies agree after every step.
LEMMA CopiesStep ==
    ASSUME IInv, Next
    PROVE  CopiesAgree'
<1>1. TypeOK /\ (\A s \in Provisioners : CopyAgrees(s)) /\ WorkerAgrees BY CopyParts DEF IInv
<1>2. /\ snap \in [Provisioners -> VolumeSnapshots] /\ cache \in [Provisioners -> VolumeSnapshots]
      /\ \A s \in Provisioners : snap[s].rv \in Nat /\ cache[s].rv \in Nat
      /\ w.obj \in VolumeSnapshots /\ w.obj.rv \in Nat /\ (w.pc # "idle" => w.key \in Provisioners)
  BY <1>1, ObjectFields DEF TypeOK
<1>3. ASSUME snap' = snap, cache' = cache PROVE \A s \in Provisioners : CopyAgrees(s)'
  BY <1>1, <1>3 DEF CopyAgrees, Fresh, Same, Exists
<1>4. w' = Idle => WorkerAgrees' BY IdleType DEF WorkerAgrees
<1>5. CASE Quiet
  <2>1. WorkerAgrees' BY <1>1, <1>5 DEF Quiet, WorkerAgrees, Fresh, Same, Exists
  <2> QED BY <1>3, <1>5, <2>1, CopyParts DEF Quiet
<1>6. ASSUME NEW s \in Provisioners, NEW new, Rewrites(s, new) PROVE CopiesAgree'
  BY <1>6, NewVersionAgrees, CopyParts DEF Rewrites
<1>7. ASSUME NEW s \in Provisioners, ProcessQueue(s) PROVE CopiesAgree'
  <2>1. w.pc = "idle" /\ snap' = snap /\ (UNCHANGED <<w, cache>> \/ \E new : TakesUp(s, new))
    BY <1>7, ProcessQueueIs
  <2>2. CASE UNCHANGED <<w, cache>> BY <1>5, <2>1, <2>2 DEF Quiet
  <2>3. ASSUME NEW new, TakesUp(s, new) PROVE CopiesAgree'
    <3>1. /\ new.rv = cache[s].rv /\ Same(new, cache[s]) /\ Exists(cache[s])
          /\ \A t \in Provisioners : cache'[t] = IF t = s THEN new ELSE cache[t]
          /\ w'.key = s /\ w'.obj = new
          /\ w'.pc = IF cache[s].synced THEN "support" ELSE "states"
      BY <1>2, <2>3 DEF TakesUp
    <3>2. CopyAgrees(s) BY <1>1
    <3>3. \A t \in Provisioners : CopyAgrees(t)' BY <1>1, <2>1, <3>1 DEF CopyAgrees, Fresh, Same, Exists
    <3>4. new.rv <= snap[s].rv /\ new.rv > 0 /\ (new.rv = snap[s].rv => Same(new, snap[s]))
          /\ new.synced = cache[s].synced /\ (new.synced => snap[s].synced)
      BY <1>2, <3>1, <3>2 DEF CopyAgrees, Fresh, Same, Exists
    <3>5. WorkerAgrees' BY <2>1, <3>1, <3>4 DEF WorkerAgrees, Fresh, Same, Exists
    <3> QED BY <3>3, <3>5, CopyParts
  <2> QED BY <2>1, <2>2, <2>3
<1>8. ASSUME NEW s \in Provisioners, Inform(s) PROVE CopiesAgree'
  <2>1. cache' = [cache EXCEPT ![s] = snap[s]] /\ UNCHANGED <<snap, w>> BY <1>8 DEF Inform
  <2>2. \A t \in Provisioners : cache'[t] = IF t = s THEN snap[s] ELSE cache[t] BY <1>2, <2>1
  <2>3. \A t \in Provisioners : CopyAgrees(t)'
    BY <1>1, <1>2, <2>1, <2>2 DEF CopyAgrees, Fresh, Same, Exists
  <2>4. WorkerAgrees' BY <1>1, <2>1 DEF WorkerAgrees, Fresh, Same, Exists
  <2> QED BY <2>3, <2>4, CopyParts
<1>9. ASSUME NEW o \in VolumeSnapshots, NEW pc \in {"annotate", "support"}, w.pc # "idle",
             WorkerWrote(o, pc), cache' = cache,
             snap[w.key].synced => o.synced,
             pc = "annotate" => ~o.synced, pc = "support" => o.synced
      PROVE  CopiesAgree'
  <2> DEFINE k == w.key
             new == NextVersion(o)
  <2>1. new \in VolumeSnapshots /\ new.rv = o.rv + 1 /\ new.synced = o.synced /\ new.rv \in Nat /\ new.rv > 0
    BY ObjectFields DEF NextVersion, VolumeSnapshots
  <2>2. CASE snap' = snap /\ w' = Idle BY <1>3, <1>4, <1>9, <2>2, CopyParts
  <2>3. CASE /\ Fresh(k, o) /\ snap' = [snap EXCEPT ![k] = new]
             /\ w' = Idle \/ w' = [w EXCEPT !.pc = pc, !.obj = new]
    <3> HIDE DEF new
    <3>1. k \in Provisioners /\ new.rv = snap[k].rv + 1 BY <1>2, <1>9, <2>1, <2>3 DEF Fresh
    <3>2. \A s \in Provisioners : CopyAgrees(s)' BY <1>9, <2>1, <2>3, <3>1, NewVersionAgrees
    <3>3. snap'[k] = new BY <1>2, <2>3, <3>1
    <3>4. ASSUME w' = [w EXCEPT !.pc = pc, !.obj = new] PROVE WorkerAgrees'
      <4>1. w'.pc = pc /\ w'.obj = new /\ w'.key = k BY <1>1, <3>4 DEF TypeOK
      <4> QED BY <1>9, <2>1, <3>3, <4>1 DEF WorkerAgrees, Fresh, Same, Exists
    <3> QED BY <1>4, <2>3, <3>2, <3>4, CopyParts
  <2> QED BY <1>9, <2>2, <2>3 DEF WorkerWrote
<1>10. CASE SyncStates
  <2>1. w.pc = "states" /\ WorkerWrote(w.obj, "annotate") /\ cache' = cache BY <1>10, WorkerSteps
  <2>2. CASE Fresh(w.key, w.obj)
    <3>1. ~w.obj.synced /\ Same(w.obj, snap[w.key]) BY <1>1, <2>1, <2>2 DEF WorkerAgrees
    <3>2. snap[w.key].synced => w.obj.synced BY <3>1 DEF Same
    <3> QED BY <1>2, <1>9, <2>1, <3>1, <3>2
  <2>3. CASE ~Fresh(w.key, w.obj) BY <1>3, <1>4, <2>1, <2>3, CopyParts DEF WorkerWrote
  <2> QED BY <2>2, <2>3
<1>11. CASE AnnotateSynced
  <2> DEFINE o == [w.obj EXCEPT !.synced = TRUE]
  <2>1. w.pc = "annotate" /\ WorkerWrote(o, "support") /\ cache' = cache BY <1>11, WorkerSteps
  <2>2. o \in VolumeSnapshots /\ o.synced BY <1>2 DEF VolumeSnapshots
  <2> HIDE DEF o
  <2> QED BY <1>9, <2>1, <2>2
<1>12. CASE HandleCSISnapshot
  <2>1. UNCHANGED <<snap, cache>> /\ w' = Idle BY <1>12 DEF HandleCSISnapshot, Return, ReturnErr
  <2> QED BY <1>3, <1>4, <2>1, CopyParts
<1>13. CASE Crash
  <2>1. cache' = snap /\ snap' = snap /\ w' = Idle BY <1>13 DEF Crash
  <2>2. \A s \in Provisioners : CopyAgrees(s)' BY <1>1, <1>2, <2>1 DEF CopyAgrees, Fresh, Same, Exists
  <2> QED BY <1>4, <2>1, <2>2, CopyParts
<1> QED BY <1>5, <1>6, <1>7, <1>8, <1>10, <1>11, <1>12, <1>13, StepShape
-----------------------------------------------------------------------------
(* The lists *)

\* A CSI snapshot stays, and the driver's word that it is finished too.
CSIStays ==
    \A i \in DOMAIN csi :
        i \in DOMAIN csi' /\ csi'[i].pvc = csi[i].pvc /\ (csi[i].ready => csi'[i].ready)

\* Only a goroutine and a driver change the CSI snapshots, and none is lost.
LEMMA CSIStep ==
    ASSUME IInv, Next
    PROVE  CSIStays
<1> DEFINE C == [pvc : PVCs, ready : BOOLEAN]
<1>1. csi \in Seq(C) /\ DOMAIN csi = 1..Len(csi) BY DEF IInv, TypeOK
<1>2. CASE csi' = csi BY <1>2 DEF CSIStays
<1>3. ASSUME NEW s \in Provisioners, CreateCSISnapshot(s) PROVE CSIStays
  <2> DEFINE new == [pvc |-> Head(h[s].todo).pvc, ready |-> FALSE]
  <2>1. csi' = csi \/ csi' = Append(csi, new) BY <1>3 DEF CreateCSISnapshot
  <2> HIDE DEF new, C
  <2>2. \A i \in DOMAIN csi : i \in DOMAIN csi' /\ csi'[i] = csi[i] BY <1>1, <2>1
  <2> QED BY <2>2 DEF CSIStays
<1>4. CASE CSIDriverFinishes
  <2>1. PICK i \in DOMAIN csi : csi' = [csi EXCEPT ![i] = [csi[i] EXCEPT !.ready = TRUE]]
    BY <1>4 DEF CSIDriverFinishes
  <2> HIDE DEF C
  <2>2. csi[i] \in C BY <1>1
  <2>3. [csi[i] EXCEPT !.ready = TRUE].pvc = csi[i].pvc /\ [csi[i] EXCEPT !.ready = TRUE].ready
    BY <2>2 DEF C
  <2>4. \A j \in DOMAIN csi : j \in DOMAIN csi' /\ (j # i => csi'[j] = csi[j]) BY <2>1
  <2>5. csi'[i] = [csi[i] EXCEPT !.ready = TRUE] BY <2>1
  <2> QED BY <2>3, <2>4, <2>5 DEF CSIStays
<1>5. CASE Attempt
  BY <1>2, <1>5 DEF Attempt, NewGroup, GroupByProvisioner, kahuSnapshot, WaitForSnapshotToReady,
     verifySnapshotStatus, AttemptTimeout, BySnapshot, ensureVBCWithBackupSourceRef, UnchangedByAttempt
<1>6. CASE Worker
  BY <1>2, <1>6 DEF Worker, ProcessQueue, SyncStates, AnnotateSynced, HandleCSISnapshot
<1>7. ASSUME NEW s \in Provisioners, Handler(s) PROVE CSIStays
  BY <1>2, <1>3, <1>7 DEF Handler, Handle, NextState, applySnapshot, waitForSnapshotToReady,
     HandlerTimeout, MarkReadyToUse
<1>8. CASE \/ Informers \/ Crash
           \/ \E s \in Provisioners : reSync(s) \/ ExternalFinishes(s)
           \/ \E c \in Classes : DropClass(c)
  BY <1>2, <1>8 DEF Informers, Inform, processAdd, processDelete, processUnknown, DropClass, Crash,
     UnchangedByClasses, reSync, ExternalFinishes
<1> QED BY <1>4, <1>5, <1>6, <1>7, <1>8 DEF Next

\* What the list q will be after the step: recorded, if it refers to what there will be.
RecordedThen(s, q) ==
    /\ Len(q) <= MaxStates
    /\ q = <<>> \/ Covers(s, q)
    /\ \A i \in DOMAIN q :
          q[i].ref # 0 => q[i].ref \in DOMAIN csi' /\ csi'[q[i].ref].pvc = q[i].pvc

\* A list that is recorded stays so.
LEMMA RecordedStays ==
    ASSUME CSIStays, NEW s, NEW q, Recorded(s, q)
    PROVE  RecordedThen(s, q)
BY DEF CSIStays, Recorded, RecordedThen, RefersTo

\* ListsRecorded after the step, in terms of the lists there are then.
LEMMA ListsThen ==
    ASSUME VolumesOf' = VolumesOf,
           \A s \in Provisioners :
              /\ RecordedThen(s, snap'[s].states) /\ RecordedThen(s, cache'[s].states)
              /\ snap'[s].synced => Covers(s, snap'[s].states),
           w'.pc \in {"states", "annotate"} =>
              RecordedThen(w'.key, w'.obj.states) /\ Covers(w'.key, w'.obj.states)
    PROVE  ListsRecorded'
BY DEF ListsRecorded, Recorded, RecordedThen, RefersTo, Covers

\* The lists are as they should be after every step.
LEMMA ListsStep ==
    ASSUME IInv, Next
    PROVE  ListsRecorded'
<1>1. TypeOK /\ ListsRecorded /\ CSIStays /\ VolumesOf' = VolumesOf BY CSIStep, BudgetStep DEF IInv
<1>2. /\ snap \in [Provisioners -> VolumeSnapshots] /\ cache \in [Provisioners -> VolumeSnapshots]
      /\ w.obj \in VolumeSnapshots /\ (w.pc # "idle" => w.key \in Provisioners)
  BY <1>1 DEF TypeOK
<1>3. /\ \A s \in Provisioners :
            /\ Recorded(s, snap[s].states) /\ RecordedThen(s, snap[s].states)
            /\ Recorded(s, cache[s].states) /\ RecordedThen(s, cache[s].states)
            /\ snap[s].synced => Covers(s, snap[s].states)
      /\ w.pc \in {"states", "annotate"} =>
            RecordedThen(w.key, w.obj.states) /\ Covers(w.key, w.obj.states)
  BY <1>1, RecordedStays DEF ListsRecorded
<1>4. CASE Quiet BY <1>1, <1>3, <1>4, ListsThen DEF Quiet
<1>5. ASSUME NEW s \in Provisioners, NEW new, Rewrites(s, new) PROVE ListsRecorded'
  <2>1. \A t \in Provisioners : snap'[t] = IF t = s THEN new ELSE snap[t] BY <1>2, <1>5 DEF Rewrites
  <2>2. /\ UNCHANGED <<cache, w, csi>> /\ new.synced = snap[s].synced
        /\ Len(new.states) = Len(snap[s].states) /\ DOMAIN new.states = DOMAIN snap[s].states
        /\ \A i \in DOMAIN new.states :
              /\ new.states[i].pvc = snap[s].states[i].pvc
              /\ new.states[i].ref # 0 => RefersTo(new.states[i].ref, new.states[i].pvc)
        /\ snap[s].synced \/ new.states = <<>>
    BY <1>5 DEF Rewrites
  <2>3. Covers(s, snap[s].states) => Covers(s, new.states) BY <2>2 DEF Covers
  <2>4. Recorded(s, new.states)
    BY <1>3, <2>2, <2>3 DEF Recorded
  <2>5. RecordedThen(s, new.states) /\ (new.synced => Covers(s, new.states))
    BY <1>1, <1>3, <2>2, <2>3, <2>4, RecordedStays
  <2> QED BY <1>1, <1>3, <2>1, <2>2, <2>5, ListsThen
<1>6. ASSUME NEW s \in Provisioners, ProcessQueue(s) PROVE ListsRecorded'
  <2>1. w.pc = "idle" /\ snap' = snap /\ (UNCHANGED <<w, cache>> \/ \E new : TakesUp(s, new))
    BY <1>6, ProcessQueueIs
  <2>2. CASE UNCHANGED <<w, cache>> BY <1>4, <2>1, <2>2 DEF Quiet
  <2>3. ASSUME NEW new, TakesUp(s, new) PROVE ListsRecorded'
    <3>1. /\ \A t \in Provisioners : cache'[t] = IF t = s THEN new ELSE cache[t]
          /\ w'.key = s /\ w'.obj = new
          /\ w'.pc = IF cache[s].synced THEN "support" ELSE "states"
      BY <1>2, <2>3 DEF TakesUp
    <3>2. cache[s].states \in Seq(SnapshotStates) BY <1>2, ObjectFields
    <3>3. CASE cache[s].synced
      <4>1. new.states = cache[s].states BY <2>3, <3>3 DEF TakesUp
      <4> QED BY <1>1, <1>3, <2>1, <3>1, <3>3, <4>1, ListsThen
    <3>4. CASE ~cache[s].synced
      <4>1. new.states = WithVolumes(s, cache[s].states) BY <2>3, <3>4 DEF TakesUp
      <4>2. Recorded(s, new.states) /\ Covers(s, new.states)
        BY <1>1, <1>3, <3>2, <4>1, WithVolumesIs DEF TypeOK
      <4>3. RecordedThen(s, new.states) BY <1>1, <4>2, RecordedStays
      <4> QED BY <1>1, <1>3, <2>1, <3>1, <3>4, <4>2, <4>3, ListsThen
    <3> QED BY <3>3, <3>4
  <2> QED BY <2>1, <2>2, <2>3
<1>7. ASSUME NEW s \in Provisioners, Inform(s) PROVE ListsRecorded'
  <2>1. cache' = [cache EXCEPT ![s] = snap[s]] /\ UNCHANGED <<snap, w>> BY <1>7 DEF Inform
  <2>2. \A t \in Provisioners : cache'[t] = IF t = s THEN snap[s] ELSE cache[t] BY <1>2, <2>1
  <2> QED BY <1>1, <1>3, <2>1, <2>2, ListsThen
<1>8. w' = Idle => w'.pc \notin {"states", "annotate"} BY IdleType
<1>9. ASSUME NEW o \in VolumeSnapshots, NEW pc, w.pc \in {"states", "annotate"}, WorkerWrote(o, pc),
             cache' = cache, o.states = w.obj.states
      PROVE  ListsRecorded'
  <2> DEFINE k == w.key
             new == NextVersion(o)
  <2>1. new.states = w.obj.states BY <1>9 DEF NextVersion, VolumeSnapshots
  <2>2. CASE snap' = snap /\ w' = Idle BY <1>1, <1>3, <1>8, <1>9, <2>2, ListsThen
  <2>3. CASE /\ snap' = [snap EXCEPT ![k] = new]
             /\ w' = Idle \/ w' = [w EXCEPT !.pc = pc, !.obj = new]
    <3> HIDE DEF new
    <3>1. \A t \in Provisioners : snap'[t] = IF t = k THEN new ELSE snap[t] BY <1>2, <2>3
    <3>2. w' = Idle \/ (w'.key = k /\ w'.obj = new) BY <1>1, <2>3 DEF TypeOK
    <3> QED BY <1>1, <1>3, <1>8, <1>9, <2>1, <3>1, <3>2, ListsThen
  <2> QED BY <1>9, <2>2, <2>3 DEF WorkerWrote
<1>10. CASE SyncStates BY <1>2, <1>9, <1>10, WorkerSteps
<1>11. CASE AnnotateSynced
  <2> DEFINE o == [w.obj EXCEPT !.synced = TRUE]
  <2>1. w.pc = "annotate" /\ WorkerWrote(o, "support") /\ cache' = cache BY <1>11, WorkerSteps
  <2>2. o \in VolumeSnapshots /\ o.states = w.obj.states BY <1>2 DEF VolumeSnapshots
  <2> HIDE DEF o
  <2> QED BY <1>9, <2>1, <2>2
<1>12. CASE HandleCSISnapshot
  <2>1. UNCHANGED <<snap, cache>> /\ w' = Idle BY <1>12 DEF HandleCSISnapshot, Return, ReturnErr
  <2> QED BY <1>1, <1>3, <1>8, <2>1, ListsThen
<1>13. CASE Crash
  <2>1. cache' = snap /\ snap' = snap /\ w' = Idle BY <1>13 DEF Crash
  <2> QED BY <1>1, <1>3, <1>8, <2>1, ListsThen
<1> QED BY <1>4, <1>5, <1>6, <1>7, <1>10, <1>11, <1>12, <1>13, StepShape
-----------------------------------------------------------------------------
(* The goroutines *)

\* What one goroutine knows
Knows(s) ==
    /\ h[s].pc # "none" => snap[s].synced
    /\ h[s].pc \in {"create", "record"} => h[s].todo # <<>>
    /\ h[s].pc = "record" => RefersTo(h[s].ref, Head(h[s].todo).pvc)
    /\ h[s].pc = "mark" /\ h[s].ready = "true" => snap[s].ready = "true" \/ Taken(s)

\* GoroutineKnows before a step and after it
LEMMA KnowsParts ==
    /\ GoroutineKnows <=> \A s \in Provisioners : Knows(s)
    /\ GoroutineKnows' <=> \A s \in Provisioners : Knows(s)'
BY DEF GoroutineKnows, Knows

\* What is taken stays so while the list stays.
LEMMA TakenStays ==
    ASSUME IInv, Next, NEW s \in Provisioners, snap'[s].states = snap[s].states, Taken(s)
    PROVE  Taken(s)'
<1>1. CSIStays /\ VolumesOf' = VolumesOf BY CSIStep, BudgetStep DEF IInv
<1>2. \A i \in DOMAIN snap[s].states :
          snap[s].states[i].ref # 0 => snap[s].states[i].ref \in DOMAIN csi
  BY RefersToCreated DEF RefersTo
<1> SUFFICES ASSUME NEW p \in ToSet(VolumesOf[s])
             PROVE  \E i \in DOMAIN snap[s].states :
                       /\ snap[s].states[i].pvc = p /\ snap[s].states[i].ref # 0
                       /\ csi'[snap[s].states[i].ref].pvc = p /\ csi'[snap[s].states[i].ref].ready
  BY <1>1 DEF Taken
<1>3. PICK i \in DOMAIN snap[s].states :
          /\ snap[s].states[i].pvc = p /\ snap[s].states[i].ref # 0
          /\ csi[snap[s].states[i].ref].pvc = p /\ csi[snap[s].states[i].ref].ready
  BY DEF Taken
<1> QED BY <1>1, <1>2, <1>3 DEF CSIStays

\* A goroutine that does not step knows what it knew, whoever writes its object.
LEMMA KnowsStays ==
    ASSUME IInv, Next, NEW s \in Provisioners, h'[s] = h[s],
           h[s].pc # "none" => /\ snap'[s].synced /\ snap'[s].states = snap[s].states
                               /\ snap[s].ready = "true" => snap'[s].ready = "true"
    PROVE  Knows(s)'
<1>1. Knows(s) /\ CSIStays BY CSIStep, KnowsParts DEF IInv
<1>2. h[s].pc # "none" => snap'[s].synced OBVIOUS
<1>3. h[s].pc = "record" => RefersTo(h[s].ref, Head(h[s].todo).pvc)'
  BY <1>1 DEF Knows, CSIStays, RefersTo
<1>4. h[s].pc = "mark" /\ h[s].ready = "true" => snap'[s].ready = "true" \/ Taken(s)'
  BY <1>1, TakenStays DEF Knows
<1> QED BY <1>1, <1>2, <1>3, <1>4 DEF Knows

\* A goroutine that does not run knows nothing.
LEMMA GoneKnows ==
    ASSUME NEW s, h'[s].pc = "none"
    PROVE  Knows(s)'
BY DEF Knows

\* Ready means taken, when the list names every volume.
LEMMA ReadyIsTakenNow ==
    ASSUME IInv, NEW s \in Provisioners, snap[s].synced, CSIReady(snap[s])
    PROVE  snap[s].ready = "true" \/ Taken(s)
<1>1. CASE snap[s].ready = "true" BY <1>1
<1>2. CASE \A i \in DOMAIN snap[s].states :
              snap[s].states[i].ref # 0 /\ csi[snap[s].states[i].ref].ready
  <2>1. Covers(s, snap[s].states) BY DEF IInv, ListsRecorded
  <2> SUFFICES ASSUME NEW p \in ToSet(VolumesOf[s])
               PROVE  \E i \in DOMAIN snap[s].states :
                         /\ snap[s].states[i].pvc = p /\ snap[s].states[i].ref # 0
                         /\ csi[snap[s].states[i].ref].pvc = p /\ csi[snap[s].states[i].ref].ready
    BY DEF Taken
  <2>2. PICK i \in DOMAIN snap[s].states : snap[s].states[i].pvc = p BY <2>1 DEF Covers
  <2>3. RefersTo(snap[s].states[i].ref, snap[s].states[i].pvc) BY <1>2, RefersToCreated
  <2> QED BY <1>2, <2>2, <2>3 DEF RefersTo
<1> QED BY <1>1, <1>2 DEF CSIReady

\* The three ways a goroutine goes on
LEMMA GoroutineIs ==
    ASSUME h \in [Provisioners -> Goroutines], NEW s \in Provisioners
    PROVE  /\ HandlerEnds(s) => h'[s].pc = "none"
           /\ \A q : GoOn(s, q) => /\ h'[s].pc \in {"wait", "create"} /\ h'[s].todo = q
                                   /\ h'[s].pc = "create" => q # <<>>
           /\ \A ready : Verdict(s, ready) => h'[s].pc = "mark" /\ h'[s].ready = ready
           /\ (HandlerEnds(s) \/ (\E q : GoOn(s, q)) \/ (\E ready : Verdict(s, ready)))
                 => \A t \in Provisioners : t # s => h'[t] = h[t]
<1>1. h[s] \in Goroutines OBVIOUS
<1>2. HandlerEnds(s) => h'[s].pc = "none" /\ \A t \in Provisioners : t # s => h'[t] = h[t]
  BY IdleType DEF HandlerEnds
<1>3. ASSUME NEW q, GoOn(s, q)
      PROVE  /\ h'[s].pc \in {"wait", "create"} /\ h'[s].todo = q
             /\ h'[s].pc = "create" => q # <<>>
             /\ \A t \in Provisioners : t # s => h'[t] = h[t]
  BY <1>1, <1>3 DEF GoOn, Goroutines
<1>4. ASSUME NEW ready, Verdict(s, ready)
      PROVE  /\ h'[s].pc = "mark" /\ h'[s].ready = ready
             /\ \A t \in Provisioners : t # s => h'[t] = h[t]
  BY <1>1, <1>4 DEF Verdict, Goroutines
<1> QED BY <1>2, <1>3, <1>4

\* Each goroutine knows after a step of one of them.
LEMMA HandlerKnows ==
    ASSUME IInv, Next, NEW s \in Provisioners, Handler(s)
    PROVE  GoroutineKnows'
<1>1. /\ TypeOK /\ (\A t \in Provisioners : Knows(t)) /\ h \in [Provisioners -> Goroutines]
      /\ h[s] \in Goroutines /\ h[s].todo \in Seq(SnapshotStates)
      /\ snap \in [Provisioners -> VolumeSnapshots]
  BY KnowsParts DEF IInv, TypeOK, Goroutines
<1>2. /\ \A t \in Provisioners : t # s => snap'[t] = snap[t]
      /\ snap[s].synced => snap'[s].synced
  BY <1>1, HandlerShape DEF Quiet, Rewrites
<1>3. h[s].pc # "none"
  BY DEF Handler, Handle, NextState, CreateCSISnapshot, applySnapshot, waitForSnapshotToReady,
         HandlerTimeout, MarkReadyToUse
<1>4. snap[s].synced /\ snap'[s].synced BY <1>1, <1>2, <1>3 DEF Knows
<1>5. ASSUME \A t \in Provisioners : t # s => h'[t] = h[t], Knows(s)' PROVE GoroutineKnows'
  <2>1. \A t \in Provisioners : t # s => Knows(t)'
    <3> SUFFICES ASSUME NEW t \in Provisioners, t # s PROVE Knows(t)' OBVIOUS
    <3>1. Knows(t) /\ h'[t] = h[t] /\ snap'[t] = snap[t] BY <1>1, <1>2, <1>5
    <3> QED BY <3>1, KnowsStays DEF Knows
  <2> QED BY <1>5, <2>1, KnowsParts
<1>6. ASSUME HandlerEnds(s) PROVE GoroutineKnows' BY <1>1, <1>5, <1>6, GoroutineIs, GoneKnows
<1>7. ASSUME NEW q \in Seq(SnapshotStates), GoOn(s, q) PROVE GoroutineKnows'
  <2>1. /\ h'[s].pc \in {"wait", "create"} /\ h'[s].todo = q /\ (h'[s].pc = "create" => q # <<>>)
        /\ \A t \in Provisioners : t # s => h'[t] = h[t]
    BY <1>1, <1>7, GoroutineIs
  <2>2. Knows(s)' BY <1>4, <2>1 DEF Knows
  <2> QED BY <1>5, <2>1, <2>2
<1>8. ASSUME NEW ready, Verdict(s, ready), ready = "true" => snap'[s].ready = "true" \/ Taken(s)'
      PROVE  GoroutineKnows'
  <2>1. /\ h'[s].pc = "mark" /\ h'[s].ready = ready
        /\ \A t \in Provisioners : t # s => h'[t] = h[t]
    BY <1>1, <1>8, GoroutineIs
  <2>2. Knows(s)' BY <1>4, <1>8, <2>1 DEF Knows
  <2> QED BY <1>5, <2>1, <2>2
<1>9. h[s].todo # <<>> => Tail(h[s].todo) \in Seq(SnapshotStates) BY <1>1
<1>10. CASE Handle(s) BY <1>1, <1>6, <1>7, <1>10 DEF Handle
<1>11. CASE NextState(s)
  <2>1. h[s].todo # <<>> BY <1>1, <1>11 DEF NextState, Knows
  <2> QED BY <1>7, <1>9, <1>11, <2>1 DEF NextState
<1>12. CASE CreateCSISnapshot(s)
  <2>1. CASE HandlerEnds(s) BY <1>6, <2>1
  <2>2. CASE ~HandlerEnds(s)
    <3> DEFINE new == [pvc |-> Head(h[s].todo).pvc, ready |-> FALSE]
               C == [pvc : PVCs, ready : BOOLEAN]
    <3>1. h[s].todo # <<>> /\ h[s].pc = "create" BY <1>1, <1>12 DEF CreateCSISnapshot, Knows
    <3>2. csi' = Append(csi, new) /\ h' = [h EXCEPT ![s].pc = "record", ![s].ref = Len(csi) + 1]
      BY <1>12, <2>2 DEF CreateCSISnapshot
    <3>3. h'[s].pc = "record" /\ h'[s].ref = Len(csi) + 1 /\ h'[s].todo = h[s].todo
          /\ \A t \in Provisioners : t # s => h'[t] = h[t]
      BY <1>1, <3>2 DEF Goroutines
    <3>4. csi \in Seq(C) BY <1>1 DEF TypeOK
    <3>5. new.pvc = Head(h[s].todo).pvc OBVIOUS
    <3> HIDE DEF new, C
    <3>6. Len(csi) + 1 \in DOMAIN csi' /\ csi'[Len(csi) + 1] = new BY <3>2, <3>4
    <3>7. Knows(s)' BY <1>4, <3>1, <3>3, <3>5, <3>6 DEF Knows, RefersTo
    <3> QED BY <1>5, <3>3, <3>7
  <2> QED BY <2>1, <2>2
<1>13. CASE applySnapshot(s)
  <2>1. h[s].todo # <<>> BY <1>1, <1>13 DEF applySnapshot, Knows
  <2>2. HandlerEnds(s) \/ GoOn(s, Tail(h[s].todo)) BY <1>13 DEF applySnapshot
  <2> QED BY <1>6, <1>7, <1>9, <2>1, <2>2
<1>14. CASE waitForSnapshotToReady(s)
  <2>1. snap' = snap /\ (Verdict(s, "false") \/ (CSIReady(snap[s]) /\ Verdict(s, "true")))
    BY <1>14 DEF waitForSnapshotToReady
  <2>2. CASE Verdict(s, "false") BY <1>8, <2>2
  <2>3. CASE CSIReady(snap[s]) /\ Verdict(s, "true")
    <3>1. snap[s].ready = "true" \/ Taken(s) BY <1>4, <2>3, ReadyIsTakenNow
    <3>2. snap'[s].ready = "true" \/ Taken(s)' BY <2>1, <3>1, TakenStays
    <3> QED BY <1>8, <2>3, <3>2
  <2> QED BY <2>1, <2>2, <2>3
<1>15. CASE HandlerTimeout(s) BY <1>8, <1>15 DEF HandlerTimeout
<1>16. CASE MarkReadyToUse(s) BY <1>6, <1>16 DEF MarkReadyToUse
<1> QED BY <1>10, <1>11, <1>12, <1>13, <1>14, <1>15, <1>16 DEF Handler
\* Each goroutine knows after every step.
LEMMA KnowsStep ==
    ASSUME IInv, Next
    PROVE  GoroutineKnows'
<1>1. /\ TypeOK /\ (\A t \in Provisioners : Knows(t)) /\ WorkerAgrees
      /\ h \in [Provisioners -> Goroutines] /\ snap \in [Provisioners -> VolumeSnapshots]
      /\ w.obj \in VolumeSnapshots /\ (w.pc # "idle" => w.key \in Provisioners)
  BY KnowsParts, CopyParts DEF IInv, TypeOK
<1>2. ASSUME snap' = snap, h' = h PROVE GoroutineKnows'
  <2> SUFFICES ASSUME NEW t \in Provisioners PROVE Knows(t)' BY KnowsParts
  <2>1. Knows(t) /\ h'[t] = h[t] /\ snap'[t] = snap[t] BY <1>1, <1>2
  <2> QED BY <2>1, KnowsStays DEF Knows
<1>3. ASSUME NEW k \in Provisioners, h[k].pc = "none", h' = h,
             \A t \in Provisioners : t # k => snap'[t] = snap[t]
      PROVE  GoroutineKnows'
  <2> SUFFICES ASSUME NEW t \in Provisioners PROVE Knows(t)' BY KnowsParts
  <2>1. CASE t = k BY <1>3, <2>1, GoneKnows
  <2>2. CASE t # k
    <3>1. Knows(t) /\ h'[t] = h[t] /\ snap'[t] = snap[t] BY <1>1, <1>3, <2>2
    <3> QED BY <3>1, KnowsStays DEF Knows
  <2> QED BY <2>1, <2>2
<1>4. ASSUME NEW s \in Provisioners, kahuSnapshot(s) PROVE GoroutineKnows'
  <2>1. h' = h BY <1>4 DEF kahuSnapshot, UnchangedByAttempt
  <2>2. PICK outcome : Write(s, NoSnapshot, outcome) BY <1>4 DEF kahuSnapshot
  <2>3. CASE snap' = snap BY <1>2, <2>1, <2>3
  <2>4. CASE snap[s].rv = 0 /\ \A t \in Provisioners : t # s => snap'[t] = snap[t]
    <3>1. snap[s] = NoSnapshot BY <2>4, CopyParts DEF IInv, CopyAgrees, Exists
    <3>2. h[s].pc = "none" BY <1>1, <3>1, NoSnapshotType DEF Knows
    <3> QED BY <1>3, <2>1, <2>4, <3>2
  <2> QED BY <1>1, <2>2, <2>3, <2>4, NoSnapshotType DEF Write
<1>5. CASE \/ NewGroup \/ GroupByProvisioner \/ verifySnapshotStatus \/ AttemptTimeout \/ BySnapshot
           \/ \E s \in Provisioners : WaitForSnapshotToReady(s) \/ ensureVBCWithBackupSourceRef(s)
  <2>1. snap' = snap /\ h' = h
    BY <1>5 DEF NewGroup, GroupByProvisioner, verifySnapshotStatus, AttemptTimeout, BySnapshot,
                WaitForSnapshotToReady, ensureVBCWithBackupSourceRef, UnchangedByAttempt
  <2> QED BY <1>2, <2>1
<1>6. ASSUME NEW s \in Provisioners, ExternalFinishes(s) PROVE GoroutineKnows'
  <2>1. h' = h /\ snap[s].ready = "unset" BY <1>6 DEF ExternalFinishes, snapshotHandled
  <2>2. PICK result \in {[ready |-> "true", failed |-> FALSE], [ready |-> "unset", failed |-> TRUE]} :
          snap' = [snap EXCEPT ![s] = [snap[s] EXCEPT !.rv = @ + 1, !.ready = result.ready,
                                                      !.failed = result.failed]]
    BY <1>6 DEF ExternalFinishes
  <2> DEFINE k == snap[s].rv + 1
             a == result.ready
             b == result.failed
             o == [snap[s] EXCEPT !.rv = k, !.ready = a, !.failed = b]
  <2>3. snap' = [snap EXCEPT ![s] = o] BY <2>2
  <2> HIDE DEF k, a, b
  <2>4. snap[s] \in VolumeSnapshots BY <1>1
  <2>5. o.states = snap[s].states /\ o.synced = snap[s].synced BY <2>4 DEF VolumeSnapshots
  <2> HIDE DEF o
  <2>6. \A t \in Provisioners : snap'[t] = IF t = s THEN o ELSE snap[t] BY <1>1, <2>3
  <2> SUFFICES ASSUME NEW t \in Provisioners PROVE Knows(t)' BY KnowsParts
  <2>7. Knows(t) /\ h'[t] = h[t] BY <1>1, <2>1
  <2>8. CASE t # s BY <2>6, <2>7, <2>8, KnowsStays DEF Knows
  <2>9. CASE t = s BY <2>1, <2>5, <2>6, <2>7, <2>9, KnowsStays DEF Knows
  <2> QED BY <2>8, <2>9
<1>7. CASE \/ CSIDriverFinishes
           \/ \E s \in Provisioners : reSync(s) \/ Inform(s) \/ ProcessQueue(s)
           \/ \E c \in Classes : processAdd(c) \/ processDelete(c) \/ processUnknown(c) \/ DropClass(c)
  <2>1. snap' = snap /\ h' = h
    BY <1>7 DEF CSIDriverFinishes, reSync, Inform, ProcessQueue, processAdd, processDelete,
                processUnknown, DropClass, UnchangedByClasses
  <2> QED BY <1>2, <2>1
<1>8. ASSUME NEW o, NEW pc, w.pc \in {"states", "annotate"}, WorkerWrote(o, pc), h' = h,
             Fresh(w.key, o) => ~snap[w.key].synced
      PROVE  GoroutineKnows'
  <2>1. CASE snap' = snap BY <1>2, <1>8, <2>1
  <2>2. CASE Fresh(w.key, o) /\ snap' = [snap EXCEPT ![w.key] = NextVersion(o)]
    <3>1. w.key \in Provisioners /\ h[w.key].pc = "none" BY <1>1, <1>8, <2>2 DEF Knows
    <3>2. \A t \in Provisioners : t # w.key => snap'[t] = snap[t] BY <1>1, <2>2
    <3> QED BY <1>3, <1>8, <3>1, <3>2
  <2> QED BY <1>8, <2>1, <2>2 DEF WorkerWrote
<1>9. CASE SyncStates
  <2>1. w.pc = "states" /\ WorkerWrote(w.obj, "annotate") /\ h' = h BY <1>9, WorkerSteps
  <2>2. Fresh(w.key, w.obj) => ~snap[w.key].synced BY <1>1, <2>1 DEF WorkerAgrees, Same
  <2> QED BY <1>8, <2>1, <2>2
<1>10. CASE AnnotateSynced
  <2> DEFINE o == [w.obj EXCEPT !.synced = TRUE]
  <2>1. w.pc = "annotate" /\ WorkerWrote(o, "support") /\ h' = h BY <1>10, WorkerSteps
  <2>2. o.rv = w.obj.rv BY <1>1 DEF VolumeSnapshots
  <2>3. Fresh(w.key, o) => ~snap[w.key].synced BY <1>1, <2>1, <2>2 DEF WorkerAgrees, Fresh
  <2> HIDE DEF o
  <2> QED BY <1>8, <2>1, <2>3
<1>11. CASE HandleCSISnapshot
  <2>1. snap' = snap /\ w.pc = "support" /\ w.key \in Provisioners
    BY <1>1, <1>11 DEF HandleCSISnapshot
  <2>2. CASE h' = h BY <1>2, <2>1, <2>2
  <2>3. CASE h' = [h EXCEPT ![w.key] = [Gone EXCEPT !.pc = "class", !.todo = w.obj.states]]
    <3>0. PICK k \in Provisioners : k = w.key BY <2>1
    <3>1. h'[k].pc = "class" /\ \A t \in Provisioners : t # k => h'[t] = h[t]
      BY <1>1, <2>1, <2>3, <3>0, IdleType DEF Gone
    <3>2. Knows(k)' BY <1>1, <2>1, <3>0, <3>1 DEF Knows, WorkerAgrees
    <3>3. ASSUME NEW t \in Provisioners, t # k PROVE Knows(t)'
      <4>1. Knows(t) /\ h'[t] = h[t] /\ snap'[t] = snap[t] BY <1>1, <2>1, <3>1, <3>3
      <4> QED BY <4>1, KnowsStays DEF Knows
    <3> QED BY <3>2, <3>3, KnowsParts
  <2> QED BY <1>11, <2>2, <2>3 DEF HandleCSISnapshot
<1>12. CASE Crash
  <2>1. \A t \in Provisioners : h'[t].pc = "none" BY <1>12, IdleType DEF Crash
  <2> QED BY <2>1, GoneKnows, KnowsParts
<1>13. ASSUME NEW s \in Provisioners, Handler(s) PROVE GoroutineKnows' BY <1>13, HandlerKnows
<1> QED BY <1>4, <1>5, <1>6, <1>7, <1>9, <1>10, <1>11, <1>12, <1>13 DEF Next, Attempt, Worker, Informers

-----------------------------------------------------------------------------
(* The lengths of the lists *)

\* Twice the volumes are the volumes once more.
LEMMA PaidOnceMore ==
    ASSUME VolumesOf \in Backups, NEW s \in Provisioners, NEW k \in Nat
    PROVE  /\ Paid(s, k) \in Nat /\ Paid(s, k + 1) = Paid(s, k) + Len(VolumesOf[s])
           /\ \A m \in Nat : k <= m => Paid(s, k) <= Paid(s, m)
<1> DEFINE n == Len(VolumesOf[s])
<1>1. n \in Nat BY VolumesAre
<1> HIDE DEF n
<1>2. n * k \in Nat /\ n * (k + 1) = n * k + n BY <1>1
<1>3. \A m \in Nat : k <= m => n * k <= n * m BY <1>1
<1> QED BY <1>2, <1>3 DEF Paid, n
\* What one object has to be paid for
PaidFor(s) ==
    /\ Len(snap[s].states) <= Paid(s, 1 + faults + crashes)
    /\ ~snap[s].synced /\ ~InHand(s) => Len(snap[s].states) <= Paid(s, faults + crashes)
    /\ Fresh(s, cache[s]) /\ ~cache[s].synced =>
          /\ Len(cache[s].states) <= Paid(s, 1 + faults + crashes)
          /\ ~InHand(s) /\ ~Appending(s) => Len(cache[s].states) <= Paid(s, faults + crashes)
    /\ Appending(s) => Len(w.obj.states) <= Paid(s, 1 + faults + crashes)

\* ListsPaidFor before a step and after it
LEMMA PaidParts ==
    /\ ListsPaidFor <=> \A s \in Provisioners : PaidFor(s)
    /\ ListsPaidFor' <=> \A s \in Provisioners : PaidFor(s)'
BY DEF ListsPaidFor, PaidFor

\* A sum of two counters rises with them.
LEMMA SumRises ==
    ASSUME NEW f \in Nat, NEW c \in Nat, NEW g \in Nat, NEW d \in Nat, f <= g, c <= d
    PROVE  /\ f + c \in Nat /\ g + d \in Nat /\ f + c <= g + d
           /\ g = f + 1 => f + c + 1 <= g + d
           /\ d = c + 1 => f + c + 1 <= g + d
OBVIOUS

\* A list within what was paid is, with n more, within what is paid once more.
LEMMA OneMorePaid ==
    ASSUME NEW x \in Nat, NEW y \in Nat, NEW n \in Nat, NEW a \in Nat, NEW b \in Nat, NEW c \in Nat,
           x <= y + n, y <= a, b = a + n, b <= c
    PROVE  x <= c
OBVIOUS

\* What has been paid is not lost, and a failure or a crash pays for one more list.
LEMMA PaidThen ==
    ASSUME IInv, Next, NEW s \in Provisioners
    PROVE  /\ Paid(s, faults + crashes) \in Nat /\ Paid(s, 1 + faults + crashes) \in Nat
           /\ Paid(s, faults + crashes)' \in Nat /\ Paid(s, 1 + faults + crashes)' \in Nat
           /\ Paid(s, 1 + faults + crashes) = Paid(s, faults + crashes) + Len(VolumesOf[s])
           /\ Paid(s, faults + crashes) <= Paid(s, faults + crashes)'
           /\ Paid(s, 1 + faults + crashes) <= Paid(s, 1 + faults + crashes)'
           /\ Paid(s, faults + crashes) <= Paid(s, 1 + faults + crashes)
           /\ faults' = faults + 1 \/ crashes' = crashes + 1 =>
                 Paid(s, 1 + faults + crashes) <= Paid(s, faults + crashes)'
<1>1. /\ VolumesOf \in Backups /\ VolumesOf' = VolumesOf
      /\ faults \in Nat /\ crashes \in Nat /\ faults' \in Nat /\ crashes' \in Nat
      /\ faults <= faults' /\ crashes <= crashes'
  BY BudgetStep DEF IInv, TypeOK
<1> DEFINE a == faults + crashes
           b == faults' + crashes'
<1>2. /\ a \in Nat /\ b \in Nat /\ a <= b /\ a + 1 \in Nat /\ b + 1 \in Nat
      /\ 1 + faults + crashes = a + 1 /\ 1 + faults' + crashes' = b + 1
      /\ a + 1 <= b + 1 /\ a <= a + 1
      /\ faults' = faults + 1 \/ crashes' = crashes + 1 => a + 1 <= b
  <2>1. a \in Nat /\ b \in Nat /\ a <= b BY <1>1, SumRises
  <2>2. 1 + faults + crashes = a + 1 /\ 1 + faults' + crashes' = b + 1 BY <1>1
  <2>3. faults' = faults + 1 => a + 1 <= b BY <1>1, SumRises
  <2>4. crashes' = crashes + 1 => a + 1 <= b BY <1>1, SumRises
  <2> HIDE DEF a, b
  <2> QED BY <2>1, <2>2, <2>3, <2>4
<1>3. /\ Paid(s, faults + crashes)' = Paid(s, b) /\ Paid(s, 1 + faults + crashes)' = Paid(s, b + 1)
      /\ Paid(s, 1 + faults + crashes) = Paid(s, a + 1)
  <2>1. /\ Paid(s, faults + crashes)' = Paid(s, faults' + crashes')
        /\ Paid(s, 1 + faults + crashes)' = Paid(s, 1 + faults' + crashes')
    BY <1>1, Zenon DEF Paid
  <2> QED BY <1>2, <2>1
<1> HIDE DEF a, b
<1>4. /\ Paid(s, a) \in Nat /\ Paid(s, b) \in Nat /\ Paid(s, a + 1) \in Nat /\ Paid(s, b + 1) \in Nat
      /\ Paid(s, a + 1) = Paid(s, a) + Len(VolumesOf[s])
      /\ Paid(s, a) <= Paid(s, b) /\ Paid(s, a + 1) <= Paid(s, b + 1) /\ Paid(s, a) <= Paid(s, a + 1)
      /\ a + 1 <= b => Paid(s, a + 1) <= Paid(s, b)
  BY <1>1, <1>2, PaidOnceMore
<1> QED BY <1>2, <1>3, <1>4 DEF a
\* An object that nothing happens to stays paid for.
LEMMA PaidStays ==
    ASSUME IInv, Next, NEW s \in Provisioners, snap'[s] = snap[s], cache'[s] = cache[s],
           InHand(s) => InHand(s)', Appending(s) <=> Appending(s)',
           Appending(s) => w'.obj = w.obj
    PROVE  PaidFor(s)'
<1>1. PaidFor(s) BY PaidParts DEF IInv
<1>2. /\ snap[s] \in VolumeSnapshots /\ cache[s] \in VolumeSnapshots /\ w.obj \in VolumeSnapshots
      /\ Len(snap[s].states) \in Nat /\ Len(cache[s].states) \in Nat /\ Len(w.obj.states) \in Nat
  BY ObjectFields DEF IInv, TypeOK
<1>3. /\ Paid(s, faults + crashes) \in Nat /\ Paid(s, 1 + faults + crashes) \in Nat
      /\ Paid(s, faults + crashes)' \in Nat /\ Paid(s, 1 + faults + crashes)' \in Nat
      /\ Paid(s, faults + crashes) <= Paid(s, faults + crashes)'
      /\ Paid(s, 1 + faults + crashes) <= Paid(s, 1 + faults + crashes)'
  BY PaidThen
<1>4. Len(snap[s].states) <= Paid(s, 1 + faults + crashes)' BY <1>1, <1>2, <1>3 DEF PaidFor
<1>5. ~snap[s].synced /\ ~InHand(s)' => Len(snap[s].states) <= Paid(s, faults + crashes)'
  BY <1>1, <1>2, <1>3 DEF PaidFor
<1>6. Fresh(s, cache[s]) /\ ~cache[s].synced =>
          /\ Len(cache[s].states) <= Paid(s, 1 + faults + crashes)'
          /\ ~InHand(s)' /\ ~Appending(s)' => Len(cache[s].states) <= Paid(s, faults + crashes)'
  BY <1>1, <1>2, <1>3 DEF PaidFor
<1>7. Appending(s)' => Len(w.obj.states) <= Paid(s, 1 + faults + crashes)'
  BY <1>1, <1>2, <1>3 DEF PaidFor
<1>8. Fresh(s, cache[s])' <=> Fresh(s, cache[s]) BY DEF Fresh
<1> QED BY <1>4, <1>5, <1>6, <1>7, <1>8 DEF PaidFor

\* An object that was written is paid for when its list is: the copies are old.
LEMMA PaidWritten ==
    ASSUME IInv, Next, NEW s \in Provisioners, NEW new \in VolumeSnapshots,
           snap'[s] = new, cache'[s] = cache[s], new.rv = snap[s].rv + 1, ~Appending(s)',
           Len(new.states) <= Paid(s, 1 + faults + crashes),
           ~new.synced /\ ~InHand(s)' => Len(new.states) <= Paid(s, faults + crashes)'
    PROVE  PaidFor(s)'
<1>1. cache[s].rv <= snap[s].rv BY CopyParts DEF IInv, CopyAgrees
<1>2. snap[s].rv \in Nat /\ cache[s].rv \in Nat /\ Len(new.states) \in Nat
  BY ObjectFields DEF IInv, TypeOK
<1>3. ~Fresh(s, cache[s])' BY <1>1, <1>2 DEF Fresh
<1>4. Len(new.states) <= Paid(s, 1 + faults + crashes)' BY <1>2, PaidThen
<1> QED BY <1>3, <1>4 DEF PaidFor

\* Every list is paid for after every step.
LEMMA PaidStep ==
    ASSUME IInv, Next
    PROVE  ListsPaidFor'
<1>1. /\ TypeOK /\ (\A s \in Provisioners : PaidFor(s)) /\ WorkerAgrees
      /\ \A s \in Provisioners : CopyAgrees(s)
  BY PaidParts, CopyParts DEF IInv
<1>2. /\ snap \in [Provisioners -> VolumeSnapshots] /\ cache \in [Provisioners -> VolumeSnapshots]
      /\ \A s \in Provisioners : snap[s].rv \in Nat /\ cache[s].rv \in Nat
                                /\ Len(snap[s].states) \in Nat /\ Len(cache[s].states) \in Nat
      /\ w.obj \in VolumeSnapshots /\ w.obj.rv \in Nat /\ (w.pc # "idle" => w.key \in Provisioners)
  BY <1>1, ObjectFields DEF TypeOK
<1>3. w' = Idle => \A s : ~InHand(s)' /\ ~Appending(s)' BY IdleType DEF InHand, Appending
<1>4. CASE Quiet
  <2> SUFFICES ASSUME NEW s \in Provisioners PROVE PaidFor(s)' BY PaidParts
  <2>1. /\ snap'[s] = snap[s] /\ cache'[s] = cache[s] /\ w'.obj = w.obj
        /\ InHand(s)' <=> InHand(s)
        /\ Appending(s)' <=> Appending(s)
    BY <1>4 DEF Quiet, InHand, Appending, Fresh
  <2> QED BY <2>1, PaidStays
<1>5. ASSUME NEW k \in Provisioners, NEW new, Rewrites(k, new) PROVE ListsPaidFor'
  <2> SUFFICES ASSUME NEW s \in Provisioners PROVE PaidFor(s)' BY PaidParts
  <2>1. snap'[s] = IF s = k THEN new ELSE snap[s] BY <1>2, <1>5 DEF Rewrites
  <2>2. CASE s # k
    <3>1. /\ snap'[s] = snap[s] /\ cache'[s] = cache[s] /\ w'.obj = w.obj
          /\ InHand(s)' <=> InHand(s)
          /\ Appending(s)' <=> Appending(s)
      BY <1>5, <2>1, <2>2 DEF Rewrites, InHand, Appending, Fresh
    <3> QED BY <3>1, PaidStays
  <2>3. CASE s = k
    <3>1. /\ snap'[s] = new /\ new.rv = snap[s].rv + 1 /\ w' = w /\ cache' = cache
          /\ new \in VolumeSnapshots /\ Len(new.states) = Len(snap[s].states)
          /\ new.synced = snap[s].synced
          /\ snap[s].synced \/ (snap[s] = NoSnapshot /\ new.states = <<>>)
      BY <1>5, <2>1, <2>3 DEF Rewrites
    <3>2. ~Appending(s)' BY <1>1, <1>2, <3>1 DEF Appending, Fresh, WorkerAgrees
    <3>3. Len(new.states) <= Paid(s, 1 + faults + crashes) BY <1>1, <3>1 DEF PaidFor
    <3>4. ~new.synced => Len(new.states) = 0 /\ Len(new.states) <= Paid(s, faults + crashes)'
      <4>1. ~new.synced => Len(new.states) = 0 BY <3>1
      <4>2. Paid(s, faults + crashes)' \in Nat BY PaidThen
      <4> QED BY <4>1, <4>2
    <3> QED BY <3>1, <3>2, <3>3, <3>4, PaidWritten
  <2> QED BY <2>2, <2>3
<1>6. ASSUME NEW k \in Provisioners, ProcessQueue(k) PROVE ListsPaidFor'
  <2>1. w.pc = "idle" /\ snap' = snap /\ (UNCHANGED <<w, cache>> \/ \E new : TakesUp(k, new))
    BY <1>6, ProcessQueueIs
  <2>2. CASE UNCHANGED <<w, cache>> BY <1>4, <2>1, <2>2 DEF Quiet
  <2>3. ASSUME NEW new, TakesUp(k, new) PROVE ListsPaidFor'
    <3>1. /\ \A t \in Provisioners : cache'[t] = IF t = k THEN new ELSE cache[t]
          /\ w'.key = k /\ w'.obj = new /\ new.rv = cache[k].rv /\ new.synced = cache[k].synced
          /\ w'.pc = IF cache[k].synced THEN "support" ELSE "states"
      BY <1>2, <2>3 DEF TakesUp, Same
    <3> SUFFICES ASSUME NEW s \in Provisioners PROVE PaidFor(s)' BY PaidParts
    <3>2. ~InHand(s) /\ ~InHand(s)' /\ ~Appending(s) BY <2>1, <3>1 DEF InHand, Appending
    <3>3. CASE s # k
      <4>1. ~Appending(s)' BY <3>1, <3>3 DEF Appending
      <4> QED BY <2>1, <3>1, <3>2, <3>3, <4>1, PaidStays
    <3>4. CASE s = k
      <4>1. PaidFor(s) /\ cache[s].states \in Seq(SnapshotStates) BY <1>1, <1>2, ObjectFields
      <4>2. /\ Len(snap'[s].states) <= Paid(s, 1 + faults + crashes)'
            /\ ~snap'[s].synced => Len(snap'[s].states) <= Paid(s, faults + crashes)'
        BY <1>2, <2>1, <3>2, <4>1, PaidThen DEF PaidFor
      <4>3. CASE cache[s].synced
        <5>1. ~Appending(s)' BY <3>1, <3>4, <4>3 DEF Appending
        <5>2. cache'[s].synced BY <3>1, <3>4, <4>3
        <5> QED BY <4>2, <5>1, <5>2 DEF PaidFor
      <4>4. CASE ~cache[s].synced
        <5>1. /\ new.states = WithVolumes(s, cache[s].states) /\ cache'[s] = new
              /\ Fresh(s, new)' <=> Fresh(s, cache[s])
          BY <2>1, <2>3, <3>1, <3>4, <4>4 DEF TakesUp, Fresh
        <5>2. Len(new.states) \in Nat /\ Len(new.states) <= Len(cache[s].states) + Len(VolumesOf[s])
          BY <1>1, <4>1, <5>1, WithVolumesIs DEF IInv, TypeOK, ListsRecorded
        <5>3. Appending(s)' <=> Fresh(s, cache[s])
          BY <3>1, <3>4, <4>4, <2>1 DEF Appending, Fresh
        <5>4. Fresh(s, cache[s]) => Len(cache[s].states) <= Paid(s, faults + crashes)
          BY <3>2, <4>1, <4>4 DEF PaidFor
        <5>5. Fresh(s, cache[s]) => Len(new.states) <= Paid(s, 1 + faults + crashes)'
          <6>1. Len(VolumesOf[s]) \in Nat /\ Len(cache[s].states) \in Nat
            BY <1>1, <1>2, VolumesAre DEF TypeOK
          <6> DEFINE a == Paid(s, faults + crashes)
                     b == Paid(s, 1 + faults + crashes)
                     c == Paid(s, 1 + faults + crashes)'
          <6>2. a \in Nat /\ b \in Nat /\ c \in Nat /\ b = a + Len(VolumesOf[s]) /\ b <= c
            BY PaidThen
          <6>3. Fresh(s, cache[s]) => Len(cache[s].states) <= a BY <5>4
          <6> HIDE DEF a, b, c
          <6>4. Fresh(s, cache[s]) => Len(new.states) <= c BY <5>2, <6>1, <6>2, <6>3, OneMorePaid
          <6> QED BY <6>4 DEF c
        <5>6. Fresh(s, cache[s])' <=> Fresh(s, cache[s]) BY <2>1, <3>1, <3>4 DEF Fresh
        <5> QED BY <3>1, <4>2, <5>1, <5>3, <5>5, <5>6 DEF PaidFor
      <4> QED BY <4>3, <4>4
    <3> QED BY <3>3, <3>4
  <2> QED BY <2>1, <2>2, <2>3
<1>7. ASSUME NEW k \in Provisioners, Inform(k) PROVE ListsPaidFor'
  <2>1. cache' = [cache EXCEPT ![k] = snap[k]] /\ UNCHANGED <<snap, w>> BY <1>7 DEF Inform
  <2>2. \A t \in Provisioners : cache'[t] = IF t = k THEN snap[k] ELSE cache[t] BY <1>2, <2>1
  <2> SUFFICES ASSUME NEW s \in Provisioners PROVE PaidFor(s)' BY PaidParts
  <2>3. /\ snap'[s] = snap[s] /\ w'.obj = w.obj
        /\ InHand(s)' <=> InHand(s)
        /\ Appending(s)' <=> Appending(s)
    BY <2>1 DEF InHand, Appending, Fresh
  <2>4. CASE s # k BY <2>2, <2>3, <2>4, PaidStays
  <2>5. CASE s = k
    <3>1. PaidFor(s) /\ cache'[s] = snap[s] BY <1>1, <2>2, <2>5
    <3>2. /\ Len(snap[s].states) <= Paid(s, 1 + faults + crashes)'
          /\ ~snap[s].synced /\ ~InHand(s) => Len(snap[s].states) <= Paid(s, faults + crashes)'
      BY <1>2, <3>1, PaidThen DEF PaidFor
    <3>3. Appending(s) => Len(w.obj.states) <= Paid(s, 1 + faults + crashes)'
      <4>1. Len(w.obj.states) \in Nat BY <1>2, ObjectFields
      <4> QED BY <3>1, <4>1, PaidThen DEF PaidFor
    <3> QED BY <2>3, <3>1, <3>2, <3>3 DEF PaidFor
  <2> QED BY <2>4, <2>5
<1>8. ASSUME NEW s \in Provisioners, snap'[s] = snap[s], cache'[s] = cache[s], w' = Idle,
             (InHand(s) \/ Appending(s)) => faults' = faults + 1
      PROVE  PaidFor(s)'
  <2>1. PaidFor(s) /\ ~InHand(s)' /\ ~Appending(s)' BY <1>1, <1>3, <1>8
  <2>2. Len(snap[s].states) <= Paid(s, 1 + faults + crashes)' BY <1>2, <2>1, PaidThen DEF PaidFor
  <2>3. ~snap[s].synced => Len(snap[s].states) <= Paid(s, faults + crashes)'
    <3>1. CASE InHand(s) BY <1>2, <1>8, <2>1, <3>1, PaidThen DEF PaidFor
    <3>2. CASE ~InHand(s) BY <1>2, <2>1, <3>2, PaidThen DEF PaidFor
    <3> QED BY <3>1, <3>2
  <2>4. Fresh(s, cache[s]) /\ ~cache[s].synced =>
            /\ Len(cache[s].states) <= Paid(s, 1 + faults + crashes)'
            /\ Len(cache[s].states) <= Paid(s, faults + crashes)'
    <3>1. CASE InHand(s) \/ Appending(s) BY <1>2, <1>8, <2>1, <3>1, PaidThen DEF PaidFor
    <3>2. CASE ~InHand(s) /\ ~Appending(s) BY <1>2, <2>1, <3>2, PaidThen DEF PaidFor
    <3> QED BY <3>1, <3>2
  <2>5. Fresh(s, cache[s])' <=> Fresh(s, cache[s]) BY <1>8 DEF Fresh
  <2> QED BY <1>8, <2>1, <2>2, <2>3, <2>4, <2>5 DEF PaidFor
<1>9. CASE SyncStates
  <2>1. w.pc = "states" /\ WorkerWrote(w.obj, "annotate") /\ UNCHANGED <<cache, crashes>>
    BY <1>9, WorkerSteps
  <2>2. PICK k \in Provisioners : k = w.key BY <1>2, <2>1
  <2> SUFFICES ASSUME NEW s \in Provisioners PROVE PaidFor(s)' BY PaidParts
  <2>3. ~InHand(s) /\ (Appending(s) <=> s = k /\ Fresh(k, w.obj)) BY <2>1, <2>2 DEF InHand, Appending
  <2>4. CASE snap' = snap /\ w' = Idle /\ (Fresh(k, w.obj) => faults' = faults + 1)
    BY <1>8, <2>1, <2>3, <2>4
  <2> DEFINE new == NextVersion(w.obj)
  <2>5. CASE /\ Fresh(k, w.obj) /\ snap' = [snap EXCEPT ![k] = new]
             /\ \/ w' = [w EXCEPT !.pc = "annotate", !.obj = new]
                \/ w' = Idle /\ faults' = faults + 1
    <3>1. new \in VolumeSnapshots /\ new.rv = w.obj.rv + 1 /\ new.states = w.obj.states
      BY <1>2, NextVersionIs
    <3> HIDE DEF new
    <3>2. snap'[s] = IF s = k THEN new ELSE snap[s] BY <1>2, <2>5
    <3>3. \/ w'.pc = "annotate" /\ w'.key = k /\ w'.obj = new
          \/ w' = Idle /\ faults' = faults + 1
      BY <1>1, <2>2, <2>5 DEF TypeOK
    <3>4. ~Appending(s)' BY <1>3, <3>3 DEF Appending
    <3>5. CASE s # k
      <4>1. ~Appending(s) BY <2>3, <3>5
      <4> QED BY <2>1, <2>3, <3>2, <3>4, <3>5, <4>1, PaidStays
    <3>6. CASE s = k
      <4>1. snap'[s] = new /\ new.rv = snap[s].rv + 1 BY <2>5, <3>1, <3>2, <3>6 DEF Fresh
      <4>2. Len(new.states) <= Paid(s, 1 + faults + crashes) BY <1>1, <2>3, <2>5, <3>1, <3>6 DEF PaidFor
      <4>3. InHand(s)' \/ Len(new.states) <= Paid(s, faults + crashes)'
        <5>1. CASE w'.pc = "annotate" /\ w'.key = k /\ w'.obj = new
          BY <3>6, <4>1, <5>1 DEF InHand, Fresh
        <5>2. CASE faults' = faults + 1
          <6>1. Len(new.states) \in Nat BY <3>1, ObjectFields
          <6> QED BY <4>2, <5>2, <6>1, PaidThen
        <5> QED BY <3>3, <5>1, <5>2
      <4> QED BY <2>1, <3>1, <3>4, <4>1, <4>2, <4>3, PaidWritten
    <3> QED BY <3>5, <3>6
  <2> QED BY <2>1, <2>2, <2>4, <2>5 DEF WorkerWrote
<1>10. CASE AnnotateSynced
  <2> DEFINE o == [w.obj EXCEPT !.synced = TRUE]
  <2>1. w.pc = "annotate" /\ WorkerWrote(o, "support") /\ UNCHANGED <<cache, crashes>>
    BY <1>10, WorkerSteps
  <2>2. PICK k \in Provisioners : k = w.key BY <1>2, <2>1
  <2> SUFFICES ASSUME NEW s \in Provisioners PROVE PaidFor(s)' BY PaidParts
  <2>3. /\ o \in VolumeSnapshots /\ o.rv = w.obj.rv /\ o.states = w.obj.states /\ o.synced
    BY <1>2 DEF VolumeSnapshots
  <2> HIDE DEF o
  <2>4. ~Appending(s) /\ (InHand(s) <=> s = k /\ Fresh(k, o)) BY <2>1, <2>2, <2>3 DEF InHand, Appending, Fresh
  <2>5. CASE snap' = snap /\ w' = Idle /\ (Fresh(k, o) => faults' = faults + 1)
    BY <1>8, <2>1, <2>4, <2>5
  <2> DEFINE new == NextVersion(o)
  <2>6. CASE /\ Fresh(k, o) /\ snap' = [snap EXCEPT ![k] = new]
             /\ w' = [w EXCEPT !.pc = "support", !.obj = new] \/ w' = Idle
    <3>1. new \in VolumeSnapshots /\ new.rv = o.rv + 1 /\ new.states = o.states /\ new.synced
      BY <2>3, NextVersionIs
    <3> HIDE DEF new
    <3>2. snap'[s] = IF s = k THEN new ELSE snap[s] BY <1>2, <2>6
    <3>3. w'.pc = "support" \/ w' = Idle BY <1>1, <2>6 DEF TypeOK
    <3>4. ~Appending(s)' BY <1>3, <3>3 DEF Appending
    <3>5. CASE s # k
      <4>1. ~InHand(s) BY <2>4, <3>5
      <4> QED BY <2>1, <2>4, <3>2, <3>4, <3>5, <4>1, PaidStays
    <3>6. CASE s = k
      <4>1. snap'[s] = new /\ new.rv = snap[s].rv + 1 BY <2>6, <3>1, <3>2, <3>6 DEF Fresh
      <4>2. w.obj = snap[s] BY <1>1, <2>1, <2>2, <2>3, <2>6, <3>6 DEF WorkerAgrees, Fresh
      <4>3. Len(new.states) <= Paid(s, 1 + faults + crashes) BY <1>1, <2>3, <3>1, <4>2 DEF PaidFor
      <4> QED BY <2>1, <3>1, <3>4, <4>1, <4>3, PaidWritten
    <3> QED BY <3>5, <3>6
  <2> QED BY <2>1, <2>2, <2>5, <2>6 DEF WorkerWrote
<1>11. CASE HandleCSISnapshot
  <2>1. UNCHANGED <<snap, cache>> /\ w' = Idle /\ w.pc = "support"
    BY <1>11 DEF HandleCSISnapshot, Return, ReturnErr
  <2>2. \A s : ~InHand(s) /\ ~Appending(s) BY <2>1 DEF InHand, Appending
  <2> QED BY <1>8, <2>1, <2>2, PaidParts
<1>12. CASE Crash
  <2>1. cache' = snap /\ snap' = snap /\ w' = Idle /\ crashes' = crashes + 1 BY <1>12 DEF Crash
  <2> SUFFICES ASSUME NEW s \in Provisioners PROVE PaidFor(s)' BY PaidParts
  <2>2. PaidFor(s) /\ ~InHand(s)' /\ ~Appending(s)' BY <1>1, <1>3, <2>1
  <2>3. /\ Len(snap[s].states) <= Paid(s, 1 + faults + crashes)'
        /\ Len(snap[s].states) <= Paid(s, faults + crashes)'
    BY <1>2, <2>1, <2>2, PaidThen DEF PaidFor
  <2> QED BY <2>1, <2>2, <2>3 DEF PaidFor
<1> QED BY <1>4, <1>5, <1>6, <1>7, <1>9, <1>10, <1>11, <1>12, StepShape
-----------------------------------------------------------------------------
(* The theorems *)

\* Nothing is recorded, and nothing runs, at the start.
LEMMA InitIInv == Init => IInv
<1> SUFFICES ASSUME Init PROVE IInv OBVIOUS
<1>1. /\ VolumesOf \in Backups /\ queue = {} /\ csi = <<>> /\ vbcs = {} /\ dropped = {} /\ known = {}
      /\ classes = Classes /\ selected = <<>> /\ faults = 0 /\ late = 0 /\ crashes = 0
      /\ snap = [s \in Provisioners |-> NoSnapshot] /\ cache = snap
      /\ store = [s \in Provisioners |-> 0] /\ w = Idle /\ h = [s \in Provisioners |-> Gone]
      /\ r = [pc |-> "group", todo |-> {}, done |-> {}, cur |-> "unset"]
  BY DEF Init
<1>2. TypeOK
  <2>1. Objects BY <1>1, NoSnapshotType, IdleType DEF Objects
  <2>2. AttemptAndClasses
    <3>1. selected \in [{} -> Classes] /\ {} \in SUBSET CSIDrivers BY <1>1
    <3> QED BY <1>1, <3>1 DEF AttemptAndClasses
  <2>3. IsFiniteSet(dropped) /\ Cardinality(dropped) = 0 BY <1>1, FS_EmptySet
  <2>4. MaxDisturbed \in Nat BY SnapshotAssumption
  <2> QED BY <1>1, <2>1, <2>2, <2>3, <2>4, TypeParts
<1>3. \A s \in Provisioners : snap[s] = NoSnapshot /\ cache[s] = NoSnapshot /\ h[s] = Gone BY <1>1
<1>4. w.pc = "idle" BY <1>1, IdleType
<1>5. CopiesAgree BY <1>3, <1>4, NoSnapshotType DEF CopiesAgree, Fresh, Same, Exists
<1>6. ListsRecorded
  <2>1. Len(<<>>) <= MaxStates BY SnapshotAssumption
  <2>2. \A s \in Provisioners : Recorded(s, <<>>) BY <2>1 DEF Recorded
  <2> QED BY <1>3, <1>4, <2>2, NoSnapshotType DEF ListsRecorded
<1>7. GoroutineKnows BY <1>3, IdleType DEF GoroutineKnows
<1>8. ListsPaidFor
  <2> SUFFICES ASSUME NEW s \in Provisioners PROVE PaidFor(s) BY PaidParts
  <2>1. ~InHand(s) /\ ~Appending(s) BY <1>4 DEF InHand, Appending
  <2>2. Paid(s, faults + crashes) \in Nat /\ Paid(s, 1 + faults + crashes) \in Nat
    <3>1. faults + crashes \in Nat /\ 1 + faults + crashes \in Nat BY <1>1
    <3> QED BY <1>1, <3>1, PaidOnceMore
  <2>3. Len(snap[s].states) = 0 /\ Len(cache[s].states) = 0 BY <1>3, NoSnapshotType
  <2> QED BY <2>1, <2>2, <2>3 DEF PaidFor
<1> QED BY <1>2, <1>5, <1>6, <1>7, <1>8 DEF IInv

\* A step that changes nothing keeps the invariant.
LEMMA StutterIInv ==
    ASSUME IInv, UNCHANGED vars
    PROVE  IInv'
<1>1. TypeOK' BY DEF IInv, TypeOK, vars
<1>2. CopiesAgree' BY DEF IInv, CopiesAgree, Fresh, Same, Exists, vars
<1>3. ListsRecorded' BY DEF IInv, ListsRecorded, Recorded, RefersTo, Covers, vars
<1>4. GoroutineKnows' BY DEF IInv, GoroutineKnows, RefersTo, Taken, vars
<1>5. ListsPaidFor' BY DEF IInv, ListsPaidFor, Paid, InHand, Appending, Fresh, vars
<1> QED BY <1>1, <1>2, <1>3, <1>4, <1>5 DEF IInv

(* The invariant behind the results: the copies agree with the objects up to *)
(* what was appended, the lists name every volume, the goroutines know what  *)
(* they write, and every list is paid for.                                   *)
THEOREM Inductive == Spec => []IInv
<1>1. IInv /\ [Next]_vars => IInv'
  <2> SUFFICES ASSUME IInv, [Next]_vars PROVE IInv' OBVIOUS
  <2>1. CASE Next BY <2>1, TypeStep, CopiesStep, ListsStep, KnowsStep, PaidStep DEF IInv
  <2>2. CASE UNCHANGED vars BY <2>2, StutterIInv
  <2> QED BY <2>1, <2>2
<1> QED BY <1>1, InitIInv, PTL DEF Spec

\* The variables of the snapshots have their types (NewController of the snapshot
\* controller, the handler and the class syncer): in particular every reference is one
\* to a CSI snapshot, and disturbances keep within their bound.
THEOREM TypeCorrect == Spec => []TypeOK
<1>1. IInv => TypeOK BY DEF IInv
<1> QED BY <1>1, Inductive, PTL

(* The volumes are recorded in a VolumeSnapshot once, and once more for each *)
(* failed call and each crash, although syncSnapshotVolumes appends to the   *)
(* informer's own copy before it writes it.                                  *)
THEOREM StatesArePaidFor == Spec => []StatesPaidFor
<1>1. IInv => StatesPaidFor BY DEF IInv, ListsPaidFor, Paid, StatesPaidFor
<1> QED BY <1>1, Inductive, PTL

(* A VolumeSnapshot of a CSI driver becomes ready only when every volume of  *)
(* the backup has a finished CSI snapshot its list refers to: nobody but the *)
(* goroutine makes it ready, which writes what it knew at its last poll.     *)
THEOREM ReadyIsTaken == Spec => ReadyMeansTaken
<1> DEFINE Honest == \A s \in CSIDrivers :
                        snap[s].ready # "true" /\ snap'[s].ready = "true" => Taken(s)
<1>1. ASSUME IInv, Next PROVE Honest
  <2> SUFFICES ASSUME NEW s \in CSIDrivers, snap[s].ready # "true", snap'[s].ready = "true"
               PROVE  Taken(s)
    OBVIOUS
  <2>1. /\ s \in Provisioners /\ WorkerAgrees /\ TypeOK
        /\ snap \in [Provisioners -> VolumeSnapshots]
        /\ w.obj \in VolumeSnapshots /\ (w.pc # "idle" => w.key \in Provisioners)
    BY <1>1, SnapshotAssumption, CopyParts DEF IInv, TypeOK
  <2>2. CASE snap' = snap BY <2>2
  <2>3. ASSUME NEW k \in Provisioners, NEW new, Rewrites(k, new) PROVE Taken(s)
    <3>1. snap'[s] = IF s = k THEN new ELSE snap[s] BY <2>1, <2>3 DEF Rewrites
    <3> QED BY <2>3, <3>1 DEF Rewrites
  <2>4. ASSUME NEW o \in VolumeSnapshots, NEW pc, w.pc # "idle", WorkerWrote(o, pc),
               Fresh(w.key, o) => o.ready = snap[w.key].ready
        PROVE  Taken(s)
    <3>1. Fresh(w.key, o) /\ snap' = [snap EXCEPT ![w.key] = NextVersion(o)]
      BY <2>2, <2>4 DEF WorkerWrote
    <3>2. NextVersion(o).ready = o.ready BY <2>4, NextVersionIs DEF Same
    <3>3. snap'[s].ready = snap[s].ready BY <2>1, <2>4, <3>1, <3>2
    <3> QED BY <3>3
  <2>5. CASE SyncStates
    <3>1. w.pc = "states" /\ WorkerWrote(w.obj, "annotate") BY <1>1, <2>5, WorkerSteps
    <3>2. Fresh(w.key, w.obj) => w.obj.ready = snap[w.key].ready
      BY <2>1, <3>1 DEF WorkerAgrees, Same
    <3> QED BY <2>1, <2>4, <3>1, <3>2
  <2>6. CASE AnnotateSynced
    <3> DEFINE o == [w.obj EXCEPT !.synced = TRUE]
    <3>1. w.pc = "annotate" /\ WorkerWrote(o, "support") BY <1>1, <2>6, WorkerSteps
    <3>2. o \in VolumeSnapshots /\ o.rv = w.obj.rv /\ o.ready = w.obj.ready
      BY <2>1 DEF VolumeSnapshots
    <3>3. Fresh(w.key, o) => o.ready = snap[w.key].ready
      BY <2>1, <3>1, <3>2 DEF WorkerAgrees, Fresh
    <3> HIDE DEF o
    <3> QED BY <2>4, <3>1, <3>2, <3>3
  <2>7. CASE \/ Quiet \/ HandleCSISnapshot \/ Crash
             \/ \E k \in Provisioners : ProcessQueue(k) \/ Inform(k)
    BY <2>2, <2>7 DEF Quiet, HandleCSISnapshot, Crash, ProcessQueue, Inform
  <2> QED BY <1>1, <2>3, <2>5, <2>6, <2>7, StepShape
<1>2. UNCHANGED vars => Honest BY DEF vars
<1>3. IInv /\ [Next]_vars => [Honest]_vars BY <1>1, <1>2
<1>4. ReadyMeansTaken <=> [][Honest]_vars BY DEF ReadyMeansTaken
<1> QED BY <1>3, <1>4, Inductive, PTL DEF Spec


=============================================================================
