------------------------ MODULE VolumeBackupController ------------------------
(***************************************************************************)
(* The volume backup controller of the controller manager.  It names, in   *)
(* the status of a VolumeBackupContent (VBC), the driver that backs up the *)
(* volumes; until then no volume service touches the volumes.              *)
(*                                                                         *)
(* processQueue writes the driver into the object the lister returned,     *)
(* which is the informer's own copy and not a clone, before it calls       *)
(* UpdateStatus with it.                                                   *)
(***************************************************************************)
EXTENDS Integers, Sequences

CONSTANTS
    MaxRetry,      \* defaultMaxRetry of the generic controller
    MaxFaults,     \* bound: failed calls
    MaxCrashes,    \* bound: process crashes
    UserDeletes    \* may the VBC be deleted?

ASSUME ControllerAssumption ==
    /\ UserDeletes \in BOOLEAN
    /\ MaxRetry \in Nat /\ MaxFaults \in Nat /\ MaxCrashes \in Nat

VARIABLES
    api,        \* the VBC in the API server; NoVBC when there is none
    watch,      \* versions not yet delivered to the informer
    cache,      \* the informer's copy
    queued,     \* is the key in the work queue?
    requeues,   \* NumRequeues of the key
    processed,  \* revision kept for the key by the processedBackup store, 0: none
    w,          \* the object passed to UpdateStatus; NoVBC: the worker is idle
    faults,     \* calls that failed so far
    crashes     \* crashes so far

apiVars   == <<api, watch>>
queueVars == <<queued, requeues>>
vars == <<api, watch, cache, queued, requeues, processed, w, faults, crashes>>

\* The phases in the order in which the volume service writes them
Phases == {"unset", "New", "InProgress", "Completed", "Deleting"}
Order(phase) ==
    CASE phase = "unset"      -> 0
      [] phase = "New"        -> 1
      [] phase = "InProgress" -> 2
      [] phase = "Completed"  -> 3
      [] OTHER                -> 4

\* supported: spec.VolumeProvider is a key of volBackupSupport; prov: the status field
\* VolumeBackupProvider is set; fin: the volume service's finalizer.
VBC == [rv: Nat, supported: BOOLEAN, phase: Phases,
        prov: BOOLEAN, fin: BOOLEAN, del: BOOLEAN]
NoVBC == [rv |-> 0, supported |-> FALSE, phase |-> "unset", prov |-> FALSE,
          fin |-> FALSE, del |-> FALSE]

Init ==
    /\ \E known \in BOOLEAN : api = [NoVBC EXCEPT !.rv = 1, !.supported = known]
    /\ watch = <<api>>
    /\ cache = NoVBC
    /\ queued = FALSE /\ requeues = 0 /\ processed = 0
    /\ w = NoVBC
    /\ faults = 0 /\ crashes = 0

-----------------------------------------------------------------------------
(* The controller *)

Commit(b) ==
    IF b = api THEN UNCHANGED apiVars
    ELSE LET new == [b EXCEPT !.rv = api.rv + 1] IN
         api' = new /\ watch' = Append(watch, new)

Remove == api' = NoVBC /\ watch' = Append(watch, NoVBC)

Fault == faults < MaxFaults /\ faults' = faults + 1

Return == w' = NoVBC /\ requeues' = 0

\* Mutant: the retry limit is off by one.
ReturnErrOffByOne(again) ==
    /\ w' = NoVBC
    /\ IF requeues <= MaxRetry
       THEN requeues' = requeues + 1 /\ queued' = TRUE
       ELSE requeues' = 0 /\ queued' = again

\* again: was the key added while the handler ran?
ReturnErr(again) ==
    /\ w' = NoVBC
    /\ IF requeues < MaxRetry
       THEN requeues' = requeues + 1 /\ queued' = TRUE
       ELSE requeues' = 0 /\ queued' = again

needVolumeBackupDriver(b) == ~b.prov

\* Take the key, read the lister, drop an old or deleted object, pick the driver and
\* write it into the informer's copy.
ProcessQueue ==
    /\ w = NoVBC /\ queued
    /\ processed' = IF cache.rv = 0 \/ processed > cache.rv THEN processed ELSE cache.rv
    /\ IF cache.rv = 0 \/ processed > cache.rv \/ cache.del \/ ~needVolumeBackupDriver(cache)
       THEN Return /\ queued' = FALSE /\ UNCHANGED cache
       ELSE IF ~cache.supported THEN ReturnErr(FALSE) /\ UNCHANGED cache
       ELSE /\ cache' = [cache EXCEPT !.prov = TRUE]
            /\ w' = cache'
            /\ queued' = FALSE
            /\ UNCHANGED requeues
    /\ UNCHANGED <<apiVars, faults, crashes>>

\* Mutant: the driver is written whatever the revision.
UpdateStatusUnlocked ==
    /\ w # NoVBC
    /\ LET b == [api EXCEPT !.phase = w.phase, !.prov = w.prov] IN
       \/ /\ api.rv # 0 /\ Commit(b)
          /\ Return /\ UNCHANGED <<queued, faults>>
       \/ /\ \/ api.rv = 0 /\ UNCHANGED <<apiVars, faults>>
             \/ api.rv # 0 /\ Fault /\ (UNCHANGED apiVars \/ Commit(b))
          /\ ReturnErr(queued)
    /\ UNCHANGED <<cache, processed, crashes>>

\* UpdateStatus stores the whole status of w, with the optimistic lock on its rv.
UpdateStatus ==
    /\ w # NoVBC
    /\ LET b == [api EXCEPT !.phase = w.phase, !.prov = w.prov] IN
       \/ /\ api.rv = w.rv /\ Commit(b)
          /\ Return /\ UNCHANGED <<queued, faults>>
       \/ /\ \/ api.rv # w.rv /\ UNCHANGED <<apiVars, faults>>
             \/ api.rv = w.rv /\ Fault /\ (UNCHANGED apiVars \/ Commit(b))
          /\ ReturnErr(queued)
    /\ UNCHANGED <<cache, processed, crashes>>

Informer ==
    /\ watch # <<>>
    /\ cache' = Head(watch)
    /\ watch' = Tail(watch)
    /\ queued' = (queued \/ Head(watch).rv # 0)
    /\ UNCHANGED <<api, requeues, processed, w, faults, crashes>>

\* reSync enqueues every VBC the lister has.
ReSync ==
    /\ cache.rv # 0 /\ ~queued
    /\ queued' = TRUE
    /\ UNCHANGED <<apiVars, cache, requeues, processed, w, faults, crashes>>

-----------------------------------------------------------------------------
(* The volume service, the backup controller, crashes *)

EnvUnchanged == UNCHANGED <<cache, queueVars, processed, w, faults, crashes>>

\* The volume service initialises the VBC, adds its finalizer and, once a driver is
\* named, runs the backup; it lets a deleted VBC go.
ServiceWrites ==
    /\ api.rv # 0
    /\ \/ /\ ~api.del /\ api.phase = "unset"
          /\ Commit([api EXCEPT !.phase = "New"])
       \/ /\ ~api.del /\ api.phase = "New" /\ ~api.fin
          /\ Commit([api EXCEPT !.fin = TRUE])
       \/ /\ ~api.del /\ api.fin /\ api.prov /\ api.phase = "New"
          /\ Commit([api EXCEPT !.phase = "InProgress"])
       \/ /\ ~api.del /\ api.phase = "InProgress"
          /\ Commit([api EXCEPT !.phase = "Completed"])
       \/ /\ api.del /\ api.phase # "Deleting"
          /\ Commit([api EXCEPT !.phase = "Deleting"])
       \/ api.del /\ api.phase = "Deleting" /\ Remove
    /\ EnvUnchanged

DeleteVBC ==
    /\ UserDeletes /\ api.rv # 0 /\ ~api.del
    /\ IF api.fin THEN Commit([api EXCEPT !.del = TRUE]) ELSE Remove
    /\ EnvUnchanged

Crash ==
    /\ crashes < MaxCrashes
    /\ crashes' = crashes + 1
    /\ cache' = api /\ watch' = <<>>
    /\ queued' = (api.rv # 0) /\ requeues' = 0 /\ processed' = 0
    /\ w' = NoVBC
    /\ UNCHANGED <<api, faults>>

Worker == ProcessQueue \/ UpdateStatus

Next == Worker \/ Informer \/ ReSync \/ ServiceWrites \/ DeleteVBC \/ Crash

Spec == Init /\ [][Next]_vars

\* The worker, the watch and the resync loop (every 30 minutes) make progress.
FairSpec == Spec /\ WF_vars(Worker) /\ WF_vars(Informer) /\ WF_vars(ReSync)

-----------------------------------------------------------------------------
(* Properties *)

\* The values the VBC and its copies may take; the key is retried MaxRetry times.
TypeOK ==
    /\ api \in VBC /\ cache \in VBC /\ w \in VBC
    /\ watch \in Seq(VBC)
    /\ queued \in BOOLEAN /\ requeues \in 0..MaxRetry /\ processed \in Nat
    /\ faults \in 0..MaxFaults /\ crashes \in 0..MaxCrashes

\* UpdateStatus replaces the whole status by that of the informer's copy, yet what the
\* volume service has recorded meanwhile is not undone: the phase never goes back.
PhaseNotUndone == api'.rv # 0 => Order(api'.phase) >= Order(api.phase)
PhaseKept == [][PhaseNotUndone]_vars

\* Every VBC of a supported provisioner that is not deleted gets its driver: "enqueue
\* all backup for soft reconciliation" (reSync).
DriverNamed == <>(api.rv = 0 \/ api.del \/ api.prov \/ ~api.supported)

\* The inductive invariant behind PhaseKept: a copy at the server's revision has the
\* server's phase, although its driver may have been written by processQueue.
Copies == {cache} \cup {watch[i] : i \in DOMAIN watch}
Agrees(c) == c.rv <= api.rv /\ (c.rv = api.rv => c.phase = api.phase)
CopiesAgree == api.rv # 0 => \A c \in Copies \cup {w} : Agrees(c)
WorkerHolds == w = NoVBC \/ w.rv # 0
IInv == TypeOK /\ CopiesAgree /\ WorkerHolds

=============================================================================
