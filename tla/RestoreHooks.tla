------------------------------ MODULE RestoreHooks ------------------------------
(***************************************************************************)
(* The resource stage of one restore with its hooks: the worker that       *)
(* applies the resources (controllers/restore/metadatarestore.go), the     *)
(* goroutines that run the hooks of the restored pods when their           *)
(* containers run (hooks/restore_hooks.go), the watcher of every workload, *)
(* and the goroutine that closes the error channel.  RestoreController     *)
(* sees the whole stage as one step with an outcome; this module opens it. *)
(* A goroutine is named by its pod and the resource it was started for: a  *)
(* pod that two restored resources lead to has two.                        *)
(*                                                                         *)
(* hooksErrs is an unbuffered channel: a send is one step of its sender    *)
(* and of the receiving worker.  The informer of a pod delivers every      *)
(* version of it in order, and what it has queued when its context ends is *)
(* still handled (client-go's DeltaFIFO; external).                        *)
(***************************************************************************)
EXTENDS Naturals, Sequences, FiniteSets, SequencesExt, HookSelection

CONSTANTS
    Resources,     \* what is restored, in the order of prioritiseResources
    Existing,      \* pods and workloads that exist before the restore
    ContainersOf,  \* the containers of a pod, in the order of its spec
    Annotated,     \* pods with the restore hook annotations, to their hook
    PhaseAnnotated,\* pods with the post hook annotations, to their hook
    HookLists,     \* the hook lists a restore may have
    Goroutines,    \* the goroutines of hooks: a pod and the place of a resource
    MaxAge,        \* bound: periods a goroutine counts, above every wait timeout
    MaxFaults      \* bound: failed calls of the API server

Hooks == Range(Annotated) \cup UNION {ToSet(l) : l \in HookLists}

ASSUME StageAssumption ==
    /\ Existing \subseteq Pods \cup Workloads
    /\ Resources \in Seq(Range(Resources))
    /\ \A i \in DOMAIN Resources :
          /\ Resources[i].kind = "Pod" => Resources[i].name \in Pods
          /\ Resources[i].kind = "Workload" => Resources[i].name \in Workloads
    /\ DOMAIN ContainersOf = Pods
    /\ DOMAIN Annotated \subseteq Pods /\ DOMAIN PhaseAnnotated \subseteq Pods
    /\ MaxAge \in Nat /\ MaxFaults \in Nat

\* The workloads are those that exist and those that are restored; a pod has containers.
ASSUME ScopeAssumption ==
    /\ Workloads \subseteq Existing \cup {Resources[i].name : i \in
                                {j \in DOMAIN Resources : Resources[j].kind = "Workload"}}
    /\ \A p \in Pods : 1 \in DOMAIN ContainersOf[p]

\* The pods a resource may start hooks of.
PodsOfResource(i) ==
    LET x == Resources[i].name
    IN  CASE Resources[i].kind = "Pod" -> {x}
          [] Resources[i].kind = "Workload" -> PodsWith(Pods, NsOf[x], MatchLabels[x])
          [] OTHER -> {}

ASSUME GoroutineAssumption ==
    Goroutines = {k \in Pods \X DOMAIN Resources : k[1] \in PodsOfResource(k[2])}

\* A hook's id names its place in the specification.
ASSUME HookAssumption ==
    /\ HookLists \subseteq Seq(Hooks)
    /\ \A l \in HookLists : \A i, j \in DOMAIN l : l[i].id = l[j].id => i = j
    /\ \A h \in Hooks : h.fail \in BOOLEAN /\ h.wait \in Nat

VARIABLES
    spec,       \* restore.Spec.Hooks.Resources
    w,          \* the worker: its next call, resource, errors and collected pods
    wg,         \* hooksWaitGroup
    cancelled,  \* is hooksContext cancelled?
    closed,     \* is hooksErrs closed?
    closer,     \* the goroutine that closes it
    watcher,    \* the goroutine of every workload that waits for it
    present,    \* pods and workloads in the cluster
    running,    \* running containers of every pod
    over,       \* pods in phase Succeeded or Failed, or deleted
    events,     \* versions of the pod a goroutine's informer has not handled yet
    g,          \* the hook goroutines
    runs,       \* how often a goroutine executed a hook, at most 2
    succeeded,  \* hooks of pods whose command succeeded
    inits,      \* restored pods to the hooks whose init containers they got
    faults      \* calls that failed so far

vars == <<spec, w, wg, cancelled, closed, closer, watcher, present, running, over, events, g,
          runs, succeeded, inits, faults>>
clusterVars == <<present, running, over, events>>
syncVars    == <<wg, cancelled, closed, closer>>

-----------------------------------------------------------------------------
(* Hooks.  An entry of the list is one hook with the selector of its       *)
(* specification: a specification with several hooks is several entries.   *)
(* A hook names its container, whether its onError is Fail (unset acts as  *)
(* Continue here), its wait timeout, 0 for none, and whether it comes with *)
(* init containers.                                                        *)

Containers == UNION {ToSet(ContainersOf[p]) : p \in Pods}

HookIds == {h.id : h \in Hooks}

\* The container a hook runs in: by default the pod's first.
HookContainer(p, h) == IF h.container = "unset" THEN ContainersOf[p][1] ELSE h.container

\* The hooks a pod's are taken from: a hook of the annotations hides those of the spec.
Candidates(resourceHooks, p) ==
    IF p \in DOMAIN Annotated THEN <<Annotated[p]>> ELSE resourceHooks

\* GroupRestoreExecHooks: the places in the list of the hooks of every container.
GroupRestoreExecHooks(resourceHooks, there, p, lost) ==
    LET list  == Candidates(resourceHooks, p)
        taken == {i \in DOMAIN list :
                    p \in DOMAIN Annotated \/ validateHook(there, list[i], p, lost)}
    IN  [c \in Containers |-> {i \in taken : HookContainer(p, list[i]) = c}]

\* The hooks of containers the pod has.
podHasContainer(p, c) == c \in ToSet(ContainersOf[p])
Discarded(p, by) == [c \in Containers |-> IF podHasContainer(p, c) THEN by[c] ELSE {}]

\* A listing may fail; only those of kinds the cluster has make a difference.
Losses == {{}, {"Pod"}} \cup {{KindOf[x]} : x \in Workloads}

\* The hooks a goroutine waits for, tabulated.
byContainer ==
    [l \in HookLists |-> [there \in SUBSET (Pods \cup Workloads) |->
        [p \in Pods |-> [lost \in Losses |->
            Discarded(p, GroupRestoreExecHooks(l, there, p, lost))]]]]

HooksIn(by) == UNION {by[c] : c \in Containers}

\* The longest wait, if every hook has one; else wait until the shared context ends.
maxHookWait(list, by) ==
    LET waits == {list[i].wait : i \in HooksIn(by)}
    IN  {m \in waits : 0 \notin waits /\ \A x \in waits : x <= m}

\* The command of a hook ends with an error also when it times out.
ExecutePodCommand(p, h) ==
    IF h.container = "unset" \/ podHasContainer(p, h.container) THEN {"ok", "error"} ELSE {"error"}

\* What HandleInitHook adds: the hooks with init containers, chosen before the
\* pod is created.
HandleInitHook(p, lost) ==
    {h.id : h \in {x \in ToSet(spec) : x.init /\ validateHook(present, x, p, lost)}}

getHooksSpecFromAnnotations(p, s) == IF p \in DOMAIN PhaseAnnotated THEN PhaseAnnotated[p] ELSE s

\* Does CommonExecuteHook return an error for this pod of this namespace?
CommonExecuteHook(s, ns, p) ==
    LET h == getHooksSpecFromAnnotations(p, s)
        skipped == p \notin DOMAIN PhaseAnnotated /\ "ok" \notin ExecutePodCommand(p, h)
    IN  IF p \notin present \/ NsOf[p] # ns THEN {"error"}
        ELSE IF skipped \/ ~h.fail THEN {"ok"}
        ELSE ExecutePodCommand(p, h)

-----------------------------------------------------------------------------
(* Initial state *)

NoGoroutine == [pc |-> "none", by |-> [c \in Containers |-> {}], todo |-> {}, cont |-> "unset", idx |-> 0,
                ran |-> {}, errs |-> 0, stop |-> FALSE, age |-> 0, wait |-> {}]

Init ==
    /\ spec \in HookLists
    /\ w = [pc |-> "collect", next |-> 1, failed |-> FALSE, col |-> <<>>, ext |-> <<>>]
    /\ wg = 0 /\ cancelled = FALSE /\ closed = FALSE /\ closer = "none"
    /\ watcher = [x \in Workloads |-> "none"]
    /\ present = Existing
    /\ running = [p \in Pods |-> IF p \in Existing THEN ToSet(ContainersOf[p]) ELSE {}]
    /\ over = {}
    /\ events = [k \in Goroutines |-> <<>>]
    /\ g = [k \in Goroutines |-> NoGoroutine]
    /\ runs = [k \in Goroutines |-> [i \in HookIds |-> 0]]
    /\ succeeded = {}
    /\ inits = <<>>
    /\ faults = 0

-----------------------------------------------------------------------------
(* The worker applies the resources. *)

\* Every order in which UnsortedList may return the namespaces of each spec.
NamespaceOrders ==
    {o \in [DOMAIN spec -> UNION {SetToSeqs(S) : S \in SUBSET Namespaces}] :
        \A i \in DOMAIN spec : ToSet(o[i]) = FilterHookNamespaces(Namespaces, spec[i])}

Fault == faults < MaxFaults /\ faults' = faults + 1

Lose(lost) == faults' = faults + Cardinality(lost) /\ faults' <= MaxFaults

\* An error ends the stage: syncMetadataRestore fails the restore.
StageFails(v) == w' = [v EXCEPT !.pc = "failed", !.col = <<>>, !.ext = <<>>]

collectAllRestoreHooksPods ==
    /\ w.pc = "collect"
    /\ \/ /\ Fault
          /\ StageFails(w)
       \/ \E lost \in Losses, order \in NamespaceOrders :
            /\ Lose(lost)
            /\ w' = [w EXCEPT !.pc = "apply", !.col = [i \in DOMAIN spec |->
                        [n \in DOMAIN order[i] |->
                            GetAllPodsForNamespace(present, order[i][n], spec[i], lost)]]]
    /\ UNCHANGED <<spec, syncVars, watcher, clusterVars, g, runs, succeeded, inits>>

Applying(kinds) ==
    w.pc = "apply" /\ w.next <= Len(Resources) /\ Resources[w.next].kind \in kinds

NextResource == w' = [w EXCEPT !.pc = "apply", !.next = @ + 1]

\* A resource that exists is left as it is, its hooks too, unless the Get fails.
ApplyExisting ==
    /\ Applying({"Pod", "Workload"})
    /\ Resources[w.next].name \in present
    /\ NextResource
    /\ UNCHANGED <<spec, syncVars, watcher, clusterVars, g, runs, succeeded, inits, faults>>

\* Any other kind is created unless it exists.
ApplyOther ==
    /\ Applying({"Other"})
    /\ NextResource
    /\ UNCHANGED <<spec, syncVars, watcher, clusterVars, g, runs, succeeded, inits, faults>>

\* The kind is unknown, the namespace cannot be created, the creation fails:
\* the worker returns and nothing waits for the hooks already started.
ApplyFails ==
    /\ Applying({"Pod", "Workload", "Other"})
    /\ Fault
    /\ StageFails(w)
    /\ UNCHANGED <<spec, syncVars, watcher, clusterVars, g, runs, succeeded, inits>>

\* Mutant: the goroutine is not counted when it is started.
waitExecUncounted(pods, extra) ==
    /\ wg' = wg - extra
    /\ g' = [k \in Goroutines |-> IF k[2] = w.next /\ k[1] \in pods
                                  THEN [NoGoroutine EXCEPT !.pc = "group"] ELSE g[k]]

\* Mutant: a workload's own unit is never given back.
waitExecHeld(pods, extra) ==
    /\ wg' = wg + Cardinality(pods)
    /\ g' = [k \in Goroutines |-> IF k[2] = w.next /\ k[1] \in pods
                                  THEN [NoGoroutine EXCEPT !.pc = "group"] ELSE g[k]]

\* waitExec adds to the wait group before it starts the goroutine.
waitExec(pods, extra) ==
    /\ wg' = (wg + Cardinality(pods)) - extra
    /\ g' = [k \in Goroutines |-> IF k[2] = w.next /\ k[1] \in pods
                                  THEN [NoGoroutine EXCEPT !.pc = "group"] ELSE g[k]]

\* A failed Get counts as absence; the AlreadyExists of the creation is ignored.
applyPodResources ==
    /\ Applying({"Pod"})
    /\ LET p == Resources[w.next].name
       IN  /\ \/ /\ p \notin present
                 /\ \E lost \in Losses :
                      /\ Lose(lost)
                      /\ inits' = [q \in DOMAIN inits \cup {p} |->
                                      IF q = p THEN HandleInitHook(p, lost) ELSE inits[q]]
                 /\ over' = over \ {p}
              \/ p \in present /\ Fault /\ UNCHANGED <<inits, over>>
           /\ present' = present \cup {p}
           /\ waitExec({p}, 0)
    /\ NextResource
    /\ UNCHANGED <<spec, cancelled, closed, closer, watcher, running, events, runs, succeeded>>

\* applyWorkloadResources: the watcher starts before the workload exists.
applyWorkloadResources ==
    /\ Applying({"Workload"})
    /\ LET x == Resources[w.next].name
       IN  /\ (x \notin present /\ UNCHANGED faults) \/ (x \in present /\ Fault)
           /\ watcher' = [watcher EXCEPT ![x] = "started"]
    /\ wg' = wg + 1
    /\ w' = [w EXCEPT !.pc = "create"]
    /\ UNCHANGED <<spec, cancelled, closed, closer, clusterVars, g, runs, succeeded, inits>>

CreateWorkload ==
    /\ w.pc = "create"
    /\ \/ /\ present' = present \cup {Resources[w.next].name}
          /\ w' = [w EXCEPT !.pc = "await"]
          /\ UNCHANGED <<wg, faults>>
       \/ /\ Fault
          /\ StageFails(w)
          /\ wg' = wg - 1
          /\ UNCHANGED present
    /\ UNCHANGED <<spec, cancelled, closed, closer, watcher, running, over, events, g, runs,
                   succeeded, inits>>

PodsOf(x) == PodsWith(present, NsOf[x], MatchLabels[x])
Replicas(x) ==
    IF KindOf[x] = "DaemonSet" THEN 1 ELSE Cardinality(PodsWith(Pods, NsOf[x], MatchLabels[x]))

\* Too few pods are listed once more; what the second listing shows is taken.
applyWorkloadPodResources ==
    /\ w.pc \in {"await", "relist"}
    /\ LET x == Resources[w.next].name
       IN  /\ watcher[x] = "done"
           /\ \/ /\ w.pc = "await" /\ Cardinality(PodsOf(x)) < Replicas(x)
                 /\ w' = [w EXCEPT !.pc = "relist"]
                 /\ UNCHANGED <<wg, g, faults>>
              \/ /\ w.pc = "relist" \/ Cardinality(PodsOf(x)) >= Replicas(x)
                 /\ waitExec(PodsOf(x), 1)
                 /\ NextResource
                 /\ UNCHANGED faults
              \/ /\ Fault
                 /\ StageFails(w)
                 /\ wg' = wg - 1
                 /\ UNCHANGED g
    /\ UNCHANGED <<spec, cancelled, closed, closer, watcher, clusterVars, runs, succeeded, inits>>

\* All resources are applied: the stage becomes PostHook, the closing goroutine
\* starts and the worker receives from hooksErrs.
applyIndexedResource ==
    /\ w.pc = "apply" /\ w.next > Len(Resources)
    /\ w' = [w EXCEPT !.pc = "drain"]
    /\ closer' = "waiting"
    /\ UNCHANGED <<spec, wg, cancelled, closed, watcher, clusterVars, g, runs, succeeded, inits,
                   faults>>

CloseHooksErrs ==
    /\ closer = "waiting" /\ wg = 0
    /\ closer' = "done" /\ closed' = TRUE
    /\ UNCHANGED <<spec, w, wg, cancelled, watcher, clusterVars, g, runs, succeeded, inits, faults>>

\* The pods collected for the n-th namespace are asked for in the n-th namespace
\* of a second listing, which may be another one.
HooksErrsClosed ==
    /\ w.pc = "drain" /\ closed
    /\ IF w.failed THEN StageFails(w)
       ELSE \E order \in NamespaceOrders :
              LET calls(i) == FlattenSeq([n \in DOMAIN order[i] |->
                                 [k \in 1..Cardinality(w.col[i][n]) |->
                                    [spec |-> i, ns |-> order[i][n],
                                     pod |-> SetToSeq(w.col[i][n])[k]]]])
              IN  w' = [w EXCEPT !.pc = "external", !.col = <<>>,
                            !.ext = FlattenSeq([i \in DOMAIN spec |-> calls(i)])]
    /\ UNCHANGED <<spec, syncVars, watcher, clusterVars, g, runs, succeeded, inits, faults>>

ExternalHook ==
    /\ w.pc = "external" /\ w.ext # <<>>
    /\ LET e == Head(w.ext)
       IN  \E result \in CommonExecuteHook(spec[e.spec], e.ns, e.pod) :
              IF result = "ok" THEN w' = [w EXCEPT !.ext = Tail(@)] ELSE StageFails(w)
    /\ UNCHANGED <<spec, syncVars, watcher, clusterVars, g, runs, succeeded, inits, faults>>

StageCompletes ==
    /\ w.pc = "external" /\ w.ext = <<>>
    /\ w' = [w EXCEPT !.pc = "completed"]
    /\ UNCHANGED <<spec, syncVars, watcher, clusterVars, g, runs, succeeded, inits, faults>>

-----------------------------------------------------------------------------
(* WaitResource: the goroutine that waits for a workload to exist. *)

WatcherBecomes(x, from, to) ==
    /\ watcher[x] \in from
    /\ watcher' = [watcher EXCEPT ![x] = to]
    /\ UNCHANGED <<spec, w, syncVars, clusterVars, g, runs, succeeded, inits, faults>>

WatcherLists(x) == WatcherBecomes(x, {"started"}, IF x \in present THEN "done" ELSE "listening")

\* Replica sets and stateful sets are watched as deployments: their events are
\* dropped, only the first listing shows them.
WatcherSees(x) ==
    /\ x \in present /\ KindOf[x] \in {"Deployment", "DaemonSet"}
    /\ WatcherBecomes(x, {"listening"}, "done")

\* Two minutes are over or hooksContext is cancelled.
WatcherEnds(x) == WatcherBecomes(x, {"started", "listening"}, "done")

-----------------------------------------------------------------------------
(* HandleHooks: the goroutine k of a pod. *)

\* The hook at a place of the goroutine's list.
HookAt(k, i) == Candidates(spec, k[1])[i]

\* The context of a goroutine ends with its own, with the shared one or by timeout.
CtxDone(k) ==
    \/ g[k].stop \/ cancelled
    \/ \E m \in g[k].wait : g[k].age >= m

PodVersion(p) == [gone |-> p \notin present, over |-> p \in over, running |-> running[p]]

HandleHooks(k) ==
    /\ g[k].pc = "group"
    /\ \E lost \in Losses :
        LET by == byContainer[spec][present][k[1]][lost]
        IN  /\ Lose(lost)
            /\ IF HooksIn(by) = {}
               THEN /\ g' = [g EXCEPT ![k].pc = "done"]
                    /\ wg' = wg - 1
                    /\ UNCHANGED events
               ELSE /\ g' = [g EXCEPT ![k].pc = IF cancelled THEN "ending" ELSE "watch",
                                      ![k].by = by,
                                      ![k].wait = maxHookWait(Candidates(spec, k[1]), by)]
                    /\ events' = [events EXCEPT ![k] = IF k[1] \in present /\ ~cancelled
                                                       THEN <<PodVersion(k[1])>> ELSE <<>>]
                    /\ UNCHANGED wg
    /\ UNCHANGED <<spec, w, cancelled, closed, closer, watcher, present, running, over, runs,
                   succeeded, inits>>

First(places) == {i \in places : \A j \in places : i <= j}

\* The next running container of the version being handled, in any order; its
\* hooks run in the order of the list.
NextContainer(s) ==
    IF s.todo = {}
    THEN {[s EXCEPT !.pc = "watch", !.cont = "unset", !.idx = 0,
                    !.stop = @ \/ HooksIn(s.by) = {}]}
    ELSE UNION {{[s EXCEPT !.pc = "run", !.cont = c, !.idx = i, !.todo = @ \ {c}]
                    : i \in First(s.by[c])} : c \in s.todo}

isContainerRunning(v, c) == c \in v.running

HandleEvent(k) ==
    /\ g[k].pc = "watch" /\ events[k] # <<>>
    /\ LET v == Head(events[k])
       IN  IF v.gone \/ v.over
           THEN g' = [g EXCEPT ![k].stop = TRUE]
           ELSE \E s \in NextContainer([g[k] EXCEPT !.todo =
                            {c \in Containers : g[k].by[c] # {} /\ isContainerRunning(v, c)}]) :
                  g' = [g EXCEPT ![k] = s]
    /\ events' = [events EXCEPT ![k] = Tail(@)]
    /\ UNCHANGED <<spec, w, syncVars, watcher, present, running, over, runs, succeeded, inits, faults>>

Failing(s) == [s EXCEPT !.pc = "watch", !.errs = @ + 1, !.stop = TRUE, !.todo = {},
                        !.cont = "unset", !.idx = 0]

\* The hooks of the container that are still to run.
Later(s) == {i \in s.by[s.cont] : i > s.idx}

\* Mutant: the container stays in byContainer.
HooksRunKept(s) ==
    IF Later(s) # {} THEN {[s EXCEPT !.idx = i] : i \in First(Later(s))} ELSE NextContainer(s)

\* A container whose hooks have all run leaves byContainer.
HooksRun(s) ==
    IF Later(s) # {} THEN {[s EXCEPT !.idx = i] : i \in First(Later(s))}
    ELSE NextContainer([s EXCEPT !.by[s.cont] = {}])

ExecuteHook(k) ==
    /\ g[k].pc = "run"
    /\ LET h       == HookAt(k, g[k].idx)
           s       == [g[k] EXCEPT !.ran = @ \cup {g[k].idx}]
           expired == h.wait # 0 /\ s.age > h.wait
       IN  IF expired /\ h.fail
           THEN /\ g' = [g EXCEPT ![k] = Failing(s)]
                /\ UNCHANGED <<runs, succeeded>>
           ELSE \E result \in ExecutePodCommand(k[1], h) :
                /\ runs' = [runs EXCEPT ![k][h.id] = IF @ < 2 THEN @ + 1 ELSE @]
                /\ succeeded' = IF result = "ok" THEN succeeded \cup {<<k[1], h.id>>} ELSE succeeded
                /\ IF result = "error" /\ h.fail
                   THEN g' = [g EXCEPT ![k] = Failing(s)]
                   ELSE \E t \in HooksRun(s) : g' = [g EXCEPT ![k] = t]
    /\ UNCHANGED <<spec, w, syncVars, watcher, clusterVars, inits, faults>>

\* Mutant: a hook that never ran is only logged.
MissedIgnored(k) == {}

\* The hooks with onError Fail that did not run are errors too.
Missed(k) == {i \in HooksIn(g[k].by) : HookAt(k, i).fail /\ i \notin g[k].ran}

\* The informer has stopped; any error cancels the context of all goroutines.
HooksEnd(k) ==
    /\ \/ g[k].pc = "ending"
       \/ g[k].pc = "watch" /\ events[k] = <<>> /\ CtxDone(k)
    /\ LET errs == g[k].errs + Cardinality(Missed(k))
       IN  IF errs > 0
           THEN /\ g' = [g EXCEPT ![k] = [NoGoroutine EXCEPT !.pc = "send", !.errs = errs]]
                /\ cancelled' = TRUE
                /\ UNCHANGED wg
           ELSE /\ g' = [g EXCEPT ![k] = [NoGoroutine EXCEPT !.pc = "done"]]
                /\ wg' = wg - 1
                /\ UNCHANGED cancelled
    /\ events' = [events EXCEPT ![k] = <<>>]
    /\ UNCHANGED <<spec, w, closed, closer, watcher, present, running, over, runs, succeeded, inits,
                   faults>>

\* Only the receiving worker lets a send through; Done follows the last one.
SendErr(k) ==
    /\ g[k].pc = "send" /\ w.pc = "drain"
    /\ g' = [g EXCEPT ![k].errs = @ - 1, ![k].pc = IF g[k].errs = 1 THEN "done" ELSE "send"]
    /\ wg' = IF g[k].errs = 1 THEN wg - 1 ELSE wg
    /\ w' = [w EXCEPT !.failed = TRUE]
    /\ UNCHANGED <<spec, cancelled, closed, closer, watcher, clusterVars, runs, succeeded, inits,
                   faults>>

-----------------------------------------------------------------------------
(* Time, and the pods of the cluster (external). *)

Tick(k) ==
    /\ g[k].pc \in {"watch", "run"} /\ g[k].age < MaxAge
    /\ \E i \in HooksIn(g[k].by) : HookAt(k, i).wait > 0
    /\ g' = [g EXCEPT ![k].age = @ + 1]
    /\ UNCHANGED <<spec, w, syncVars, watcher, clusterVars, runs, succeeded, inits, faults>>

Ended == w.pc \in {"completed", "failed"}

GoroutinesOf(p) == {k \in Goroutines : k[1] = p}

\* Nobody looks at a pod's state once its goroutines are through.
Watched(p) ==
    ~Ended /\ (GoroutinesOf(p) = {} \/ \E k \in GoroutinesOf(p) : g[k].pc # "done")

Deliver(p) ==
    /\ events' = [k \in Goroutines |->
                     IF k[1] = p /\ g[k].pc \in {"watch", "run"}
                     THEN Append(events[k], [gone |-> p \notin present', over |-> p \in over',
                                             running |-> running'[p]])
                     ELSE events[k]]
    /\ UNCHANGED <<spec, w, syncVars, watcher, g, runs, succeeded, inits, faults>>

PodAppears(p) ==
    /\ p \notin present \cup over
    /\ \E x \in Workloads \cap present : p \in PodsWith(Pods, NsOf[x], MatchLabels[x])
    /\ present' = present \cup {p}
    /\ UNCHANGED <<running, over>>
    /\ Deliver(p)

ContainerStarts(p) ==
    /\ Watched(p) /\ p \in present \ over
    /\ \E c \in ToSet(ContainersOf[p]) \ running[p] :
         running' = [running EXCEPT ![p] = @ \cup {c}]
    /\ UNCHANGED <<present, over>>
    /\ Deliver(p)

\* A pod that exists before the restore may be deleted, but does not end.
PodEnds(p) ==
    /\ Watched(p) /\ p \in present \ (over \cup Existing)
    /\ over' = over \cup {p} /\ running' = [running EXCEPT ![p] = {}]
    /\ UNCHANGED present
    /\ Deliver(p)

PodDeleted(p) ==
    /\ Watched(p) /\ p \in present
    /\ present' = present \ {p} /\ over' = over \cup {p}
    /\ running' = [running EXCEPT ![p] = {}]
    /\ Deliver(p)

-----------------------------------------------------------------------------
(* Specification *)

Worker ==
    \/ collectAllRestoreHooksPods \/ ApplyExisting \/ ApplyOther \/ ApplyFails
    \/ applyPodResources \/ applyWorkloadResources \/ CreateWorkload \/ applyWorkloadPodResources
    \/ applyIndexedResource \/ HooksErrsClosed \/ ExternalHook \/ StageCompletes

Watcher(x) == WatcherLists(x) \/ WatcherSees(x) \/ WatcherEnds(x)

Goroutine(k) == HandleHooks(k) \/ HandleEvent(k) \/ ExecuteHook(k) \/ HooksEnd(k) \/ SendErr(k)

Cluster(p) == PodAppears(p) \/ ContainerStarts(p) \/ PodEnds(p) \/ PodDeleted(p)

Stage == Worker \/ CloseHooksErrs \/ \E x \in Workloads : Watcher(x)

Next ==
    \/ Stage
    \/ \E k \in Goroutines : Goroutine(k) \/ Tick(k)
    \/ \E p \in Pods : Cluster(p)

Spec == Init /\ [][Next]_vars

(* The goroutines run, commands end (ExecutePodCommand has a timeout), time  *)
(* passes; nothing is assumed of the pods.                                   *)
FairSpec ==
    /\ Spec
    /\ WF_vars(Stage)
    /\ \A k \in Goroutines : WF_vars(Goroutine(k)) /\ WF_vars(Tick(k))

-----------------------------------------------------------------------------
(* Properties *)

GoroutineStates ==
    [pc : {"none", "group", "watch", "run", "ending", "send", "done"},
     by : [Containers -> SUBSET Nat],
     todo : SUBSET Containers, cont : Containers \cup {"unset"}, idx : Nat, ran : SUBSET Nat,
     errs : Nat, stop : BOOLEAN, age : 0..MaxAge, wait : SUBSET Nat]

TypeOK ==
    /\ spec \in HookLists
    /\ w.pc \in {"collect", "apply", "create", "await", "relist", "drain", "external",
                 "completed", "failed"}
    /\ w.next \in 1..(Len(Resources) + 1) /\ w.failed \in BOOLEAN
    /\ DOMAIN w = {"pc", "next", "failed", "col", "ext"}
    /\ wg \in 0..(Cardinality(Goroutines) + 1)
    /\ cancelled \in BOOLEAN /\ closed \in BOOLEAN
    /\ closer \in {"none", "waiting", "done"}
    /\ watcher \in [Workloads -> {"none", "started", "listening", "done"}]
    /\ present \subseteq Pods \cup Workloads /\ over \subseteq Pods
    /\ running \in [Pods -> SUBSET Containers]
    /\ g \in [Goroutines -> GoroutineStates]
    /\ events \in [Goroutines ->
                      Seq([gone : BOOLEAN, over : BOOLEAN, running : SUBSET Containers])]
    /\ runs \in [Goroutines -> [HookIds -> 0..2]]
    /\ succeeded \subseteq Pods \X HookIds
    /\ DOMAIN inits \subseteq Pods
    /\ faults \in 0..MaxFaults

(* hooksErrs is closed only when no hook goroutine can send on it any more,  *)
(* so that no send panics, and every goroutine started is then through: the  *)
(* wait group is raised before a goroutine starts, by the worker and never   *)
(* by the goroutine, and a workload holds it up until its pods are listed    *)
(* (waitExec, applyWorkloadPodResources, metadatarestore.go:743-860).        *)
NoSendOnClosed == closed => wg = 0 /\ \A k \in Goroutines : g[k].pc \in {"none", "done"}

\* The hooks that concern a pod when all pods and workloads are there.
HooksFor(p) ==
    IF p \in DOMAIN Annotated THEN {Annotated[p]}
    ELSE {h \in ToSet(spec) : validateHook(Pods \cup Workloads, h, p, {})}

(* A stage that completes without a failed call of the API server has run    *)
(* every hook with onError Fail, with success, in every pod it started the   *)
(* hooks of and that still exists; a hook of a container the pod does not    *)
(* have is excepted (HandleHooks, restore_hooks.go:116-282).                 *)
CompletedMeansHooksRan ==
    w.pc = "completed" /\ faults = 0 =>
        \A p \in present \cap Pods : (\E k \in GoroutinesOf(p) : g[k].pc # "none") =>
            \A h \in HooksFor(p) :
                h.fail /\ (h.container = "unset" \/ podHasContainer(p, h.container))
                    => <<p, h.id>> \in succeeded

(* A goroutine runs a hook a second time only when one with onError Fail     *)
(* failed there, and such a restore fails: a container whose hooks have run  *)
(* leaves byContainer, whatever the informer delivers later                  *)
(* (restore_hooks.go:154-159, 216).                                          *)
RunsOnceUnlessFailed ==
    \A k \in Goroutines : \A i \in HookIds :
        runs[k][i] = 2 => g[k].errs > 0 \/ (w.failed /\ w.pc # "completed")

WaitsBounded ==
    /\ \A h \in ToSet(spec) : h.wait > 0
    /\ \A h \in Range(Annotated) : h.wait > 0

(* When every hook has a wait timeout the stage ends, whatever the pods do,  *)
(* and it ends too, with hooks that wait for ever, once one pod's error has  *)
(* cancelled the context all pods share: the errors are received, the wait   *)
(* group reaches zero and the channel is closed (metadatarestore.go:264-281).*)
StageEnds == (WaitsBounded \/ cancelled) ~> Ended

(* HandleInitHook promises that the init containers of the hooks that select *)
(* a pod are added to it.  They are not: validateHook looks for the pod in   *)
(* the cluster before it is created (init_hooks.go:62-127, common.go:117).   *)
InitHooksApplied ==
    \A p \in DOMAIN inits : \A h \in HooksFor(p) : h.init => h.id \in inits[p]

-----------------------------------------------------------------------------
(* The inductive invariants behind NoSendOnClosed and RunsOnceUnlessFailed *)

\* The wait group counts the goroutines that are not through, and the workload whose
\* pods are still to be listed.
Active == {k \in Goroutines : g[k].pc \notin {"none", "done"}}
Listing == w.pc \in {"create", "await", "relist"}
Counted == wg = Cardinality(Active) + IF Listing THEN 1 ELSE 0

\* A goroutine is started for a resource that is being applied, once.
StartedOnce ==
    /\ \A k \in Goroutines : g[k].pc # "none" => k[2] < w.next
    /\ Existing \cap Workloads \subseteq present
    /\ Listing => w.next <= Len(Resources) /\ Resources[w.next].kind = "Workload"

\* The channel is closed after the last resource and the last goroutine; an error that
\* was received fails the stage.
ClosedLast ==
    /\ closer # "none" => w.pc \in {"drain", "external", "completed", "failed"}
    /\ closed => closer = "done" /\ wg = 0
    /\ w.failed => w.pc \in {"drain", "failed"}

\* The places a goroutine has still to run: those of the containers in byContainer, less
\* those before the one it is at.
Ahead(s) == {i \in HooksIn(s.by) : ~(s.pc = "run" /\ i \in s.by[s.cont] /\ i < s.idx)}

\* Goroutine k, in state s with the executions r of its hooks, is at a hook of its list; a
\* hook is one container's.
AtHook(k, s, r) ==
    /\ s.pc \in {"none", "group"} => s.errs = 0 /\ \A i \in HookIds : r[i] = 0
    /\ s.pc = "send" => s.errs > 0
    /\ \A c \in Containers :
          /\ s.by[c] \subseteq DOMAIN Candidates(spec, k[1])
          /\ \A d \in Containers : c # d => s.by[c] \cap s.by[d] = {}
    /\ s.pc = "run" => s.cont \in Containers \ s.todo /\ s.idx \in s.by[s.cont]

\* Until a hook fails, what the goroutine has run is behind it, and was run once.
RunIsBehind(k, s, r) ==
    s.errs = 0 => \A i \in HookIds :
        /\ r[i] <= 1
        /\ r[i] = 1 => \A j \in Ahead(s) : HookAt(k, j).id # i

HooksInv ==
    \A k \in Goroutines :
        /\ AtHook(k, g[k], runs[k])
        /\ ~w.failed => RunIsBehind(k, g[k], runs[k])

CountInv == Counted /\ StartedOnce /\ ClosedLast
IInv == TypeOK /\ CountInv /\ HooksInv

-----------------------------------------------------------------------------
(* The inductive invariant behind CompletedMeansHooksRan *)

\* The workloads that are there once the resources before w.next are applied.
AppliedWorkloads ==
    {x \in Workloads : x \in Existing \/ \E i \in DOMAIN Resources :
        i < w.next /\ Resources[i].kind = "Workload" /\ Resources[i].name = x}

\* The workload whose pods are to be listed.
Created == {x \in Workloads : w.pc \in {"await", "relist"} /\ Resources[w.next].name = x}

Unfailed == faults = 0 /\ ~w.failed /\ w.pc # "failed"

\* Pods with a goroutine are there or were; nothing removes a workload.
Found ==
    /\ \A k \in Goroutines : g[k].pc # "none" => k[1] \in present \cup over
    /\ w.pc # "failed" => present \cap Workloads = AppliedWorkloads \cup Created
    /\ w.pc \in {"drain", "external", "completed"} => w.next > Len(Resources)
    /\ w.pc \in {"external", "completed"} => closed

\* The places of the hooks of a goroutine's pod that must succeed, as far as they select it
\* by itself or through a workload that is applied, in containers the pod has.
Due(k) ==
    {i \in DOMAIN Candidates(spec, k[1]) :
        LET h == HookAt(k, i)
        IN  /\ h.fail
            /\ h.container = "unset" \/ podHasContainer(k[1], h.container)
            /\ k[1] \in DOMAIN Annotated
               \/ validateHook({k[1]} \cup AppliedWorkloads, h, k[1], {})}

\* The goroutine in state s is past its start, and none of its hooks failed.
AtWork(s) == s.pc \in {"watch", "run", "ending"} /\ s.errs = 0

\* What it has run succeeded, and those of its container before the one it is at have run.
RanWell(k, s, succ) ==
    /\ s.pc \in {"none", "group"} => s.ran = {}
    /\ AtWork(s) =>
          /\ \A i \in s.ran : HookAt(k, i).fail => <<k[1], HookAt(k, i).id>> \in succ
          /\ s.pc = "run" => \A i \in s.by[s.cont] : i < s.idx => i \in s.ran

\* What is due is in byContainer or has run; in the end it succeeded.
NoneForgotten(k, s, succ) ==
    /\ AtWork(s) => Due(k) \subseteq HooksIn(s.by) \cup s.ran
    /\ s.pc = "done" => \A i \in Due(k) : <<k[1], HookAt(k, i).id>> \in succ

\* What a pod's first goroutine did not see, a workload restored later, is seen by a second.
Started(p) == {k \in GoroutinesOf(p) : g[k].pc # "none"}
CoveredPods ==
    Unfailed => \A p \in present \cap Pods : Started(p) # {} =>
        \E k \in Started(p) : NoneForgotten(k, g[k], succeeded)

RanInv == Found /\ CoveredPods /\ \A k \in Goroutines : RanWell(k, g[k], succeeded)

=============================================================================
