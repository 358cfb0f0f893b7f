-------------------------- MODULE RestoreHooks_proofs --------------------------
(***************************************************************************)
(* Proofs about RestoreHooks, for every set of pods, workloads, resources  *)
(* and hooks: the channel of the hook errors is closed only when no        *)
(* goroutine can send on it, a goroutine runs a hook again only after one  *)
(* failed, and a stage that completes without a failed call has run the    *)
(* hooks that must succeed.  First the operators on hooks and goroutines,  *)
(* then the shapes of the steps, then one lemma per part of the inductive  *)
(* invariants.                                                             *)
(***************************************************************************)
EXTENDS RestoreHooks, TLAPS, FiniteSetTheorems

-----------------------------------------------------------------------------
(* Goroutines and hooks *)

\* A goroutine is a pod and the place of a resource that leads to it.
LEMMA GoroutineIs ==
    ASSUME NEW k \in Goroutines
    PROVE  /\ k = <<k[1], k[2]>> /\ k[1] \in Pods /\ k[2] \in 1..Len(Resources)
           /\ k[1] \in PodsOfResource(k[2])
  <1>1. DOMAIN Resources = 1..Len(Resources)
    BY StageAssumption
  <1> QED BY <1>1, GoroutineAssumption

\* There are finitely many goroutines.
LEMMA GoroutinesFinite == IsFiniteSet(Goroutines)
  <1>1. IsFiniteSet(1..Len(Resources)) /\ DOMAIN Resources = 1..Len(Resources)
    BY StageAssumption, FS_Interval
  <1>2. IsFiniteSet(Pods \X DOMAIN Resources)
    BY <1>1, ClusterAssumption, FS_Product
  <1>3. Goroutines \subseteq Pods \X DOMAIN Resources
    BY GoroutineAssumption
  <1> QED BY <1>2, <1>3, FS_Subset

\* Every subset of the goroutines has a size.
LEMMA SomeGoroutines ==
    ASSUME NEW S \in SUBSET Goroutines
    PROVE  /\ IsFiniteSet(S) /\ Cardinality(S) \in Nat
           /\ Cardinality(S) <= Cardinality(Goroutines) /\ Cardinality(Goroutines) \in Nat
  <1> QED BY GoroutinesFinite, FS_Subset, FS_CardinalityType

\* The containers are those of the pods.
LEMMA ContainersAre ==
    ASSUME NEW p \in Pods
    PROVE  ToSet(ContainersOf[p]) \subseteq Containers
  <1> QED BY DEF Containers

\* The list a pod's hooks are taken from is a list of hooks with different ids.
LEMMA CandidatesAre ==
    ASSUME NEW l \in HookLists, NEW p \in Pods
    PROVE  /\ Candidates(l, p) \in Seq(Hooks)
           /\ \A i, j \in DOMAIN Candidates(l, p) :
                Candidates(l, p)[i].id = Candidates(l, p)[j].id => i = j
  <1>1. CASE p \in DOMAIN Annotated
    <2>1. Annotated[p] \in Range(Annotated)
      BY <1>1 DEF Range
    <2>2. Annotated[p] \in Hooks
      BY <2>1 DEF Hooks
    <2>3. Candidates(l, p) = <<Annotated[p]>>
      BY <1>1 DEF Candidates
    <2> QED BY <2>2, <2>3
  <1>2. CASE p \notin DOMAIN Annotated
    <2>1. Candidates(l, p) = l
      BY <1>2 DEF Candidates
    <2>2. l \in Seq(Hooks) /\ \A i, j \in DOMAIN l : l[i].id = l[j].id => i = j
      BY HookAssumption
    <2> QED BY <2>1, <2>2
  <1> QED BY <1>1, <1>2

\* A place of a goroutine's list is that of a hook.
LEMMA HookAtIs ==
    ASSUME spec \in HookLists, NEW k \in Goroutines,
           NEW i \in DOMAIN Candidates(spec, k[1])
    PROVE  /\ HookAt(k, i) \in Hooks /\ HookAt(k, i).id \in HookIds
           /\ HookAt(k, i).fail \in BOOLEAN /\ HookAt(k, i).wait \in Nat
           /\ i \in Nat /\ i > 0
           /\ \A j \in DOMAIN Candidates(spec, k[1]) : HookAt(k, j).id = HookAt(k, i).id => j = i
  <1>1. k[1] \in Pods
    BY GoroutineIs
  <1>2. Candidates(spec, k[1]) \in Seq(Hooks)
    BY <1>1, CandidatesAre
  <1>3. HookAt(k, i) \in Hooks /\ i \in Nat /\ i > 0
    BY <1>2 DEF HookAt
  <1>4. HookAt(k, i).id \in HookIds
    BY <1>3 DEF HookIds
  <1>5. \A j \in DOMAIN Candidates(spec, k[1]) : HookAt(k, j).id = HookAt(k, i).id => j = i
    BY <1>1, CandidatesAre DEF HookAt
  <1> QED BY <1>3, <1>4, <1>5, HookAssumption

\* The hooks of the containers are places of the list, each of one container.
LEMMA GroupedAre ==
    ASSUME NEW l \in HookLists, NEW there \in SUBSET (Pods \cup Workloads), NEW p \in Pods,
           NEW lost \in Losses
    PROVE  LET by == byContainer[l][there][p][lost]
           IN  /\ by \in [Containers -> SUBSET Nat]
               /\ \A c \in Containers :
                    /\ by[c] \subseteq DOMAIN Candidates(l, p)
                    /\ \A d \in Containers : c # d => by[c] \cap by[d] = {}
  <1> DEFINE all == GroupRestoreExecHooks(l, there, p, lost)
             by  == Discarded(p, all)
  <1>1. byContainer[l][there][p][lost] = by
    BY DEF byContainer
  <1>2. DOMAIN Candidates(l, p) \subseteq Nat
    BY CandidatesAre
  <1>3. \A c \in Containers :
            /\ all[c] \subseteq DOMAIN Candidates(l, p)
            /\ \A d \in Containers : c # d => all[c] \cap all[d] = {}
    BY DEF GroupRestoreExecHooks
  <1>4. /\ by = [c \in Containers |-> IF podHasContainer(p, c) THEN all[c] ELSE {}]
        /\ \A c \in Containers : by[c] = all[c] \/ by[c] = {}
    BY DEF Discarded
  <1> HIDE DEF all, by
  <1>5. \A c \in Containers :
            /\ by[c] \subseteq DOMAIN Candidates(l, p)
            /\ \A d \in Containers : c # d => by[c] \cap by[d] = {}
    BY <1>3, <1>4
  <1>6. by \in [Containers -> SUBSET Nat]
    BY <1>2, <1>4, <1>5
  <1> QED BY <1>1, <1>5, <1>6

\* No goroutine has a hook in hand at first.
LEMMA NoGoroutineType == NoGoroutine \in GoroutineStates
  BY StageAssumption DEF NoGoroutine, GoroutineStates

\* The fields of a goroutine's state.
LEMMA StateFields ==
    ASSUME NEW s \in GoroutineStates
    PROVE  /\ s.pc \in {"none", "group", "watch", "run", "ending", "send", "done"}
           /\ s.by \in [Containers -> SUBSET Nat] /\ s.todo \subseteq Containers
           /\ s.cont \in Containers \cup {"unset"} /\ s.idx \in Nat /\ s.ran \subseteq Nat
           /\ s.errs \in Nat /\ s.stop \in BOOLEAN /\ s.age \in 0..MaxAge /\ s.wait \subseteq Nat
  BY DEF GoroutineStates

\* The hooks of the containers are places.
LEMMA HooksInAre ==
    ASSUME NEW by \in [Containers -> SUBSET Nat]
    PROVE  HooksIn(by) \subseteq Nat
  BY DEF HooksIn

\* After a version or a container the goroutine watches, or it is at the first hook of one
\* of the containers it had to visit.
LEMMA NextContainerIs ==
    ASSUME NEW s \in GoroutineStates, NEW t \in NextContainer(s)
    PROVE  /\ t \in GoroutineStates
           /\ t.by = s.by /\ t.errs = s.errs /\ t.ran = s.ran
           /\ \/ t.pc = "watch"
              \/ /\ t.pc = "run" /\ t.cont \in s.todo /\ t.todo = s.todo \ {t.cont}
                 /\ t.idx \in First(s.by[t.cont])
  <1> USE StateFields
  <1>1. CASE s.todo = {}
    <2> DEFINE u == [s EXCEPT !.pc = "watch", !.cont = "unset", !.idx = 0,
                              !.stop = s.stop \/ HooksIn(s.by) = {}]
    <2>1. t = u
      BY <1>1 DEF NextContainer
    <2>2. (s.stop \/ HooksIn(s.by) = {}) \in BOOLEAN
      OBVIOUS
    <2>3. u \in GoroutineStates /\ u.by = s.by /\ u.errs = s.errs /\ u.ran = s.ran /\ u.pc = "watch"
      BY <2>2 DEF GoroutineStates
    <2> QED BY <2>1, <2>3
  <1>2. CASE s.todo # {}
    <2> DEFINE At(c) == {[s EXCEPT !.pc = "run", !.cont = c, !.idx = i, !.todo = s.todo \ {c}]
                            : i \in First(s.by[c])}
    <2>1. NextContainer(s) = UNION {At(c) : c \in s.todo}
      BY <1>2 DEF NextContainer
    <2> HIDE DEF At
    <2>2. PICK c \in s.todo : t \in At(c)
      BY <2>1
    <2>3. \E i \in First(s.by[c]) :
            t = [s EXCEPT !.pc = "run", !.cont = c, !.idx = i, !.todo = s.todo \ {c}]
      BY <2>2 DEF At
    <2>4. PICK i \in First(s.by[c]) :
            t = [s EXCEPT !.pc = "run", !.cont = c, !.idx = i, !.todo = s.todo \ {c}]
      BY <2>3
    <2>5. c \in Containers /\ i \in s.by[c] /\ s.by[c] \subseteq Nat
      BY <2>4 DEF First
    <2>6. t \in GoroutineStates
      BY <2>4, <2>5 DEF GoroutineStates
    <2>7. /\ t.by = s.by /\ t.errs = s.errs /\ t.ran = s.ran /\ t.pc = "run"
          /\ t.cont = c /\ t.todo = s.todo \ {c} /\ t.idx = i
      BY <2>4 DEF GoroutineStates
    <2> QED BY <2>4, <2>6, <2>7
  <1> QED BY <1>1, <1>2

\* After a hook comes the container's next, or the container leaves byContainer.
LEMMA HooksRunIs ==
    ASSUME NEW s \in GoroutineStates, s.cont \in Containers, s.pc = "run", NEW t \in HooksRun(s)
    PROVE  /\ t \in GoroutineStates /\ t.errs = s.errs /\ t.ran = s.ran
           /\ \/ /\ t.pc = "run" /\ t.by = s.by /\ t.cont = s.cont /\ t.todo = s.todo
                 /\ t.idx \in First(Later(s))
              \/ /\ t.pc = "watch" /\ t.by = [s.by EXCEPT ![s.cont] = {}]
              \/ /\ t.pc = "run" /\ t.by = [s.by EXCEPT ![s.cont] = {}]
                 /\ t.cont \in s.todo /\ t.todo = s.todo \ {t.cont}
                 /\ t.idx \in First(t.by[t.cont])
  <1> USE StateFields
  <1>1. CASE Later(s) # {}
    <2>1. PICK i \in First(Later(s)) : t = [s EXCEPT !.idx = i]
      BY <1>1 DEF HooksRun
    <2>2. i \in s.by[s.cont] /\ s.by[s.cont] \subseteq Nat
      BY <2>1 DEF First, Later
    <2>3. t \in GoroutineStates
      BY <2>1, <2>2 DEF GoroutineStates
    <2>4. /\ t.errs = s.errs /\ t.ran = s.ran /\ t.pc = "run" /\ t.by = s.by /\ t.cont = s.cont
          /\ t.todo = s.todo /\ t.idx = i
      BY <2>1 DEF GoroutineStates
    <2> QED BY <2>1, <2>3, <2>4
  <1>2. CASE Later(s) = {}
    <2> DEFINE by == [s.by EXCEPT ![s.cont] = {}]
               u  == [s EXCEPT !.by = by]
    <2>1. t \in NextContainer(u)
      <3>1. [s EXCEPT !.by[s.cont] = {}] = u
        BY DEF GoroutineStates
      <3> QED BY <1>2, <3>1 DEF HooksRun
    <2>2. by \in [Containers -> SUBSET Nat]
      OBVIOUS
    <2>3. u \in GoroutineStates
      BY <2>2 DEF GoroutineStates
    <2>4. u.by = by /\ u.errs = s.errs /\ u.ran = s.ran /\ u.todo = s.todo
      BY DEF GoroutineStates
    <2> HIDE DEF u, by
    <2>5. /\ t \in GoroutineStates
          /\ t.by = u.by /\ t.errs = u.errs /\ t.ran = u.ran
          /\ \/ t.pc = "watch"
             \/ /\ t.pc = "run" /\ t.cont \in u.todo /\ t.todo = u.todo \ {t.cont}
                /\ t.idx \in First(u.by[t.cont])
      BY <2>1, <2>3, NextContainerIs
    <2> QED BY <2>4, <2>5 DEF by
  <1> QED BY <1>1, <1>2

\* A hook that fails ends the goroutine's watch and is counted.
LEMMA FailingIs ==
    ASSUME NEW s \in GoroutineStates
    PROVE  /\ Failing(s) \in GoroutineStates
           /\ Failing(s).pc = "watch" /\ Failing(s).by = s.by /\ Failing(s).errs = s.errs + 1
  <1>1. s.errs + 1 \in Nat
    BY StateFields
  <1> QED BY <1>1 DEF Failing, GoroutineStates

-----------------------------------------------------------------------------
(* The parts of the type invariant *)

\* The wait group apart, whose bound follows from what it counts.
OtherTypes ==
    /\ spec \in HookLists
    /\ w.pc \in {"collect", "apply", "create", "await", "relist", "drain", "external",
                 "completed", "failed"}
    /\ w.next \in 1..(Len(Resources) + 1) /\ w.failed \in BOOLEAN
    /\ DOMAIN w = {"pc", "next", "failed", "col", "ext"}
FlagTypes ==
    /\ cancelled \in BOOLEAN /\ closed \in BOOLEAN
    /\ closer \in {"none", "waiting", "done"}
    /\ watcher \in [Workloads -> {"none", "started", "listening", "done"}]
ClusterTypes ==
    /\ present \subseteq Pods \cup Workloads /\ over \subseteq Pods
    /\ running \in [Pods -> SUBSET Containers]
Versions == [gone : BOOLEAN, over : BOOLEAN, running : SUBSET Containers]
GoroutineTypes ==
    /\ g \in [Goroutines -> GoroutineStates]
    /\ events \in [Goroutines -> Seq(Versions)]
    /\ runs \in [Goroutines -> [HookIds -> 0..2]]
    /\ succeeded \subseteq Pods \X HookIds
FaultTypes == DOMAIN inits \subseteq Pods /\ faults \in 0..MaxFaults

\* The type invariant is these parts and the bound of the wait group.
LEMMA TypeParts ==
    TypeOK <=> /\ OtherTypes /\ FlagTypes /\ ClusterTypes /\ GoroutineTypes /\ FaultTypes
               /\ wg \in 0..(Cardinality(Goroutines) + 1)
  BY DEF TypeOK, OtherTypes, FlagTypes, ClusterTypes, GoroutineTypes, FaultTypes, Versions

\* So it is in the next state.
LEMMA TypePartsNext ==
    TypeOK' <=> /\ OtherTypes' /\ FlagTypes' /\ ClusterTypes' /\ GoroutineTypes' /\ FaultTypes'
                /\ wg' \in 0..(Cardinality(Goroutines) + 1)
  BY DEF TypeOK, OtherTypes, FlagTypes, ClusterTypes, GoroutineTypes, FaultTypes, Versions

\* Listings that fail are counted.
LEMMA LoseIs ==
    ASSUME FaultTypes, NEW lost \in Losses, Lose(lost)
    PROVE  faults' \in 0..MaxFaults
  <1>1. \/ lost = {}
        \/ \E x : lost = {x}
    BY DEF Losses
  <1>2. IsFiniteSet(lost)
    BY <1>1, FS_EmptySet, FS_Singleton
  <1>3. Cardinality(lost) \in Nat
    BY <1>2, FS_CardinalityType
  <1> QED BY <1>3, StageAssumption DEF FaultTypes, Lose

\* A failed call is counted.
LEMMA FaultIs ==
    ASSUME FaultTypes, Fault
    PROVE  faults' \in 0..MaxFaults
  BY StageAssumption DEF FaultTypes, Fault

-----------------------------------------------------------------------------
(* The steps of a goroutine *)

\* The step of goroutine k leaves it in state s with the executions r of its hooks.
Moves(k, s, r) ==
    /\ s \in GoroutineStates /\ r \in [HookIds -> 0..2]
    /\ g' = [g EXCEPT ![k] = s] /\ runs' = [runs EXCEPT ![k] = r]
    /\ g[k].pc \notin {"none", "done"} /\ s.pc \notin {"none", "group"}
    /\ wg' = IF s.pc = "done" THEN wg - 1 ELSE wg
    /\ AtHook(k, s, r)
    /\ ~w'.failed /\ RunIsBehind(k, g[k], runs[k]) => RunIsBehind(k, s, r)

\* What no step of a goroutine changes.
LeavesWorker == UNCHANGED <<spec, closed, closer, watcher, present, running, over, inits>>

\* A place that is not ahead stays behind; one that was run there counts.
LEMMA BehindStays ==
    ASSUME NEW k \in Goroutines, NEW s, NEW t, NEW r,
           t.errs = s.errs, Ahead(t) \subseteq Ahead(s)
    PROVE  RunIsBehind(k, s, r) => RunIsBehind(k, t, r)
  BY DEF RunIsBehind

\* Nothing is ahead that is not in byContainer; everything there is, between containers.
LEMMA AheadIs ==
    ASSUME NEW s
    PROVE  /\ Ahead(s) \subseteq HooksIn(s.by)
           /\ s.pc # "run" => Ahead(s) = HooksIn(s.by)
  BY DEF Ahead

\* The longest wait is a wait.
LEMMA MaxWaitIs ==
    ASSUME spec \in HookLists, NEW k \in Goroutines, NEW by \in [Containers -> SUBSET Nat],
           \A c \in Containers : by[c] \subseteq DOMAIN Candidates(spec, k[1])
    PROVE  maxHookWait(Candidates(spec, k[1]), by) \subseteq Nat
  <1>1. \A i \in HooksIn(by) : Candidates(spec, k[1])[i].wait \in Nat
    <2> SUFFICES ASSUME NEW i \in HooksIn(by) PROVE Candidates(spec, k[1])[i].wait \in Nat
      OBVIOUS
    <2>1. i \in DOMAIN Candidates(spec, k[1])
      BY DEF HooksIn
    <2> QED BY <2>1, HookAtIs DEF HookAt
  <1> QED BY <1>1 DEF maxHookWait

\* What the type invariant says of the state of a goroutine.
LEMMA TypesNow ==
    ASSUME TypeOK, NEW k \in Goroutines
    PROVE  /\ spec \in HookLists /\ present \in SUBSET (Pods \cup Workloads) /\ k[1] \in Pods
           /\ g \in [Goroutines -> GoroutineStates] /\ g[k] \in GoroutineStates
           /\ runs \in [Goroutines -> [HookIds -> 0..2]] /\ runs[k] \in [HookIds -> 0..2]
           /\ events \in [Goroutines -> Seq(Versions)] /\ events[k] \in Seq(Versions)
           /\ running \in [Pods -> SUBSET Containers] /\ succeeded \subseteq Pods \X HookIds
  <1>1. GoroutineTypes /\ ClusterTypes /\ OtherTypes
    BY TypeParts
  <1>2. k[1] \in Pods
    BY GoroutineIs
  <1> QED BY <1>1, <1>2 DEF GoroutineTypes, ClusterTypes, OtherTypes

\* A version of a pod is one of the versions.
LEMMA PodVersionIs ==
    ASSUME NEW p \in Pods, running[p] \subseteq Containers
    PROVE  PodVersion(p) \in Versions
  <1>1. (p \notin present) \in BOOLEAN /\ (p \in over) \in BOOLEAN
    OBVIOUS
  <1> QED BY <1>1 DEF PodVersion, Versions

\* HandleHooks groups the hooks before any has run.
LEMMA HandleHooksMoves ==
    ASSUME TypeOK, HooksInv, NEW k \in Goroutines, HandleHooks(k)
    PROVE  /\ LeavesWorker /\ w' = w /\ cancelled' = cancelled
           /\ \E s, r : Moves(k, s, r)
           /\ events' \in [Goroutines -> Seq(Versions)] /\ succeeded' = succeeded
           /\ faults' \in 0..MaxFaults
  <1>1. PICK lost \in Losses :
           LET by == byContainer[spec][present][k[1]][lost]
           IN  /\ Lose(lost)
               /\ IF HooksIn(by) = {}
                  THEN /\ g' = [g EXCEPT ![k].pc = "done"]
                       /\ wg' = wg - 1
                       /\ UNCHANGED events
                  ELSE /\ g' = [g EXCEPT ![k].pc = IF cancelled THEN "ending" ELSE "watch",
                                         ![k].by = by,
                                         ![k].wait = maxHookWait(Candidates(spec, k[1]), by)]
                       /\ events' = [events EXCEPT ![k] = IF k[1] \in present /\ ~cancelled
                                                          THEN <<PodVersion(k[1])>> ELSE <<>>]
                       /\ UNCHANGED wg
    BY DEF HandleHooks
  <1> DEFINE by == byContainer[spec][present][k[1]][lost]
             list == Candidates(spec, k[1])
  <1>2. /\ spec \in HookLists /\ present \in SUBSET (Pods \cup Workloads) /\ k[1] \in Pods
        /\ g \in [Goroutines -> GoroutineStates] /\ g[k] \in GoroutineStates
        /\ runs \in [Goroutines -> [HookIds -> 0..2]] /\ runs[k] \in [HookIds -> 0..2]
        /\ events \in [Goroutines -> Seq(Versions)]
        /\ running \in [Pods -> SUBSET Containers]
    BY TypesNow
  <1>3. /\ by \in [Containers -> SUBSET Nat]
        /\ \A c \in Containers :
             /\ by[c] \subseteq DOMAIN list
             /\ \A d \in Containers : c # d => by[c] \cap by[d] = {}
    BY <1>2, GroupedAre
  <1>4. g[k].pc = "group" /\ AtHook(k, g[k], runs[k])
    BY DEF HandleHooks, HooksInv
  <1>5. g[k].errs = 0 /\ \A i \in HookIds : runs[k][i] = 0
    BY <1>4 DEF AtHook
  <1>6. LeavesWorker /\ w' = w /\ cancelled' = cancelled /\ runs' = runs /\ succeeded' = succeeded
    BY DEF HandleHooks, LeavesWorker
  <1>7. faults' \in 0..MaxFaults
    BY <1>1, LoseIs, TypeParts
  <1> HIDE DEF by, list
  <1>8. \A s \in GoroutineStates : s.errs = 0 => RunIsBehind(k, s, runs[k])
    BY <1>5 DEF RunIsBehind
  <1>9. CASE HooksIn(by) = {}
    <2> DEFINE s == [g[k] EXCEPT !.pc = "done"]
    <2>1. g' = [g EXCEPT ![k] = s] /\ wg' = wg - 1 /\ events' = events
      BY <1>1, <1>2, <1>9 DEF by
    <2>2. s \in GoroutineStates /\ s.pc = "done" /\ s.errs = 0 /\ s.by = g[k].by
      BY <1>2, <1>5 DEF GoroutineStates
    <2>3. AtHook(k, s, runs[k])
      BY <1>4, <2>2 DEF AtHook
    <2>4. runs' = [runs EXCEPT ![k] = runs[k]] /\ runs[k] \in [HookIds -> 0..2]
      BY <1>2, <1>6
    <2> HIDE DEF s
    <2>5. Moves(k, s, runs[k])
      BY <1>4, <1>8, <2>1, <2>2, <2>3, <2>4 DEF Moves
    <2> QED BY <1>2, <1>6, <1>7, <2>1, <2>5
  <1>10. CASE HooksIn(by) # {}
    <2> DEFINE wait == maxHookWait(list, by)
               s == [g[k] EXCEPT !.pc = IF cancelled THEN "ending" ELSE "watch",
                                 !.by = by, !.wait = wait]
               v == IF k[1] \in present /\ ~cancelled THEN <<PodVersion(k[1])>> ELSE <<>>
    <2>1. g' = [g EXCEPT ![k] = s] /\ wg' = wg /\ events' = [events EXCEPT ![k] = v]
      BY <1>1, <1>2, <1>10 DEF by, list
    <2>2. wait \subseteq Nat
      BY <1>2, <1>3, MaxWaitIs DEF list
    <2> HIDE DEF wait
    <2>3. s \in GoroutineStates /\ s.pc \in {"ending", "watch"} /\ s.errs = 0 /\ s.by = by
      BY <1>2, <1>3, <1>5, <2>2 DEF GoroutineStates
    <2>4. AtHook(k, s, runs[k])
      BY <1>3, <2>3 DEF AtHook, list
    <2>5. runs' = [runs EXCEPT ![k] = runs[k]] /\ runs[k] \in [HookIds -> 0..2]
      BY <1>2, <1>6
    <2>6. v \in Seq(Versions)
      <3>1. PodVersion(k[1]) \in Versions
        BY <1>2, PodVersionIs
      <3> QED BY <3>1
    <2> HIDE DEF s, v
    <2>7. Moves(k, s, runs[k])
      BY <1>4, <1>8, <2>1, <2>3, <2>4, <2>5 DEF Moves
    <2>8. events' \in [Goroutines -> Seq(Versions)]
      BY <1>2, <2>1, <2>6
    <2> QED BY <1>6, <1>7, <2>7, <2>8
  <1> QED BY <1>9, <1>10

\* What the inductive invariant says of where one goroutine is.
LEMMA AtHookNow ==
    ASSUME HooksInv, NEW k \in Goroutines
    PROVE  AtHook(k, g[k], runs[k])
  BY DEF HooksInv

\* A version of the pod is handled: its running containers are visited.
LEMMA HandleEventMoves ==
    ASSUME TypeOK, HooksInv, NEW k \in Goroutines, HandleEvent(k)
    PROVE  /\ LeavesWorker /\ w' = w /\ cancelled' = cancelled
           /\ \E s, r : Moves(k, s, r)
           /\ events' \in [Goroutines -> Seq(Versions)] /\ succeeded' = succeeded
           /\ faults' = faults
  <1> DEFINE v  == Head(events[k])
             s0 == [g[k] EXCEPT !.todo =
                        {c \in Containers : g[k].by[c] # {} /\ isContainerRunning(v, c)}]
  <1>1. /\ g \in [Goroutines -> GoroutineStates] /\ g[k] \in GoroutineStates
        /\ runs \in [Goroutines -> [HookIds -> 0..2]] /\ runs[k] \in [HookIds -> 0..2]
        /\ events \in [Goroutines -> Seq(Versions)] /\ events[k] \in Seq(Versions)
    BY TypesNow
  <1>2. g[k].pc = "watch" /\ events[k] # <<>> /\ AtHook(k, g[k], runs[k])
    BY AtHookNow DEF HandleEvent
  <1>3. LeavesWorker /\ w' = w /\ cancelled' = cancelled /\ runs' = runs /\ succeeded' = succeeded
        /\ faults' = faults /\ wg' = wg
    BY DEF HandleEvent, LeavesWorker, syncVars
  <1>4. events' \in [Goroutines -> Seq(Versions)]
    <2>1. Tail(events[k]) \in Seq(Versions)
      BY <1>1, <1>2
    <2>2. events' = [events EXCEPT ![k] = Tail(events[k])]
      BY DEF HandleEvent
    <2> QED BY <1>1, <2>1, <2>2
  <1>5. runs' = [runs EXCEPT ![k] = runs[k]]
    BY <1>1, <1>3
  <1>6. Ahead(g[k]) = HooksIn(g[k].by)
    BY <1>2, AheadIs
  <1>7. \/ g' = [g EXCEPT ![k].stop = TRUE]
        \/ \E s \in NextContainer(s0) : g' = [g EXCEPT ![k] = s]
    BY DEF HandleEvent
  <1>8. CASE g' = [g EXCEPT ![k].stop = TRUE]
    <2> DEFINE s == [g[k] EXCEPT !.stop = TRUE]
    <2>1. g' = [g EXCEPT ![k] = s]
      BY <1>1, <1>8
    <2>2. /\ s \in GoroutineStates /\ s.pc = "watch" /\ s.errs = g[k].errs /\ s.by = g[k].by
      BY <1>1, <1>2 DEF GoroutineStates
    <2> HIDE DEF s
    <2>3. AtHook(k, s, runs[k])
      BY <1>2, <2>2 DEF AtHook
    <2>4. RunIsBehind(k, g[k], runs[k]) => RunIsBehind(k, s, runs[k])
      BY <1>6, <2>2, AheadIs, BehindStays
    <2>5. Moves(k, s, runs[k])
      BY <1>1, <1>2, <1>3, <1>5, <2>1, <2>2, <2>3, <2>4 DEF Moves
    <2> QED BY <1>3, <1>4, <2>5
  <1>9. CASE \E s \in NextContainer(s0) : g' = [g EXCEPT ![k] = s]
    <2>1. PICK s \in NextContainer(s0) : g' = [g EXCEPT ![k] = s]
      BY <1>9
    <2>2. {c \in Containers : g[k].by[c] # {} /\ isContainerRunning(v, c)} \in SUBSET Containers
      OBVIOUS
    <2>3. s0 \in GoroutineStates /\ s0.by = g[k].by /\ s0.errs = g[k].errs
      BY <1>1, <2>2 DEF GoroutineStates
    <2> HIDE DEF s0
    <2>4. /\ s \in GoroutineStates /\ s.by = g[k].by /\ s.errs = g[k].errs
          /\ s.pc \in {"watch", "run"}
          /\ s.pc = "run" => s.cont \in Containers \ s.todo /\ s.idx \in s.by[s.cont]
      <3>1. /\ s \in GoroutineStates /\ s.by = s0.by /\ s.errs = s0.errs
            /\ \/ s.pc = "watch"
               \/ /\ s.pc = "run" /\ s.cont \in s0.todo /\ s.todo = s0.todo \ {s.cont}
                  /\ s.idx \in First(s0.by[s.cont])
        BY <2>1, <2>3, NextContainerIs
      <3>2. s0.todo \subseteq Containers
        BY <2>3, StateFields
      <3> QED BY <2>3, <3>1, <3>2 DEF First
    <2>5. AtHook(k, s, runs[k])
      BY <1>2, <2>4 DEF AtHook
    <2>6. RunIsBehind(k, g[k], runs[k]) => RunIsBehind(k, s, runs[k])
      BY <1>6, <2>4, AheadIs, BehindStays
    <2>7. Moves(k, s, runs[k])
      BY <1>1, <1>2, <1>3, <1>5, <2>1, <2>4, <2>5, <2>6 DEF Moves
    <2> QED BY <1>3, <1>4, <2>7
  <1> QED BY <1>7, <1>8, <1>9

\* Time passes for a goroutine.
LEMMA TickMoves ==
    ASSUME TypeOK, HooksInv, NEW k \in Goroutines, Tick(k)
    PROVE  /\ LeavesWorker /\ w' = w /\ cancelled' = cancelled
           /\ \E s, r : Moves(k, s, r)
           /\ events' = events /\ succeeded' = succeeded /\ faults' = faults
  <1> DEFINE s == [g[k] EXCEPT !.age = g[k].age + 1]
  <1>1. /\ g \in [Goroutines -> GoroutineStates] /\ g[k] \in GoroutineStates
        /\ runs \in [Goroutines -> [HookIds -> 0..2]] /\ runs[k] \in [HookIds -> 0..2]
    BY TypesNow
  <1>2. g[k].pc \in {"watch", "run"} /\ g[k].age < MaxAge /\ AtHook(k, g[k], runs[k])
    BY AtHookNow DEF Tick
  <1>3. /\ LeavesWorker /\ w' = w /\ cancelled' = cancelled /\ runs' = runs
        /\ succeeded' = succeeded /\ events' = events /\ faults' = faults /\ wg' = wg
    BY DEF Tick, LeavesWorker, syncVars, clusterVars
  <1>4. g' = [g EXCEPT ![k] = s]
    BY <1>1 DEF Tick
  <1>5. g[k].age + 1 \in 0..MaxAge
    BY <1>1, <1>2, StateFields, StageAssumption
  <1>6. /\ s \in GoroutineStates /\ s.pc = g[k].pc /\ s.errs = g[k].errs /\ s.by = g[k].by
        /\ s.cont = g[k].cont /\ s.idx = g[k].idx /\ s.todo = g[k].todo
    BY <1>1, <1>5 DEF GoroutineStates
  <1> HIDE DEF s
  <1>7. AtHook(k, s, runs[k])
    BY <1>2, <1>6 DEF AtHook
  <1>8. Ahead(s) = Ahead(g[k])
    BY <1>6 DEF Ahead
  <1>9. RunIsBehind(k, g[k], runs[k]) => RunIsBehind(k, s, runs[k])
    BY <1>6, <1>8, BehindStays
  <1>10. runs' = [runs EXCEPT ![k] = runs[k]]
    BY <1>1, <1>3
  <1>11. Moves(k, s, runs[k])
    BY <1>1, <1>2, <1>3, <1>4, <1>6, <1>7, <1>9, <1>10 DEF Moves
  <1> QED BY <1>3, <1>11

\* One more error is sent; the goroutine is through after the last.
LEMMA SendErrMoves ==
    ASSUME TypeOK, HooksInv, NEW k \in Goroutines, SendErr(k)
    PROVE  /\ LeavesWorker /\ w.pc = "drain" /\ w' = [w EXCEPT !.failed = TRUE]
           /\ cancelled' = cancelled
           /\ \E s, r : Moves(k, s, r)
           /\ events' = events /\ succeeded' = succeeded /\ faults' = faults
  <1> DEFINE s == [g[k] EXCEPT !.errs = g[k].errs - 1,
                               !.pc = IF g[k].errs = 1 THEN "done" ELSE "send"]
  <1>1. /\ g \in [Goroutines -> GoroutineStates] /\ g[k] \in GoroutineStates
        /\ runs \in [Goroutines -> [HookIds -> 0..2]] /\ runs[k] \in [HookIds -> 0..2]
    BY TypesNow
  <1>2. g[k].pc = "send" /\ AtHook(k, g[k], runs[k])
    BY AtHookNow DEF SendErr
  <1>3. /\ LeavesWorker /\ cancelled' = cancelled /\ runs' = runs /\ succeeded' = succeeded
        /\ events' = events /\ faults' = faults /\ wg' = IF g[k].errs = 1 THEN wg - 1 ELSE wg
        /\ w.pc = "drain" /\ w' = [w EXCEPT !.failed = TRUE]
    BY DEF SendErr, LeavesWorker, clusterVars
  <1>4. w'.failed = TRUE
    <2>1. OtherTypes
      BY TypeParts
    <2>2. "failed" \in DOMAIN w
      BY <2>1 DEF OtherTypes
    <2> QED BY <1>3, <2>2
  <1>5. g[k].errs \in Nat /\ g[k].errs > 0
    BY <1>1, <1>2, StateFields DEF AtHook
  <1>6. g' = [g EXCEPT ![k] = s]
    BY <1>1 DEF SendErr
  <1>7. /\ s \in GoroutineStates /\ s.errs = g[k].errs - 1 /\ s.by = g[k].by
        /\ s.pc = IF g[k].errs = 1 THEN "done" ELSE "send"
    <2>1. g[k].errs - 1 \in Nat
      BY <1>5
    <2>2. (IF g[k].errs = 1 THEN "done" ELSE "send") \in {"done", "send"}
      OBVIOUS
    <2> QED BY <1>1, <2>1, <2>2 DEF GoroutineStates
  <1> HIDE DEF s
  <1>8. AtHook(k, s, runs[k])
    BY <1>2, <1>5, <1>7 DEF AtHook
  <1>9. runs' = [runs EXCEPT ![k] = runs[k]]
    BY <1>1, <1>3
  <1>10. Moves(k, s, runs[k])
    BY <1>1, <1>2, <1>3, <1>4, <1>6, <1>7, <1>8, <1>9 DEF Moves
  <1> QED BY <1>3, <1>10
\* A hook runs, or its time is over: it is behind, or it failed.
LEMMA ExecuteHookMoves ==
    ASSUME TypeOK, HooksInv, NEW k \in Goroutines, ExecuteHook(k)
    PROVE  /\ LeavesWorker /\ w' = w /\ cancelled' = cancelled
           /\ \E s, r : Moves(k, s, r)
           /\ events' = events /\ succeeded' \subseteq Pods \X HookIds /\ faults' = faults
  <1> DEFINE idx == g[k].idx
             h   == HookAt(k, idx)
             s   == [g[k] EXCEPT !.ran = g[k].ran \cup {idx}]
             ex  == h.wait # 0 /\ s.age > h.wait /\ h.fail
             r   == [runs[k] EXCEPT ![h.id] = IF runs[k][h.id] < 2 THEN runs[k][h.id] + 1
                                              ELSE runs[k][h.id]]
  <1>1. /\ g \in [Goroutines -> GoroutineStates] /\ g[k] \in GoroutineStates /\ spec \in HookLists
        /\ runs \in [Goroutines -> [HookIds -> 0..2]] /\ runs[k] \in [HookIds -> 0..2]
        /\ k[1] \in Pods /\ succeeded \subseteq Pods \X HookIds
    BY TypesNow
  <1>2. g[k].pc = "run" /\ AtHook(k, g[k], runs[k])
    BY AtHookNow DEF ExecuteHook
  <1>3. /\ LeavesWorker /\ w' = w /\ cancelled' = cancelled /\ events' = events
        /\ faults' = faults /\ wg' = wg
    BY DEF ExecuteHook, LeavesWorker, syncVars, clusterVars
  <1>4. /\ g[k].cont \in Containers \ g[k].todo /\ idx \in g[k].by[g[k].cont]
        /\ g[k].by[g[k].cont] \subseteq DOMAIN Candidates(spec, k[1])
    BY <1>2 DEF AtHook
  <1>5. /\ h.id \in HookIds /\ idx \in Nat
        /\ \A j \in DOMAIN Candidates(spec, k[1]) : HookAt(k, j).id = h.id => j = idx
    BY <1>1, <1>4, HookAtIs
  <1>6. /\ s \in GoroutineStates /\ s.pc = "run" /\ s.by = g[k].by /\ s.cont = g[k].cont
        /\ s.idx = idx /\ s.todo = g[k].todo /\ s.errs = g[k].errs
    <2>1. g[k].ran \cup {idx} \subseteq Nat
      BY <1>1, <1>5, StateFields
    <2> QED BY <1>1, <1>2, <2>1 DEF GoroutineStates
  <1>7. r \in [HookIds -> 0..2]
    <2>1. (IF runs[k][h.id] < 2 THEN runs[k][h.id] + 1 ELSE runs[k][h.id]) \in 0..2
      BY <1>1, <1>5
    <2> QED BY <1>1, <2>1
  <1>8. \/ /\ g' = [g EXCEPT ![k] = Failing(s)]
           /\ runs' = runs /\ succeeded' = succeeded
        \/ \E result \in {"ok", "error"} :
             /\ runs' = [runs EXCEPT ![k] = r]
             /\ succeeded' = succeeded \/ succeeded' = succeeded \cup {<<k[1], h.id>>}
             /\ \/ g' = [g EXCEPT ![k] = Failing(s)]
                \/ \E t \in HooksRun(s) : g' = [g EXCEPT ![k] = t]
    <2>1. ExecutePodCommand(k[1], h) \subseteq {"ok", "error"}
      BY DEF ExecutePodCommand
    <2>2. \/ g' = [g EXCEPT ![k] = Failing(s)] /\ runs' = runs /\ succeeded' = succeeded
          \/ \E result \in ExecutePodCommand(k[1], h) :
                /\ runs' = [runs EXCEPT ![k][h.id] = IF @ < 2 THEN @ + 1 ELSE @]
                /\ succeeded' = IF result = "ok" THEN succeeded \cup {<<k[1], h.id>>} ELSE succeeded
                /\ IF result = "error" /\ h.fail
                   THEN g' = [g EXCEPT ![k] = Failing(s)]
                   ELSE \E t \in HooksRun(s) : g' = [g EXCEPT ![k] = t]
      BY DEF ExecuteHook
    <2>3. [runs EXCEPT ![k][h.id] = IF @ < 2 THEN @ + 1 ELSE @] = [runs EXCEPT ![k] = r]
      BY <1>1, <1>5
    <2> HIDE DEF h, s, r
    <2> QED BY <2>1, <2>2, <2>3
  <1>9. succeeded' \subseteq Pods \X HookIds
    BY <1>1, <1>5, <1>8
  <1>10. runs' = [runs EXCEPT ![k] = runs[k]] \/ runs' = [runs EXCEPT ![k] = r]
    <2> HIDE DEF h, s, r
    <2> QED BY <1>1, <1>8
  <1> HIDE DEF h, s, r, idx
  <1>11. \A q \in [HookIds -> 0..2] :
            g' = [g EXCEPT ![k] = Failing(s)] /\ runs' = [runs EXCEPT ![k] = q]
                => Moves(k, Failing(s), q)
    <2> SUFFICES ASSUME NEW q \in [HookIds -> 0..2], g' = [g EXCEPT ![k] = Failing(s)],
                        runs' = [runs EXCEPT ![k] = q]
                 PROVE  Moves(k, Failing(s), q)
      OBVIOUS
    <2> DEFINE t == Failing(s)
    <2>1. t \in GoroutineStates /\ t.pc = "watch" /\ t.by = g[k].by /\ t.errs = g[k].errs + 1
      BY <1>6, FailingIs
    <2> HIDE DEF t
    <2>2. AtHook(k, t, q)
      BY <1>2, <2>1 DEF AtHook
    <2>3. t.errs # 0
      BY <1>1, <2>1, StateFields
    <2>4. RunIsBehind(k, t, q)
      BY <2>3 DEF RunIsBehind
    <2>5. g' = [g EXCEPT ![k] = t]
      BY DEF t
    <2>6. Moves(k, t, q)
      BY <1>2, <1>3, <2>1, <2>2, <2>4, <2>5 DEF Moves
    <2> QED BY <2>6 DEF t
  <1>12. ASSUME NEW t \in HooksRun(s), g' = [g EXCEPT ![k] = t], runs' = [runs EXCEPT ![k] = r]
         PROVE  Moves(k, t, r)
    <2>1. /\ t \in GoroutineStates /\ t.errs = g[k].errs /\ t.pc \in {"run", "watch"}
          /\ \/ /\ t.pc = "run" /\ t.by = g[k].by /\ t.cont = g[k].cont /\ t.todo = g[k].todo
                /\ t.idx \in First(Later(s))
             \/ /\ t.pc = "watch" /\ t.by = [g[k].by EXCEPT ![g[k].cont] = {}]
             \/ /\ t.pc = "run" /\ t.by = [g[k].by EXCEPT ![g[k].cont] = {}]
                /\ t.cont \in g[k].todo /\ t.todo = g[k].todo \ {t.cont}
                /\ t.idx \in First(t.by[t.cont])
      BY <1>4, <1>6, <1>12, HooksRunIs
    <2>2. /\ g[k].by \in [Containers -> SUBSET Nat] /\ g[k].todo \subseteq Containers
          /\ g[k].errs \in Nat
      BY <1>1, StateFields
    <2>3. AtHook(k, t, r)
      <3>1. \A c \in Containers : t.by[c] \subseteq g[k].by[c]
        BY <2>1, <2>2
      <3>2. \A c \in Containers :
                 /\ t.by[c] \subseteq DOMAIN Candidates(spec, k[1])
                 /\ \A d \in Containers : c # d => t.by[c] \cap t.by[d] = {}
        BY <1>2, <3>1 DEF AtHook
      <3>3. t.pc = "run" => t.cont \in Containers \ t.todo /\ t.idx \in t.by[t.cont]
        BY <1>4, <1>6, <2>1, <2>2 DEF First, Later
      <3> QED BY <2>1, <3>2, <3>3 DEF AtHook
    <2>4. Ahead(t) \subseteq Ahead(g[k]) \ {idx}
      <3> SUFFICES ASSUME NEW i \in Ahead(t) PROVE i \in Ahead(g[k]) /\ i # idx
        OBVIOUS
      <3>1. PICK c \in Containers : i \in t.by[c]
        BY DEF Ahead, HooksIn
      <3>2. ~(t.pc = "run" /\ i \in t.by[t.cont] /\ i < t.idx)
        BY DEF Ahead
      <3>3. i \in Nat /\ i \in g[k].by[c] /\ i \in HooksIn(g[k].by)
        BY <2>1, <2>2, <3>1 DEF HooksIn
      <3>4. CASE t.by = g[k].by
        <4>1. CASE t.pc = "run" /\ t.cont = g[k].cont /\ t.idx \in First(Later(s))
          <5>1. t.idx \in Nat /\ t.idx > idx
            BY <1>5, <1>6, <2>2, <1>4, <4>1 DEF First, Later
          <5>2. i \in g[k].by[g[k].cont] => i >= t.idx
            BY <3>2, <3>3, <3>4, <4>1, <5>1
          <5>3. i # idx
            BY <1>4, <1>5, <5>1, <5>2
          <5>4. ~(i \in g[k].by[g[k].cont] /\ i < g[k].idx)
            BY <1>5, <3>3, <5>1, <5>2 DEF idx
          <5> QED BY <3>3, <5>3, <5>4 DEF Ahead
        <4>2. CASE t.by = [g[k].by EXCEPT ![g[k].cont] = {}]
          <5>1. g[k].by[g[k].cont] = {}
            BY <1>4, <2>2, <3>4, <4>2
          <5> QED BY <1>4, <5>1
        <4> QED BY <2>1, <4>1, <4>2
      <3>5. CASE t.by = [g[k].by EXCEPT ![g[k].cont] = {}]
        <4>1. c # g[k].cont
          BY <1>4, <2>2, <3>1, <3>5
        <4>2. i \notin g[k].by[g[k].cont]
          BY <1>2, <1>4, <3>3, <4>1 DEF AtHook
        <4> QED BY <1>4, <3>3, <4>2 DEF Ahead
      <3> QED BY <2>1, <3>4, <3>5
    <2>5. RunIsBehind(k, g[k], runs[k]) => RunIsBehind(k, t, r)
      <3> SUFFICES ASSUME RunIsBehind(k, g[k], runs[k]), t.errs = 0, NEW i \in HookIds
                   PROVE  r[i] <= 1 /\ (r[i] = 1 => \A j \in Ahead(t) : HookAt(k, j).id # i)
        BY DEF RunIsBehind
      <3>1. /\ runs[k][i] <= 1
            /\ runs[k][i] = 1 => \A j \in Ahead(g[k]) : HookAt(k, j).id # i
        BY <2>1 DEF RunIsBehind
      <3>2. idx \in Ahead(g[k])
        BY <1>4, <1>5 DEF Ahead, HooksIn, idx
      <3>3. CASE i = h.id
        <4>1. runs[k][i] = 0
          BY <1>1, <3>1, <3>2, <3>3 DEF h
        <4>2. r[i] = 1
          BY <1>1, <3>3, <4>1 DEF r
        <4>3. \A j \in Ahead(t) : HookAt(k, j).id # i
          <5> SUFFICES ASSUME NEW j \in Ahead(t), HookAt(k, j).id = h.id PROVE FALSE
            BY <3>3
          <5>1. j \in HooksIn(g[k].by) /\ j # idx
            BY <2>4 DEF Ahead
          <5>2. j \in DOMAIN Candidates(spec, k[1])
            BY <1>2, <5>1 DEF AtHook, HooksIn
          <5> QED BY <1>5, <5>1, <5>2
        <4> QED BY <4>2, <4>3
      <3>4. CASE i # h.id
        <4>1. r[i] = runs[k][i]
          BY <1>1, <3>4 DEF r
        <4> QED BY <2>4, <3>1, <4>1
      <3> QED BY <3>3, <3>4
    <2> QED BY <1>2, <1>3, <1>7, <1>12, <2>1, <2>3, <2>5 DEF Moves
  <1>13. \E t, q : Moves(k, t, q)
    BY <1>1, <1>7, <1>8, <1>10, <1>11, <1>12
  <1> QED BY <1>3, <1>9, <1>13
\* What did not run is counted, and what no container has is behind.
LEMMA HooksEndMoves ==
    ASSUME TypeOK, HooksInv, NEW k \in Goroutines, HooksEnd(k)
    PROVE  /\ LeavesWorker /\ w' = w /\ cancelled' \in {cancelled, TRUE}
           /\ \E s, r : Moves(k, s, r)
           /\ events' \in [Goroutines -> Seq(Versions)] /\ succeeded' = succeeded
           /\ faults' = faults
  <1> DEFINE errs == g[k].errs + Cardinality(Missed(k))
             s    == [NoGoroutine EXCEPT !.pc = "send", !.errs = errs]
             t    == [NoGoroutine EXCEPT !.pc = "done"]
  <1>1. /\ g \in [Goroutines -> GoroutineStates] /\ g[k] \in GoroutineStates /\ spec \in HookLists
        /\ runs \in [Goroutines -> [HookIds -> 0..2]] /\ runs[k] \in [HookIds -> 0..2]
        /\ events \in [Goroutines -> Seq(Versions)] /\ k[1] \in Pods
    BY TypesNow
  <1>2. g[k].pc \in {"ending", "watch"} /\ AtHook(k, g[k], runs[k])
    BY AtHookNow DEF HooksEnd
  <1>3. /\ LeavesWorker /\ w' = w /\ runs' = runs /\ succeeded' = succeeded /\ faults' = faults
    BY DEF HooksEnd, LeavesWorker
  <1>4. events' \in [Goroutines -> Seq(Versions)]
    <2>1. <<>> \in Seq(Versions)
      OBVIOUS
    <2>2. events' = [events EXCEPT ![k] = <<>>]
      BY DEF HooksEnd
    <2> QED BY <1>1, <2>1, <2>2
  <1>5. Cardinality(Missed(k)) \in Nat
    <2>1. Missed(k) \subseteq DOMAIN Candidates(spec, k[1])
      BY <1>2 DEF Missed, HooksIn, AtHook
    <2>2. Candidates(spec, k[1]) \in Seq(Hooks)
      BY <1>1, CandidatesAre
    <2>3. DOMAIN Candidates(spec, k[1]) = 1..Len(Candidates(spec, k[1]))
          /\ Len(Candidates(spec, k[1])) \in Nat
      BY <2>2
    <2>4. IsFiniteSet(1..Len(Candidates(spec, k[1])))
      BY <2>3, FS_Interval
    <2> QED BY <2>1, <2>3, <2>4, FS_Subset, FS_CardinalityType
  <1>6. errs \in Nat /\ g[k].errs \in Nat
    BY <1>1, <1>5, StateFields
  <1>7. runs' = [runs EXCEPT ![k] = runs[k]]
    BY <1>1, <1>3
  <1>8. IF errs > 0
        THEN g' = [g EXCEPT ![k] = s] /\ cancelled' = TRUE /\ wg' = wg
        ELSE g' = [g EXCEPT ![k] = t] /\ cancelled' = cancelled /\ wg' = wg - 1
    BY DEF HooksEnd
  <1>9. CASE errs > 0
    <2>1. s \in GoroutineStates /\ s.pc = "send" /\ s.errs = errs /\ s.by = [c \in Containers |-> {}]
      <3> HIDE DEF errs
      <3> QED BY <1>6, NoGoroutineType DEF NoGoroutine, GoroutineStates
    <2>2. g' = [g EXCEPT ![k] = s] /\ cancelled' = TRUE /\ wg' = wg
      BY <1>8, <1>9
    <2> HIDE DEF s, errs
    <2>3. AtHook(k, s, runs[k])
      BY <1>9, <2>1 DEF AtHook
    <2>4. RunIsBehind(k, s, runs[k])
      BY <1>6, <1>9, <2>1 DEF RunIsBehind
    <2>5. Moves(k, s, runs[k])
      BY <1>1, <1>2, <1>7, <2>1, <2>2, <2>3, <2>4 DEF Moves
    <2> QED BY <1>3, <1>4, <2>2, <2>5
  <1>10. CASE errs = 0
    <2>1. t \in GoroutineStates /\ t.pc = "done" /\ t.errs = 0 /\ t.by = [c \in Containers |-> {}]
      BY NoGoroutineType DEF NoGoroutine, GoroutineStates
    <2>2. g' = [g EXCEPT ![k] = t] /\ cancelled' = cancelled /\ wg' = wg - 1
      BY <1>8, <1>10
    <2>3. g[k].errs = 0
      BY <1>5, <1>6, <1>10
    <2> HIDE DEF t, errs
    <2>4. AtHook(k, t, runs[k])
      BY <2>1 DEF AtHook
    <2>5. Ahead(t) \subseteq Ahead(g[k])
      <3>1. HooksIn(t.by) = {}
        BY <2>1 DEF HooksIn
      <3> QED BY <3>1, AheadIs
    <2>6. RunIsBehind(k, g[k], runs[k]) => RunIsBehind(k, t, runs[k])
      BY <2>1, <2>3, <2>5, BehindStays
    <2>7. Moves(k, t, runs[k])
      BY <1>1, <1>2, <1>7, <2>1, <2>2, <2>4, <2>6 DEF Moves
    <2> QED BY <1>3, <1>4, <2>2, <2>7
  <1>11. errs > 0 \/ errs = 0
    <2> HIDE DEF errs
    <2> QED BY <1>6
  <1> HIDE DEF errs
  <1> QED BY <1>9, <1>10, <1>11

-----------------------------------------------------------------------------
(* What the steps of a goroutine keep *)

\* A goroutine that is not through counts; one that is through counts no more.
LEMMA CountIs ==
    ASSUME NEW k \in Goroutines, NEW s, g \in [Goroutines -> GoroutineStates],
           g' = [g EXCEPT ![k] = s], g[k].pc \notin {"none", "done"}, s.pc # "none"
    PROVE  /\ Cardinality(Active) \in Nat /\ Cardinality(Active)' \in Nat
           /\ Cardinality(Active) > 0
           /\ Cardinality(Active)' = IF s.pc = "done" THEN Cardinality(Active) - 1
                                     ELSE Cardinality(Active)
  <1>1. Active \in SUBSET Goroutines /\ Active' \in SUBSET Goroutines
    BY DEF Active
  <1>2. k \in Active
    BY DEF Active
  <1>3. IsFiniteSet(Active) /\ Cardinality(Active) \in Nat
    BY <1>1, SomeGoroutines
  <1>4. Cardinality(Active) # 0
    BY <1>2, <1>3, FS_EmptySet
  <1>5. CASE s.pc = "done"
    <2>1. Active' = Active \ {k}
      BY <1>5 DEF Active
    <2>2. Cardinality(Active \ {k}) = Cardinality(Active) - 1
      BY <1>2, <1>3, FS_RemoveElement
    <2> QED BY <1>3, <1>4, <1>5, <2>1, <2>2
  <1>6. CASE s.pc # "done"
    <2>1. Active' = Active
      BY <1>6 DEF Active
    <2> QED BY <1>3, <1>4, <1>6, <2>1
  <1> QED BY <1>5, <1>6

\* The steps of the goroutines keep the count, the states and what is behind them.
LEMMA MovesKeeps ==
    ASSUME IInv, NEW k \in Goroutines, NEW s, NEW r, Moves(k, s, r), LeavesWorker,
           w' = w \/ (w.pc = "drain" /\ w' = [w EXCEPT !.failed = TRUE]),
           cancelled' \in {cancelled, TRUE},
           events' \in [Goroutines -> Seq(Versions)], succeeded' \subseteq Pods \X HookIds,
           faults' \in 0..MaxFaults
    PROVE  IInv'
  <1>1. /\ OtherTypes /\ FlagTypes /\ ClusterTypes /\ GoroutineTypes /\ FaultTypes
        /\ wg \in 0..(Cardinality(Goroutines) + 1)
    BY TypeParts DEF IInv
  <1>2. /\ g \in [Goroutines -> GoroutineStates] /\ runs \in [Goroutines -> [HookIds -> 0..2]]
    BY <1>1 DEF GoroutineTypes
  <1>3. /\ s \in GoroutineStates /\ r \in [HookIds -> 0..2]
        /\ g' = [g EXCEPT ![k] = s] /\ runs' = [runs EXCEPT ![k] = r]
        /\ g[k].pc \notin {"none", "done"} /\ s.pc \notin {"none", "group"}
        /\ wg' = IF s.pc = "done" THEN wg - 1 ELSE wg
    BY DEF Moves
  <1>4. /\ w'.pc = w.pc /\ w'.next = w.next /\ w'.failed \in BOOLEAN
        /\ DOMAIN w' = DOMAIN w /\ (w.failed => w'.failed)
        /\ w'.failed # w.failed => w.pc = "drain"
    <2>1. DOMAIN w = {"pc", "next", "failed", "col", "ext"} /\ w.failed \in BOOLEAN
      BY <1>1 DEF OtherTypes
    <2>2. CASE w' = w
      BY <2>1, <2>2
    <2>3. CASE w.pc = "drain" /\ w' = [w EXCEPT !.failed = TRUE]
      BY <2>1, <2>3
    <2> QED BY <2>2, <2>3
  <1>5. /\ Cardinality(Active) \in Nat /\ Cardinality(Active)' \in Nat /\ Cardinality(Active) > 0
        /\ Cardinality(Active)' = IF s.pc = "done" THEN Cardinality(Active) - 1
                                  ELSE Cardinality(Active)
    BY <1>2, <1>3, CountIs
  <1>6. Counted /\ StartedOnce /\ ClosedLast
    BY DEF IInv, CountInv
  <1>7. Listing' = Listing
    BY <1>4 DEF Listing
  <1>8. Counted'
    <2>1. wg = Cardinality(Active) + IF Listing THEN 1 ELSE 0
      BY <1>6 DEF Counted
    <2>2. wg' = Cardinality(Active)' + IF Listing' THEN 1 ELSE 0
      BY <1>3, <1>5, <1>7, <2>1
    <2> QED BY <2>2 DEF Counted
  <1>9. wg' \in 0..(Cardinality(Goroutines) + 1)
    <2>1. wg > 0 /\ wg \in Nat /\ Cardinality(Goroutines) \in Nat
      BY <1>1, <1>5, <1>6, GoroutinesFinite, FS_CardinalityType DEF Counted
    <2> QED BY <1>1, <1>3, <2>1
  <1>10. StartedOnce'
    <2>1. \A j \in Goroutines : g'[j].pc # "none" => j[2] < w'.next
      BY <1>2, <1>3, <1>4, <1>6 DEF StartedOnce
    <2>2. (Existing \cap Workloads \subseteq present)'
      BY <1>6 DEF StartedOnce, LeavesWorker
    <2>3. Listing' => /\ w'.next <= Len(Resources) /\ Resources[w'.next].kind = "Workload"
      BY <1>4, <1>6, <1>7 DEF StartedOnce
    <2> QED BY <2>1, <2>2, <2>3 DEF StartedOnce
  <1>11. ClosedLast'
    <2>1. ~closed
      BY <1>1, <1>5, <1>6 DEF ClosedLast, Counted
    <2>2. closed' = closed /\ closer' = closer
      BY DEF LeavesWorker
    <2> QED BY <1>4, <1>6, <2>1, <2>2 DEF ClosedLast
  <1>12. HooksInv'
    <2> SUFFICES ASSUME NEW j \in Goroutines
                 PROVE  /\ AtHook(j, g[j], runs[j])'
                        /\ ~w'.failed => RunIsBehind(j, g[j], runs[j])'
      BY DEF HooksInv
    <2>1. AtHook(j, g[j], runs[j]) /\ (~w.failed => RunIsBehind(j, g[j], runs[j]))
      BY DEF IInv, HooksInv
    <2>2. spec' = spec
      BY DEF LeavesWorker
    <2>3. CASE j = k
      <3>1. g'[j] = s /\ runs'[j] = r
        BY <1>2, <1>3, <2>3
      <3>2. AtHook(j, s, r)
        BY <2>3 DEF Moves
      <3>3. ~w'.failed => RunIsBehind(j, s, r)
        BY <1>4, <2>1, <2>3 DEF Moves
      <3> QED BY <2>2, <3>1, <3>2, <3>3 DEF AtHook, RunIsBehind, HookAt
    <2>4. CASE j # k
      <3>1. g'[j] = g[j] /\ runs'[j] = runs[j]
        BY <1>2, <1>3, <2>4
      <3> QED BY <1>4, <2>1, <2>2, <3>1 DEF AtHook, RunIsBehind, HookAt
    <2> QED BY <2>3, <2>4
  <1>13. OtherTypes'
    BY <1>1, <1>4 DEF OtherTypes, LeavesWorker
  <1>14. FlagTypes'
    BY <1>1 DEF FlagTypes, LeavesWorker
  <1>15. ClusterTypes'
    BY <1>1 DEF ClusterTypes, LeavesWorker
  <1>16. GoroutineTypes'
    BY <1>2, <1>3 DEF GoroutineTypes
  <1>17. FaultTypes'
    BY <1>1 DEF FaultTypes, LeavesWorker
  <1>18. TypeOK'
    BY <1>9, <1>13, <1>14, <1>15, <1>16, <1>17, TypePartsNext
  <1> QED BY <1>8, <1>10, <1>11, <1>12, <1>18 DEF IInv, CountInv
-----------------------------------------------------------------------------
(* What the worker, the watchers and the cluster keep *)

\* What a goroutine has run stays behind it while it does not step.
LEMMA HooksStay ==
    ASSUME IInv, UNCHANGED <<spec, g, runs>>, w'.failed = w.failed
    PROVE  HooksInv'
  <1> SUFFICES ASSUME NEW k \in Goroutines
               PROVE  /\ AtHook(k, g[k], runs[k])'
                      /\ ~w'.failed => RunIsBehind(k, g[k], runs[k])'
    BY DEF HooksInv
  <1>1. AtHook(k, g[k], runs[k]) /\ (~w.failed => RunIsBehind(k, g[k], runs[k]))
    BY DEF IInv, HooksInv
  <1>2. g'[k] = g[k] /\ runs'[k] = runs[k] /\ spec' = spec
    OBVIOUS
  <1>3. AtHook(k, g[k], runs[k])'
    BY <1>1, <1>2 DEF AtHook
  <1>4. RunIsBehind(k, g[k], runs[k]) => RunIsBehind(k, g[k], runs[k])'
    BY <1>2 DEF RunIsBehind, HookAt, Ahead
  <1> QED BY <1>1, <1>3, <1>4

\* The wait group is bounded by what it counts.
LEMMA CountBounds ==
    ASSUME Counted'
    PROVE  wg' \in 0..(Cardinality(Goroutines) + 1)
  <1>1. Active' \in SUBSET Goroutines
    BY DEF Active
  <1>2. /\ Cardinality(Active') \in Nat /\ Cardinality(Goroutines) \in Nat
        /\ Cardinality(Active') <= Cardinality(Goroutines)
    BY <1>1, SomeGoroutines
  <1>3. wg' = Cardinality(Active') + IF Listing' THEN 1 ELSE 0
    BY DEF Counted
  <1> QED BY <1>2, <1>3

\* The unit of the wait group that belongs to the workload whose pods are to be listed.
Unit == IF Listing THEN 1 ELSE 0

\* Whatever leaves the goroutines alone moves the wait group with that unit.
LEMMA QuietKeeps ==
    ASSUME IInv, OtherTypes', FlagTypes', ClusterTypes', FaultTypes',
           UNCHANGED <<spec, g, runs, succeeded>>, events' \in [Goroutines -> Seq(Versions)],
           w'.failed = w.failed, w'.next >= w.next, wg' = wg + Unit' - Unit,
           Existing \cap Workloads \subseteq present',
           Listing' => /\ w'.next <= Len(Resources) /\ Resources[w'.next].kind = "Workload",
           ClosedLast'
    PROVE  IInv'
  <1>1. OtherTypes /\ GoroutineTypes /\ wg \in Nat
    BY TypeParts DEF IInv
  <1>2. Counted /\ StartedOnce
    BY DEF IInv, CountInv
  <1>3. Counted'
    <2>1. Active' = Active
      BY DEF Active
    <2>2. Cardinality(Active) \in Nat
      BY SomeGoroutines DEF Active
    <2>3. wg = Cardinality(Active) + Unit /\ Unit \in {0, 1} /\ Unit' \in {0, 1}
      BY <1>2 DEF Counted, Unit
    <2>4. wg' = Cardinality(Active) + Unit'
      BY <2>2, <2>3
    <2> QED BY <2>1, <2>4 DEF Counted, Unit
  <1>4. StartedOnce'
    <2>1. \A k \in Goroutines : g'[k].pc # "none" => k[2] < w'.next
      <3> SUFFICES ASSUME NEW k \in Goroutines, g[k].pc # "none" PROVE k[2] < w'.next
        OBVIOUS
      <3>1. k[2] < w.next /\ k[2] \in 1..Len(Resources)
        BY <1>2, GoroutineIs DEF StartedOnce
      <3>2. w.next \in Nat /\ w'.next \in Nat /\ Len(Resources) \in Nat
        BY <1>1, StageAssumption DEF OtherTypes
      <3> QED BY <3>1, <3>2
    <2> QED BY <2>1 DEF StartedOnce
  <1>5. GoroutineTypes'
    BY <1>1 DEF GoroutineTypes
  <1>6. TypeOK'
    BY <1>3, <1>5, CountBounds, TypePartsNext
  <1> QED BY <1>3, <1>4, <1>6, HooksStay DEF IInv, CountInv

\* The pods of a resource, as goroutines, are as many.
LEMMA StartedAre ==
    ASSUME NEW n \in DOMAIN Resources, NEW pods \in SUBSET PodsOfResource(n),
           pods \subseteq Pods
    PROVE  LET new == {k \in Goroutines : k[2] = n /\ k[1] \in pods}
           IN  IsFiniteSet(new) /\ Cardinality(new) = Cardinality(pods)
  <1> DEFINE new == {k \in Goroutines : k[2] = n /\ k[1] \in pods}
             f   == [p \in pods |-> <<p, n>>]
  <1>1. \A p \in pods : <<p, n>> \in new
    BY GoroutineAssumption
  <1>2. \A k \in new : k[1] \in pods /\ k = <<k[1], n>>
    BY GoroutineIs
  <1> HIDE DEF new
  <1>3. f \in [pods -> new] /\ \A p \in pods : f[p] = <<p, n>>
    BY <1>1
  <1> HIDE DEF f
  <1>4. f \in Injection(pods, new)
    BY <1>3 DEF Injection, IsInjective
  <1>5. f \in Surjection(pods, new)
    BY <1>2, <1>3 DEF Surjection
  <1>6. ExistsBijection(pods, new)
    BY <1>4, <1>5 DEF ExistsBijection, Bijection
  <1>7. IsFiniteSet(pods)
    BY ClusterAssumption, FS_Subset
  <1>8. IsFiniteSet(new) /\ Cardinality(new) = Cardinality(pods)
    BY <1>6, <1>7, FS_Bijection
  <1> QED BY <1>8 DEF new

\* The sizes of disjoint sets add up.
LEMMA DisjointUnion ==
    ASSUME NEW S, NEW T, IsFiniteSet(S), IsFiniteSet(T), S \cap T = {}
    PROVE  Cardinality(S \cup T) = Cardinality(S) + Cardinality(T)
  <1>1. Cardinality(S) \in Nat /\ Cardinality(T) \in Nat
    BY FS_CardinalityType
  <1>2. Cardinality(S \cup T) = Cardinality(S) + Cardinality(T) - Cardinality(S \cap T)
    BY FS_Union
  <1>3. Cardinality(S \cap T) = 0
    BY FS_EmptySet
  <1> QED BY <1>1, <1>2, <1>3

\* The goroutines started are counted before they run.
LEMMA StartsKeep ==
    ASSUME IInv, FlagTypes', ClusterTypes', FaultTypes',
           w.pc \in {"apply", "await", "relist"}, w.next <= Len(Resources),
           NEW pods \in SUBSET PodsOfResource(w.next), pods \subseteq Pods,
           waitExec(pods, Unit), NextResource, Existing \cap Workloads \subseteq present',
           UNCHANGED <<spec, closed, closer, events, runs, succeeded>>
    PROVE  IInv'
  <1> DEFINE n   == w.next
             new == {k \in Goroutines : k[2] = n /\ k[1] \in pods}
             s   == [NoGoroutine EXCEPT !.pc = "group"]
  <1>1. OtherTypes /\ GoroutineTypes /\ wg \in Nat
    BY TypeParts DEF IInv
  <1>2. Counted /\ StartedOnce /\ ClosedLast /\ HooksInv
    BY DEF IInv, CountInv
  <1>3. n \in 1..Len(Resources) /\ n \in DOMAIN Resources /\ Len(Resources) \in Nat
    BY <1>1, StageAssumption DEF OtherTypes
  <1>4. /\ w'.pc = "apply" /\ w'.next = n + 1 /\ w'.failed = w.failed /\ DOMAIN w' = DOMAIN w
        /\ w.failed \in BOOLEAN
    BY <1>1 DEF NextResource, OtherTypes
  <1>5. s \in GoroutineStates /\ s.pc = "group" /\ s.errs = 0 /\ s.by = [c \in Containers |-> {}]
    BY NoGoroutineType DEF NoGoroutine, GoroutineStates
  <1>6. /\ wg' = (wg + Cardinality(pods)) - Unit
        /\ g' = [k \in Goroutines |-> IF k[2] = n /\ k[1] \in pods THEN s ELSE g[k]]
    BY DEF waitExec
  <1>7. \A k \in Goroutines : g'[k] = IF k \in new THEN s ELSE g[k]
    BY <1>6
  <1>8. \A k \in new : k \in Goroutines /\ g[k].pc = "none"
    <2> SUFFICES ASSUME NEW k \in new, g[k].pc # "none" PROVE FALSE
      OBVIOUS
    <2>1. k[2] < n /\ k[2] = n
      BY <1>2 DEF StartedOnce
    <2> QED BY <1>3, <2>1
  <1>9. IsFiniteSet(new) /\ Cardinality(new) = Cardinality(pods)
    BY <1>3, StartedAre
  <1> HIDE DEF new, s, n
  <1>10. g' \in [Goroutines -> GoroutineStates]
    BY <1>1, <1>5, <1>6 DEF GoroutineTypes
  <1>11. ~Listing'
    BY <1>4 DEF Listing
  <1>12. Counted'
    <2>1. Active' = Active \cup new /\ Active \cap new = {}
      BY <1>5, <1>7, <1>8 DEF Active
    <2>2. IsFiniteSet(Active) /\ Cardinality(Active) \in Nat
      BY SomeGoroutines DEF Active
    <2>3. Cardinality(new) \in Nat
      BY <1>9, FS_CardinalityType
    <2>4. Cardinality(Active \cup new) = Cardinality(Active) + Cardinality(new)
      BY <1>9, <2>1, <2>2, DisjointUnion
    <2>5. wg = Cardinality(Active) + Unit /\ Unit \in {0, 1}
      BY <1>2 DEF Counted, Unit
    <2>6. wg' = Cardinality(Active) + Cardinality(new)
      BY <1>6, <1>9, <2>2, <2>3, <2>5
    <2> QED BY <1>11, <2>1, <2>2, <2>3, <2>4, <2>6 DEF Counted
  <1>13. StartedOnce'
    <2>1. \A k \in Goroutines : g'[k].pc # "none" => k[2] < w'.next
      <3> SUFFICES ASSUME NEW k \in Goroutines, g'[k].pc # "none" PROVE k[2] < n + 1
        BY <1>4
      <3>1. k \in new => k[2] = n
        BY DEF new
      <3>2. k \notin new => k[2] < n
        BY <1>2, <1>7 DEF StartedOnce, n
      <3>3. k[2] \in Nat /\ n \in Nat
        BY <1>3, GoroutineIs
      <3> QED BY <3>1, <3>2, <3>3
    <2> QED BY <1>11, <2>1 DEF StartedOnce
  <1>14. ClosedLast'
    <2>1. closer = "none" /\ ~w.failed /\ ~closed
      BY <1>2 DEF ClosedLast
    <2> QED BY <1>4, <2>1 DEF ClosedLast
  <1>15. HooksInv'
    <2> SUFFICES ASSUME NEW k \in Goroutines
                 PROVE  /\ AtHook(k, g[k], runs[k])'
                        /\ ~w'.failed => RunIsBehind(k, g[k], runs[k])'
      BY DEF HooksInv
    <2>1. AtHook(k, g[k], runs[k]) /\ (~w.failed => RunIsBehind(k, g[k], runs[k]))
      BY <1>2 DEF HooksInv
    <2>2. CASE k \in new
      <3>1. \A i \in HookIds : runs[k][i] = 0
        BY <1>8, <2>1, <2>2 DEF AtHook
      <3>2. g'[k] = s /\ runs'[k] = runs[k]
        BY <1>7, <2>2
      <3>3. AtHook(k, s, runs[k])' /\ RunIsBehind(k, s, runs[k])'
        BY <1>5, <3>1 DEF AtHook, RunIsBehind
      <3> QED BY <3>2, <3>3
    <2>3. CASE k \notin new
      <3>1. g'[k] = g[k]
        BY <1>7, <2>3
      <3> QED BY <1>4, <2>1, <3>1 DEF AtHook, RunIsBehind, HookAt
    <2> QED BY <2>2, <2>3
  <1>16. OtherTypes'
    <2>1. w'.next \in 1..(Len(Resources) + 1)
      BY <1>3, <1>4
    <2> QED BY <1>1, <1>4, <2>1 DEF OtherTypes
  <1>17. GoroutineTypes'
    BY <1>1, <1>10 DEF GoroutineTypes
  <1>18. TypeOK'
    BY <1>12, <1>16, <1>17, CountBounds, TypePartsNext
  <1> QED BY <1>12, <1>13, <1>14, <1>15, <1>18 DEF IInv, CountInv
-----------------------------------------------------------------------------
(* One lemma per step of the worker *)

\* A stage that fails keeps what it knows of the errors.
LEMMA StageFailsIs ==
    ASSUME OtherTypes, StageFails(w)
    PROVE  w'.pc = "failed" /\ w'.next = w.next /\ w'.failed = w.failed /\ DOMAIN w' = DOMAIN w
  BY DEF OtherTypes, StageFails

\* The worker goes on to the next resource.
LEMMA NextResourceIs ==
    ASSUME OtherTypes, NextResource, w.next <= Len(Resources)
    PROVE  /\ w'.pc = "apply" /\ w'.next = w.next + 1 /\ w'.failed = w.failed
           /\ DOMAIN w' = DOMAIN w /\ w'.next \in 1..(Len(Resources) + 1) /\ w'.next >= w.next
  <1>1. /\ w'.pc = "apply" /\ w'.next = w.next + 1 /\ w'.failed = w.failed /\ DOMAIN w' = DOMAIN w
    BY DEF OtherTypes, NextResource
  <1>2. w.next \in 1..(Len(Resources) + 1) /\ Len(Resources) \in Nat
    BY StageAssumption DEF OtherTypes
  <1> QED BY <1>1, <1>2

\* A call of the worker that starts nothing and waits for nothing.
LEMMA CallKeeps ==
    ASSUME IInv, UNCHANGED <<spec, syncVars, watcher, clusterVars, g, runs, succeeded, inits>>,
           faults' \in 0..MaxFaults, DOMAIN w' = DOMAIN w, w'.failed = w.failed,
           w'.pc \in {"apply", "drain", "external", "completed", "failed"}, ~Listing,
           w'.next \in 1..(Len(Resources) + 1), w'.next >= w.next,
           w.pc \in {"drain", "external"} => w'.pc # "apply",
           w'.pc = "drain" => w.pc = "drain",
           w.pc = "drain" /\ w'.failed => w'.pc = "failed",
           w.pc \in {"collect", "apply", "drain", "external"}
    PROVE  IInv'
  <1>1. OtherTypes /\ FlagTypes /\ ClusterTypes /\ GoroutineTypes /\ FaultTypes /\ wg \in Nat
    BY TypeParts DEF IInv
  <1>2. StartedOnce /\ ClosedLast
    BY DEF IInv, CountInv
  <1>3. ~Listing' /\ Unit = 0 /\ Unit' = 0
    BY DEF Listing, Unit
  <1>4. OtherTypes' /\ FlagTypes' /\ ClusterTypes' /\ FaultTypes'
    BY <1>1 DEF OtherTypes, FlagTypes, ClusterTypes, FaultTypes, syncVars, clusterVars
  <1>5. events' \in [Goroutines -> Seq(Versions)]
    BY <1>1 DEF GoroutineTypes, clusterVars
  <1>6. wg' = wg + Unit' - Unit
    BY <1>1, <1>3 DEF syncVars
  <1>7. Existing \cap Workloads \subseteq present'
    BY <1>2 DEF StartedOnce, clusterVars
  <1>8. ClosedLast'
    BY <1>2 DEF ClosedLast, syncVars
  <1> QED BY <1>3, <1>4, <1>5, <1>6, <1>7, <1>8, QuietKeeps

\* collectAllRestoreHooksPods
LEMMA CollectKeeps ==
    ASSUME IInv, collectAllRestoreHooksPods
    PROVE  IInv'
  <1>1. OtherTypes /\ FaultTypes
    BY TypeParts DEF IInv
  <1>2. /\ UNCHANGED <<spec, syncVars, watcher, clusterVars, g, runs, succeeded, inits>>
        /\ w.pc = "collect" /\ ~Listing
    BY DEF collectAllRestoreHooksPods, Listing
  <1>3. CASE Fault /\ StageFails(w)
    <2>1. w'.pc = "failed" /\ w'.next = w.next /\ w'.failed = w.failed /\ DOMAIN w' = DOMAIN w
      BY <1>1, <1>3, StageFailsIs
    <2>2. faults' \in 0..MaxFaults
      BY <1>1, <1>3, FaultIs
    <2>3. w.next \in 1..(Len(Resources) + 1)
      BY <1>1 DEF OtherTypes
    <2> QED BY <1>2, <2>1, <2>2, <2>3, CallKeeps
  <1>4. CASE ~(Fault /\ StageFails(w))
    <2>1. \E lost \in Losses, order \in NamespaceOrders :
            /\ Lose(lost)
            /\ w' = [w EXCEPT !.pc = "apply", !.col = [i \in DOMAIN spec |->
                        [n \in DOMAIN order[i] |->
                            GetAllPodsForNamespace(present, order[i][n], spec[i], lost)]]]
      BY <1>4 DEF collectAllRestoreHooksPods
    <2>2. PICK lost \in Losses :
            /\ Lose(lost)
            /\ \E col : w' = [w EXCEPT !.pc = "apply", !.col = col]
      BY <2>1
    <2>3. PICK col : w' = [w EXCEPT !.pc = "apply", !.col = col]
      BY <2>2
    <2>4. faults' \in 0..MaxFaults
      BY <1>1, <2>2, LoseIs
    <2>5. w'.pc = "apply" /\ w'.next = w.next /\ w'.failed = w.failed /\ DOMAIN w' = DOMAIN w
      BY <1>1, <2>3 DEF OtherTypes
    <2>6. w.next \in 1..(Len(Resources) + 1)
      BY <1>1 DEF OtherTypes
    <2> QED BY <1>2, <2>4, <2>5, <2>6, CallKeeps
  <1> QED BY <1>3, <1>4

\* ApplyExisting and ApplyOther
LEMMA SkipKeeps ==
    ASSUME IInv, ApplyExisting \/ ApplyOther
    PROVE  IInv'
  <1>1. OtherTypes /\ FaultTypes
    BY TypeParts DEF IInv
  <1>2. /\ UNCHANGED <<spec, syncVars, watcher, clusterVars, g, runs, succeeded, inits, faults>>
        /\ w.pc = "apply" /\ w.next <= Len(Resources) /\ NextResource /\ ~Listing
    BY DEF ApplyExisting, ApplyOther, Applying, Listing
  <1>3. /\ w'.pc = "apply" /\ w'.next = w.next + 1 /\ w'.failed = w.failed
        /\ DOMAIN w' = DOMAIN w /\ w'.next \in 1..(Len(Resources) + 1) /\ w'.next >= w.next
    BY <1>1, <1>2, NextResourceIs
  <1>4. faults' \in 0..MaxFaults
    BY <1>1, <1>2 DEF FaultTypes
  <1> QED BY <1>2, <1>3, <1>4, CallKeeps

\* ApplyFails
LEMMA ApplyFailsKeeps ==
    ASSUME IInv, ApplyFails
    PROVE  IInv'
  <1>1. OtherTypes /\ FaultTypes
    BY TypeParts DEF IInv
  <1>2. /\ UNCHANGED <<spec, syncVars, watcher, clusterVars, g, runs, succeeded, inits>>
        /\ w.pc = "apply" /\ StageFails(w) /\ Fault /\ ~Listing
    BY DEF ApplyFails, Applying, Listing
  <1>3. w'.pc = "failed" /\ w'.next = w.next /\ w'.failed = w.failed /\ DOMAIN w' = DOMAIN w
    BY <1>1, <1>2, StageFailsIs
  <1>4. faults' \in 0..MaxFaults
    BY <1>1, <1>2, FaultIs
  <1>5. w.next \in 1..(Len(Resources) + 1)
    BY <1>1 DEF OtherTypes
  <1> QED BY <1>2, <1>3, <1>4, <1>5, CallKeeps

\* HooksErrsClosed
LEMMA ErrsClosedKeeps ==
    ASSUME IInv, HooksErrsClosed
    PROVE  IInv'
  <1>1. OtherTypes /\ FaultTypes
    BY TypeParts DEF IInv
  <1>2. /\ UNCHANGED <<spec, syncVars, watcher, clusterVars, g, runs, succeeded, inits, faults>>
        /\ w.pc = "drain" /\ ~Listing
    BY DEF HooksErrsClosed, Listing
  <1>3. faults' \in 0..MaxFaults /\ w.next \in 1..(Len(Resources) + 1)
    BY <1>1, <1>2 DEF FaultTypes, OtherTypes
  <1>4. CASE w.failed
    <2>1. StageFails(w)
      BY <1>4 DEF HooksErrsClosed
    <2>2. w'.pc = "failed" /\ w'.next = w.next /\ w'.failed = w.failed /\ DOMAIN w' = DOMAIN w
      BY <1>1, <2>1, StageFailsIs
    <2> QED BY <1>2, <1>3, <2>2, CallKeeps
  <1>5. CASE ~w.failed
    <2>1. \E ext : w' = [w EXCEPT !.pc = "external", !.col = <<>>, !.ext = ext]
      BY <1>5 DEF HooksErrsClosed
    <2>2. PICK ext : w' = [w EXCEPT !.pc = "external", !.col = <<>>, !.ext = ext]
      BY <2>1
    <2>3. w'.pc = "external" /\ w'.next = w.next /\ w'.failed = w.failed /\ DOMAIN w' = DOMAIN w
      BY <1>1, <2>2 DEF OtherTypes
    <2> QED BY <1>2, <1>3, <1>5, <2>3, CallKeeps
  <1> QED BY <1>4, <1>5

\* ExternalHook and StageCompletes
LEMMA ExternalKeeps ==
    ASSUME IInv, ExternalHook \/ StageCompletes
    PROVE  IInv'
  <1>1. OtherTypes /\ FaultTypes
    BY TypeParts DEF IInv
  <1>2. /\ UNCHANGED <<spec, syncVars, watcher, clusterVars, g, runs, succeeded, inits, faults>>
        /\ w.pc = "external" /\ ~Listing
    BY DEF ExternalHook, StageCompletes, Listing
  <1>3. faults' \in 0..MaxFaults /\ w.next \in 1..(Len(Resources) + 1)
    BY <1>1, <1>2 DEF FaultTypes, OtherTypes
  <1>4. \/ StageFails(w)
        \/ w' = [w EXCEPT !.ext = Tail(w.ext)]
        \/ w' = [w EXCEPT !.pc = "completed"]
    BY <1>1 DEF ExternalHook, StageCompletes, OtherTypes
  <1>5. /\ w'.pc \in {"external", "completed", "failed"} /\ w'.next = w.next
        /\ w'.failed = w.failed /\ DOMAIN w' = DOMAIN w
    <2>1. StageFails(w) => w'.pc = "failed" /\ w'.next = w.next /\ w'.failed = w.failed
                           /\ DOMAIN w' = DOMAIN w
      BY <1>1, StageFailsIs
    <2> QED BY <1>1, <1>2, <1>4, <2>1 DEF OtherTypes
  <1> QED BY <1>2, <1>3, <1>5, CallKeeps

\* applyPodResources
LEMMA PodKeeps ==
    ASSUME IInv, applyPodResources
    PROVE  IInv'
  <1> DEFINE p == Resources[w.next].name
  <1>1. OtherTypes /\ FlagTypes /\ ClusterTypes /\ FaultTypes /\ wg \in Nat
    BY TypeParts DEF IInv
  <1>2. /\ w.pc = "apply" /\ w.next <= Len(Resources) /\ Resources[w.next].kind = "Pod"
        /\ NextResource /\ present' = present \cup {p} /\ waitExec({p}, 0)
        /\ over' \subseteq over
        /\ UNCHANGED <<spec, cancelled, closed, closer, watcher, running, events, runs, succeeded>>
    BY DEF applyPodResources, Applying
  <1>3. w.next \in DOMAIN Resources
    BY <1>1, <1>2, StageAssumption DEF OtherTypes
  <1>4. p \in Pods /\ PodsOfResource(w.next) = {p}
    <2>1. p \in Pods
      BY <1>2, <1>3, StageAssumption
    <2> QED BY <1>2, <2>1 DEF PodsOfResource
  <1>5. FaultTypes'
    <2>1. CASE p \in present
      BY <1>1, <2>1, FaultIs DEF applyPodResources, FaultTypes
    <2>2. CASE p \notin present
      <3>1. PICK lost \in Losses :
              /\ Lose(lost)
              /\ inits' = [q \in DOMAIN inits \cup {p} |->
                              IF q = p THEN HandleInitHook(p, lost) ELSE inits[q]]
        BY <2>2 DEF applyPodResources
      <3>2. faults' \in 0..MaxFaults
        BY <1>1, <3>1, LoseIs
      <3>3. DOMAIN inits' \subseteq Pods
        BY <1>1, <1>4, <3>1 DEF FaultTypes
      <3> QED BY <3>2, <3>3 DEF FaultTypes
    <2> QED BY <2>1, <2>2
  <1>6. FlagTypes' /\ ClusterTypes'
    BY <1>1, <1>2, <1>4 DEF FlagTypes, ClusterTypes
  <1>7. Existing \cap Workloads \subseteq present'
    BY <1>2 DEF IInv, CountInv, StartedOnce
  <1>8. Unit = 0
    BY <1>2 DEF Unit, Listing
  <1> HIDE DEF p
  <1> QED BY <1>2, <1>4, <1>5, <1>6, <1>7, <1>8, StartsKeep
\* applyWorkloadResources: the workload's own unit is added.
LEMMA WorkloadKeeps ==
    ASSUME IInv, applyWorkloadResources
    PROVE  IInv'
  <1> DEFINE x == Resources[w.next].name
  <1>1. OtherTypes /\ FlagTypes /\ ClusterTypes /\ GoroutineTypes /\ FaultTypes /\ wg \in Nat
    BY TypeParts DEF IInv
  <1>2. StartedOnce /\ ClosedLast
    BY DEF IInv, CountInv
  <1>3. /\ w.pc = "apply" /\ w.next <= Len(Resources) /\ Resources[w.next].kind = "Workload"
        /\ watcher' = [watcher EXCEPT ![x] = "started"] /\ wg' = wg + 1
        /\ w' = [w EXCEPT !.pc = "create"]
        /\ UNCHANGED <<spec, cancelled, closed, closer, present, running, over, events, g, runs,
                       succeeded, inits>>
    BY DEF applyWorkloadResources, Applying, clusterVars
  <1>14. UNCHANGED faults \/ Fault
    BY DEF applyWorkloadResources
  <1>4. w'.pc = "create" /\ w'.next = w.next /\ w'.failed = w.failed /\ DOMAIN w' = DOMAIN w
    BY <1>1, <1>3 DEF OtherTypes
  <1>5. w.next \in DOMAIN Resources /\ w.next \in Nat
    BY <1>1, <1>3, StageAssumption DEF OtherTypes
  <1>6. x \in Workloads
    BY <1>3, <1>5, StageAssumption
  <1>7. faults' \in 0..MaxFaults
    BY <1>1, <1>14, FaultIs DEF FaultTypes
  <1>8. Unit = 0 /\ Unit' = 1
    BY <1>3, <1>4 DEF Unit, Listing
  <1>9. OtherTypes' /\ ClusterTypes' /\ FaultTypes' /\ events' \in [Goroutines -> Seq(Versions)]
    BY <1>1, <1>3, <1>4, <1>7 DEF OtherTypes, ClusterTypes, FaultTypes, GoroutineTypes
  <1>10. FlagTypes'
    BY <1>1, <1>3, <1>6 DEF FlagTypes
  <1>11. ClosedLast'
    BY <1>2, <1>3, <1>4 DEF ClosedLast
  <1>12. Existing \cap Workloads \subseteq present'
    BY <1>2, <1>3 DEF StartedOnce
  <1>13. wg' = wg + Unit' - Unit /\ w'.next >= w.next
    BY <1>1, <1>3, <1>4, <1>5, <1>8
  <1> QED BY <1>3, <1>4, <1>9, <1>10, <1>11, <1>12, <1>13, QuietKeeps

\* What holds while a workload's pods are to be listed.
LEMMA ListingNow ==
    ASSUME IInv, w.pc \in {"create", "await", "relist"}
    PROVE  /\ w.next <= Len(Resources) /\ w.next \in DOMAIN Resources /\ w.next \in Nat
           /\ Resources[w.next].kind = "Workload" /\ Resources[w.next].name \in Workloads
           /\ closer = "none" /\ ~closed /\ ~w.failed /\ Unit = 1
  <1>1. OtherTypes
    BY TypeParts DEF IInv
  <1>2. StartedOnce /\ ClosedLast /\ Listing
    BY DEF IInv, CountInv, Listing
  <1>3. w.next \in DOMAIN Resources /\ w.next \in Nat
    BY <1>1, <1>2, StageAssumption DEF OtherTypes, StartedOnce
  <1> QED BY <1>2, <1>3, StageAssumption DEF StartedOnce, ClosedLast, Unit

\* A workload whose listing fails gives its unit back.
LEMMA ListingFails ==
    ASSUME IInv, w.pc \in {"create", "await", "relist"}, Fault, StageFails(w), wg' = wg - 1,
           UNCHANGED <<spec, cancelled, closed, closer, watcher, clusterVars, g, runs,
                       succeeded, inits>>
    PROVE  IInv'
  <1>1. OtherTypes /\ FlagTypes /\ ClusterTypes /\ GoroutineTypes /\ FaultTypes /\ wg \in Nat
    BY TypeParts DEF IInv
  <1>2. StartedOnce /\ closer = "none" /\ ~closed /\ ~w.failed /\ Unit = 1 /\ w.next \in Nat
    BY ListingNow DEF IInv, CountInv
  <1>3. w'.pc = "failed" /\ w'.next = w.next /\ w'.failed = w.failed /\ DOMAIN w' = DOMAIN w
    BY <1>1, StageFailsIs
  <1>4. ~Listing' /\ Unit' = 0
    BY <1>3 DEF Listing, Unit
  <1>5. /\ OtherTypes' /\ FlagTypes' /\ ClusterTypes'
        /\ events' \in [Goroutines -> Seq(Versions)]
    BY <1>1, <1>3 DEF OtherTypes, FlagTypes, ClusterTypes, GoroutineTypes, clusterVars
  <1>6. FaultTypes'
    BY <1>1, FaultIs DEF FaultTypes
  <1>7. ClosedLast' /\ Existing \cap Workloads \subseteq present'
    BY <1>2, <1>3 DEF ClosedLast, StartedOnce, clusterVars
  <1>8. wg' = wg + Unit' - Unit /\ w'.next >= w.next
    BY <1>1, <1>2, <1>3, <1>4
  <1> QED BY <1>3, <1>4, <1>5, <1>6, <1>7, <1>8, QuietKeeps

\* CreateWorkload
LEMMA CreateKeeps ==
    ASSUME IInv, CreateWorkload
    PROVE  IInv'
  <1> DEFINE x == Resources[w.next].name
  <1>1. OtherTypes /\ FlagTypes /\ ClusterTypes /\ GoroutineTypes /\ FaultTypes /\ wg \in Nat
    BY TypeParts DEF IInv
  <1>2. w.pc = "create"
    BY DEF CreateWorkload
  <1>3. /\ w.next <= Len(Resources) /\ Resources[w.next].kind = "Workload" /\ x \in Workloads
        /\ closer = "none" /\ ~closed /\ ~w.failed /\ Unit = 1
        /\ w.next \in Nat
    BY <1>2, ListingNow
  <1>4. UNCHANGED <<spec, cancelled, closed, closer, watcher, running, over, events, g, runs,
                    succeeded, inits>>
    BY DEF CreateWorkload
  <1>5. CASE /\ present' = present \cup {x}
             /\ w' = [w EXCEPT !.pc = "await"]
             /\ UNCHANGED <<wg, faults>>
    <2>1. w'.pc = "await" /\ w'.next = w.next /\ w'.failed = w.failed /\ DOMAIN w' = DOMAIN w
      BY <1>1, <1>5 DEF OtherTypes
    <2>2. Unit' = 1
      BY <2>1 DEF Unit, Listing
    <2>3. /\ OtherTypes' /\ FlagTypes' /\ FaultTypes'
          /\ events' \in [Goroutines -> Seq(Versions)]
      BY <1>1, <1>4, <1>5, <2>1 DEF OtherTypes, FlagTypes, FaultTypes, GoroutineTypes
    <2>4. ClusterTypes'
      BY <1>1, <1>3, <1>4, <1>5 DEF ClusterTypes
    <2>5. ClosedLast' /\ Existing \cap Workloads \subseteq present'
      BY <1>3, <1>4, <1>5, <2>1 DEF ClosedLast, IInv, CountInv, StartedOnce
    <2>6. wg' = wg + Unit' - Unit /\ w'.next >= w.next
      BY <1>1, <1>3, <1>5, <2>1, <2>2
    <2> QED BY <1>3, <1>4, <2>1, <2>3, <2>4, <2>5, <2>6, QuietKeeps
  <1>6. CASE Fault /\ StageFails(w) /\ wg' = wg - 1 /\ UNCHANGED present
    BY <1>2, <1>4, <1>6, ListingFails DEF clusterVars
  <1> QED BY <1>5, <1>6 DEF CreateWorkload

\* applyWorkloadPodResources: the goroutines of the pods are counted before the workload's
\* unit is given back.
LEMMA AwaitKeeps ==
    ASSUME IInv, applyWorkloadPodResources
    PROVE  IInv'
  <1> DEFINE x == Resources[w.next].name
             pods == PodsOf(x)
  <1>1. OtherTypes /\ FlagTypes /\ ClusterTypes /\ GoroutineTypes /\ FaultTypes /\ wg \in Nat
    BY TypeParts DEF IInv
  <1>2. w.pc \in {"await", "relist"}
    BY DEF applyWorkloadPodResources
  <1>3. /\ w.next <= Len(Resources) /\ Resources[w.next].kind = "Workload" /\ x \in Workloads
        /\ closer = "none" /\ ~closed /\ ~w.failed /\ Unit = 1
        /\ w.next \in Nat
    BY <1>2, ListingNow
  <1>4. UNCHANGED <<spec, cancelled, closed, closer, watcher, clusterVars, runs, succeeded, inits>>
    BY DEF applyWorkloadPodResources
  <1>5. \/ w' = [w EXCEPT !.pc = "relist"] /\ UNCHANGED <<wg, g, faults>>
        \/ waitExec(pods, 1) /\ NextResource /\ UNCHANGED faults
        \/ Fault /\ StageFails(w) /\ wg' = wg - 1 /\ UNCHANGED g
    BY DEF applyWorkloadPodResources
  <1>6. pods \subseteq Pods /\ pods \subseteq PodsOfResource(w.next)
    BY <1>3 DEF PodsOf, PodsWith, PodsOfResource
  <1>7. Existing \cap Workloads \subseteq present'
    BY <1>4 DEF IInv, CountInv, StartedOnce, clusterVars
  <1> HIDE DEF pods, x
  <1>8. CASE w' = [w EXCEPT !.pc = "relist"] /\ UNCHANGED <<wg, g, faults>>
    <2>1. w'.pc = "relist" /\ w'.next = w.next /\ w'.failed = w.failed /\ DOMAIN w' = DOMAIN w
      BY <1>1, <1>8 DEF OtherTypes
    <2>2. Unit' = 1
      BY <2>1 DEF Unit, Listing
    <2>3. /\ OtherTypes' /\ FlagTypes' /\ ClusterTypes' /\ FaultTypes'
          /\ events' \in [Goroutines -> Seq(Versions)]
      BY <1>1, <1>4, <1>8, <2>1
      DEF OtherTypes, FlagTypes, ClusterTypes, FaultTypes, GoroutineTypes, clusterVars
    <2>4. ClosedLast'
      BY <1>3, <1>4, <1>8, <2>1 DEF ClosedLast
    <2>5. wg' = wg + Unit' - Unit /\ w'.next >= w.next
      BY <1>1, <1>3, <1>8, <2>1, <2>2
    <2> QED BY <1>3, <1>4, <1>7, <1>8, <2>1, <2>3, <2>4, <2>5, QuietKeeps DEF x
  <1>9. CASE waitExec(pods, 1) /\ NextResource /\ UNCHANGED faults
    <2>1. FlagTypes' /\ ClusterTypes' /\ FaultTypes'
      BY <1>1, <1>4, <1>9 DEF FlagTypes, ClusterTypes, FaultTypes, clusterVars
    <2>2. waitExec(pods, Unit) /\ UNCHANGED <<spec, closed, closer, events, runs, succeeded>>
      BY <1>3, <1>4, <1>9 DEF clusterVars
    <2> QED BY <1>2, <1>3, <1>6, <1>7, <1>9, <2>1, <2>2, StartsKeep
  <1>10. CASE Fault /\ StageFails(w) /\ wg' = wg - 1 /\ UNCHANGED g
    BY <1>2, <1>4, <1>10, ListingFails
  <1> QED BY <1>5, <1>8, <1>9, <1>10

\* Steps that leave the worker, the goroutines and the wait group alone.
LEMMA AloneKeeps ==
    ASSUME IInv, FlagTypes', ClusterTypes', UNCHANGED <<spec, w, wg, g, runs, succeeded, inits,
                                                        faults>>,
           events' \in [Goroutines -> Seq(Versions)],
           Existing \cap Workloads \subseteq present', ClosedLast'
    PROVE  IInv'
  <1>1. OtherTypes /\ FaultTypes /\ wg \in Nat
    BY TypeParts DEF IInv
  <1>2. OtherTypes' /\ FaultTypes'
    BY <1>1 DEF OtherTypes, FaultTypes
  <1>3. Unit' = Unit /\ Unit \in {0, 1}
    BY DEF Unit, Listing
  <1>4. wg' = wg + Unit' - Unit /\ w'.next >= w.next
    BY <1>1, <1>3, StageAssumption DEF OtherTypes
  <1>5. Listing' => /\ w'.next <= Len(Resources) /\ Resources[w'.next].kind = "Workload"
    BY DEF IInv, CountInv, StartedOnce, Listing
  <1> QED BY <1>2, <1>4, <1>5, QuietKeeps
\* applyIndexedResource: the closing goroutine starts after the last resource.
LEMMA IndexedKeeps ==
    ASSUME IInv, applyIndexedResource
    PROVE  IInv'
  <1>1. OtherTypes /\ FlagTypes /\ ClusterTypes /\ GoroutineTypes /\ FaultTypes /\ wg \in Nat
    BY TypeParts DEF IInv
  <1>2. StartedOnce /\ ClosedLast
    BY DEF IInv, CountInv
  <1>3. /\ w.pc = "apply" /\ w' = [w EXCEPT !.pc = "drain"] /\ closer' = "waiting"
        /\ UNCHANGED <<spec, wg, cancelled, closed, watcher, clusterVars, g, runs, succeeded,
                       inits, faults>>
    BY DEF applyIndexedResource
  <1>4. w'.pc = "drain" /\ w'.next = w.next /\ w'.failed = w.failed /\ DOMAIN w' = DOMAIN w
    BY <1>1, <1>3 DEF OtherTypes
  <1>5. Unit = 0 /\ Unit' = 0 /\ ~Listing'
    BY <1>3, <1>4 DEF Unit, Listing
  <1>6. /\ OtherTypes' /\ FlagTypes' /\ ClusterTypes' /\ FaultTypes'
        /\ events' \in [Goroutines -> Seq(Versions)]
    BY <1>1, <1>3, <1>4
    DEF OtherTypes, FlagTypes, ClusterTypes, FaultTypes, GoroutineTypes, clusterVars
  <1>7. ClosedLast' /\ Existing \cap Workloads \subseteq present'
    BY <1>2, <1>3, <1>4 DEF ClosedLast, StartedOnce, clusterVars
  <1>8. wg' = wg + Unit' - Unit /\ w'.next >= w.next
    BY <1>1, <1>3, <1>4, <1>5 DEF OtherTypes
  <1> QED BY <1>3, <1>4, <1>5, <1>6, <1>7, <1>8, QuietKeeps

\* CloseHooksErrs: the channel is closed when the wait group is through.
LEMMA CloseKeeps ==
    ASSUME IInv, CloseHooksErrs
    PROVE  IInv'
  <1>1. FlagTypes /\ ClusterTypes /\ GoroutineTypes
    BY TypeParts DEF IInv
  <1>2. /\ closer = "waiting" /\ wg = 0 /\ closer' = "done" /\ closed' = TRUE
        /\ UNCHANGED <<spec, w, wg, cancelled, watcher, clusterVars, g, runs, succeeded, inits,
                       faults>>
    BY DEF CloseHooksErrs
  <1>3. FlagTypes' /\ ClusterTypes' /\ events' \in [Goroutines -> Seq(Versions)]
    BY <1>1, <1>2 DEF FlagTypes, ClusterTypes, GoroutineTypes, clusterVars
  <1>4. ClosedLast' /\ Existing \cap Workloads \subseteq present'
    BY <1>2 DEF IInv, CountInv, ClosedLast, StartedOnce, clusterVars
  <1> QED BY <1>2, <1>3, <1>4, AloneKeeps

\* The watcher of a workload waits for it.
LEMMA WatcherKeeps ==
    ASSUME IInv, NEW x \in Workloads, Watcher(x)
    PROVE  IInv'
  <1>1. FlagTypes /\ ClusterTypes /\ GoroutineTypes
    BY TypeParts DEF IInv
  <1>2. /\ watcher' \in {[watcher EXCEPT ![x] = "done"], [watcher EXCEPT ![x] = "listening"]}
        /\ UNCHANGED <<spec, w, syncVars, clusterVars, g, runs, succeeded, inits, faults>>
    BY DEF Watcher, WatcherLists, WatcherSees, WatcherEnds, WatcherBecomes
  <1>3. FlagTypes' /\ ClusterTypes' /\ events' \in [Goroutines -> Seq(Versions)]
    BY <1>1, <1>2 DEF FlagTypes, ClusterTypes, GoroutineTypes, syncVars, clusterVars
  <1>4. ClosedLast' /\ Existing \cap Workloads \subseteq present'
    BY <1>2 DEF IInv, CountInv, ClosedLast, StartedOnce, syncVars, clusterVars
  <1> QED BY <1>2, <1>3, <1>4, AloneKeeps DEF syncVars

\* Every version of a pod that the cluster makes is one of the versions.
LEMMA DeliverIs ==
    ASSUME GoroutineTypes, ClusterTypes', NEW p \in Pods, Deliver(p)
    PROVE  events' \in [Goroutines -> Seq(Versions)]
  <1> DEFINE v == [gone |-> p \notin present', over |-> p \in over', running |-> running'[p]]
  <1>1. events' = [k \in Goroutines |-> IF k[1] = p /\ g[k].pc \in {"watch", "run"}
                                        THEN Append(events[k], v) ELSE events[k]]
    BY DEF Deliver
  <1>2. v \in Versions
    <2>1. (p \notin present') \in BOOLEAN /\ (p \in over') \in BOOLEAN
          /\ running'[p] \subseteq Containers
      BY DEF ClusterTypes
    <2> QED BY <2>1 DEF Versions
  <1> HIDE DEF v
  <1>3. \A k \in Goroutines : events[k] \in Seq(Versions)
    BY DEF GoroutineTypes
  <1>4. \A k \in Goroutines : Append(events[k], v) \in Seq(Versions)
    BY <1>2, <1>3
  <1> QED BY <1>1, <1>3, <1>4

\* The pods of the cluster come and go; workloads stay.
LEMMA ClusterKeeps ==
    ASSUME IInv, NEW p \in Pods, Cluster(p)
    PROVE  IInv'
  <1>1. FlagTypes /\ ClusterTypes /\ GoroutineTypes
    BY TypeParts DEF IInv
  <1>2. /\ Deliver(p)
        /\ present' \in {present, present \cup {p}, present \ {p}}
        /\ over' \in {over, over \cup {p}}
        /\ \/ running' = running
           \/ running' = [running EXCEPT ![p] = {}]
           \/ \E c \in ToSet(ContainersOf[p]) :
                running' = [running EXCEPT ![p] = running[p] \cup {c}]
    <2>1. CASE PodAppears(p)
      BY <2>1 DEF PodAppears
    <2>2. CASE ContainerStarts(p)
      <3>1. PICK c \in ToSet(ContainersOf[p]) \ running[p] :
              running' = [running EXCEPT ![p] = @ \cup {c}]
        BY <2>2 DEF ContainerStarts
      <3> QED BY <2>2, <3>1 DEF ContainerStarts
    <2>3. CASE PodEnds(p)
      BY <2>3 DEF PodEnds
    <2>4. CASE PodDeleted(p)
      BY <2>4 DEF PodDeleted
    <2> QED BY <2>1, <2>2, <2>3, <2>4 DEF Cluster
  <1>3. UNCHANGED <<spec, w, syncVars, watcher, g, runs, succeeded, inits, faults>>
    BY <1>2 DEF Deliver
  <1>4. ClusterTypes'
    <2>1. ToSet(ContainersOf[p]) \subseteq Containers
      BY ContainersAre
    <2>2. running' \in [Pods -> SUBSET Containers]
      BY <1>1, <1>2, <2>1 DEF ClusterTypes
    <2> QED BY <1>1, <1>2, <2>2 DEF ClusterTypes
  <1>5. events' \in [Goroutines -> Seq(Versions)]
    BY <1>1, <1>2, <1>4, DeliverIs
  <1>6. FlagTypes' /\ ClosedLast'
    BY <1>1, <1>3 DEF FlagTypes, IInv, CountInv, ClosedLast, syncVars
  <1>7. Existing \cap Workloads \subseteq present'
    <2>1. p \notin Workloads
      BY ClusterAssumption
    <2> QED BY <1>2, <2>1 DEF IInv, CountInv, StartedOnce
  <1> QED BY <1>3, <1>4, <1>5, <1>6, <1>7, AloneKeeps DEF syncVars

\* The steps of a goroutine, and time.
LEMMA GoroutineKeeps ==
    ASSUME IInv, NEW k \in Goroutines, Goroutine(k) \/ Tick(k)
    PROVE  IInv'
  <1>1. TypeOK /\ HooksInv
    BY DEF IInv
  <1>2. GoroutineTypes /\ FaultTypes
    BY <1>1, TypeParts
  <1>3. /\ events \in [Goroutines -> Seq(Versions)] /\ succeeded \subseteq Pods \X HookIds
        /\ faults \in 0..MaxFaults
    BY <1>2 DEF GoroutineTypes, FaultTypes
  <1>4. /\ LeavesWorker /\ cancelled' \in {cancelled, TRUE}
        /\ w' = w \/ (w.pc = "drain" /\ w' = [w EXCEPT !.failed = TRUE])
        /\ \E s, r : Moves(k, s, r)
        /\ events' \in [Goroutines -> Seq(Versions)] /\ succeeded' \subseteq Pods \X HookIds
        /\ faults' \in 0..MaxFaults
    <2>1. CASE HandleHooks(k)
      BY <1>1, <1>3, <2>1, HandleHooksMoves
    <2>2. CASE HandleEvent(k)
      BY <1>1, <1>3, <2>2, HandleEventMoves
    <2>3. CASE ExecuteHook(k)
      BY <1>1, <1>3, <2>3, ExecuteHookMoves
    <2>4. CASE HooksEnd(k)
      BY <1>1, <1>3, <2>4, HooksEndMoves
    <2>5. CASE SendErr(k)
      BY <1>1, <1>3, <2>5, SendErrMoves
    <2>6. CASE Tick(k)
      BY <1>1, <1>3, <2>6, TickMoves
    <2> QED BY <2>1, <2>2, <2>3, <2>4, <2>5, <2>6 DEF Goroutine
  <1> QED BY <1>4, MovesKeeps

\* Nothing is started, counted or run at first.
LEMMA InitInv ==
    ASSUME Init
    PROVE  IInv
  <1>1. /\ spec \in HookLists
        /\ w = [pc |-> "collect", next |-> 1, failed |-> FALSE, col |-> <<>>, ext |-> <<>>]
        /\ wg = 0 /\ cancelled = FALSE /\ closed = FALSE /\ closer = "none"
        /\ watcher = [x \in Workloads |-> "none"] /\ present = Existing
        /\ running = [p \in Pods |-> IF p \in Existing THEN ToSet(ContainersOf[p]) ELSE {}]
        /\ over = {} /\ events = [k \in Goroutines |-> <<>>]
        /\ g = [k \in Goroutines |-> NoGoroutine]
        /\ runs = [k \in Goroutines |-> [i \in HookIds |-> 0]]
        /\ succeeded = {} /\ inits = <<>> /\ faults = 0
    BY DEF Init
  <1>2. /\ NoGoroutine \in GoroutineStates /\ NoGoroutine.pc = "none" /\ NoGoroutine.errs = 0
        /\ NoGoroutine.by = [c \in Containers |-> {}]
    BY NoGoroutineType DEF NoGoroutine
  <1>3. OtherTypes
    <2>1. 1 \in 1..(Len(Resources) + 1)
      BY StageAssumption
    <2> QED BY <1>1, <2>1 DEF OtherTypes
  <1>4. FlagTypes
    BY <1>1 DEF FlagTypes
  <1>5. ClusterTypes
    BY <1>1, ContainersAre, StageAssumption DEF ClusterTypes
  <1>6. GoroutineTypes
    BY <1>1, <1>2 DEF GoroutineTypes
  <1>7. FaultTypes
    <2>1. DOMAIN inits = {}
      BY <1>1
    <2> QED BY <1>1, <2>1, StageAssumption DEF FaultTypes
  <1>8. ~Listing /\ Active = {}
    BY <1>1, <1>2 DEF Listing, Active
  <1>9. Counted
    BY <1>1, <1>8, FS_EmptySet DEF Counted
  <1>10. StartedOnce
    BY <1>1, <1>2, <1>8 DEF StartedOnce
  <1>11. ClosedLast
    BY <1>1 DEF ClosedLast
  <1>12. HooksInv
    BY <1>1, <1>2 DEF HooksInv, AtHook, RunIsBehind
  <1>13. TypeOK
    BY <1>1, <1>3, <1>4, <1>5, <1>6, <1>7, GoroutinesFinite, FS_CardinalityType, TypeParts
  <1> QED BY <1>9, <1>10, <1>11, <1>12, <1>13 DEF IInv, CountInv

\* A stuttering step changes nothing.
LEMMA StutterKeeps ==
    ASSUME IInv, UNCHANGED vars
    PROVE  IInv'
  <1>1. FlagTypes /\ ClusterTypes /\ GoroutineTypes
    BY TypeParts DEF IInv
  <1>2. FlagTypes' /\ ClusterTypes' /\ events' \in [Goroutines -> Seq(Versions)]
    BY <1>1 DEF FlagTypes, ClusterTypes, GoroutineTypes, vars
  <1>3. ClosedLast' /\ Existing \cap Workloads \subseteq present'
    BY DEF IInv, CountInv, ClosedLast, StartedOnce, vars
  <1> QED BY <1>2, <1>3, AloneKeeps DEF vars

\* Every step keeps the inductive invariant.
LEMMA NextInv ==
    ASSUME IInv, [Next]_vars
    PROVE  IInv'
  <1>1. CASE Worker
    BY <1>1, CollectKeeps, SkipKeeps, ApplyFailsKeeps, PodKeeps, WorkloadKeeps, CreateKeeps,
       AwaitKeeps, IndexedKeeps, ErrsClosedKeeps, ExternalKeeps DEF Worker
  <1>2. CASE CloseHooksErrs
    BY <1>2, CloseKeeps
  <1>3. CASE \E x \in Workloads : Watcher(x)
    BY <1>3, WatcherKeeps
  <1>4. CASE \E k \in Goroutines : Goroutine(k) \/ Tick(k)
    BY <1>4, GoroutineKeeps
  <1>5. CASE \E p \in Pods : Cluster(p)
    BY <1>5, ClusterKeeps
  <1>6. CASE UNCHANGED vars
    BY <1>6, StutterKeeps
  <1> QED BY <1>1, <1>2, <1>3, <1>4, <1>5, <1>6 DEF Next, Stage

-----------------------------------------------------------------------------
(* The theorems *)

\* The wait group counts the goroutines that are not through and the workload whose pods
\* are to be listed; what a goroutine has run is behind it until a hook fails.
THEOREM Inductive == Spec => []IInv
  <1>1. Init => IInv
    BY InitInv
  <1>2. IInv /\ [Next]_vars => IInv'
    BY NextInv
  <1> QED BY <1>1, <1>2, PTL DEF Spec

\* Every variable keeps its type; the wait group never falls below zero, which would panic
\* (metadatarestore.go:743-860).
THEOREM TypeCorrect == Spec => []TypeOK
  <1>1. IInv => TypeOK
    BY DEF IInv
  <1> QED BY <1>1, Inductive, PTL

\* The channel is closed when the wait group is zero, and then no goroutine is active.
LEMMA ClosedMeansThrough ==
    ASSUME IInv
    PROVE  NoSendOnClosed
  <1> SUFFICES ASSUME closed
               PROVE  wg = 0 /\ \A k \in Goroutines : g[k].pc \in {"none", "done"}
    BY DEF NoSendOnClosed
  <1>1. wg = 0
    BY DEF IInv, CountInv, ClosedLast
  <1>2. IsFiniteSet(Active) /\ Cardinality(Active) \in Nat
    BY SomeGoroutines DEF Active
  <1>3. wg = Cardinality(Active) + IF Listing THEN 1 ELSE 0
    BY DEF IInv, CountInv, Counted
  <1>4. Cardinality(Active) = 0
    BY <1>1, <1>2, <1>3
  <1>5. Active = {}
    BY <1>2, <1>4, FS_EmptySet
  <1> QED BY <1>1, <1>5 DEF Active

\* The channel of the errors is closed when every goroutine that was started is through: no
\* send on it panics (metadatarestore.go:264-281, 743-860).
THEOREM NoSendAfterClose == Spec => []NoSendOnClosed
  <1>1. IInv => NoSendOnClosed
    BY ClosedMeansThrough
  <1> QED BY <1>1, Inductive, PTL

\* A goroutine runs a hook a second time only after one with onError Fail failed there, and
\* such a stage does not complete (restore_hooks.go:154-159, 216).
THEOREM RunsOnce == Spec => []RunsOnceUnlessFailed
  <1>1. IInv => RunsOnceUnlessFailed
    <2> SUFFICES ASSUME IInv, NEW k \in Goroutines, NEW i \in HookIds, runs[k][i] = 2,
                        ~(g[k].errs > 0)
                 PROVE  w.failed /\ w.pc # "completed"
      BY DEF RunsOnceUnlessFailed
    <2>1. g[k].errs \in Nat
      BY TypesNow, StateFields DEF IInv
    <2>2. ~w.failed => runs[k][i] <= 1
      BY <2>1 DEF IInv, HooksInv, RunIsBehind
    <2>3. w.failed => w.pc # "completed"
      BY DEF IInv, CountInv, ClosedLast
    <2> QED BY <2>2, <2>3
  <1> QED BY <1>1, Inductive, PTL

-----------------------------------------------------------------------------
(* Which hooks a pod has *)

\* The resource lists of a hook select a name of a kind.
Picked(kind, n, h) ==
    (IF h.includeResources = <<>> THEN 1 ELSE GetSubItemStrings(kind, n, h.includeResources))
        > GetSubItemStrings(kind, n, h.excludeResources)

\* What a hook asks of the pod alone.
Asks(h, p) ==
    /\ checkInclude(h.includeNamespaces, h.excludeNamespaces, NsOf[p])
    /\ h.labelSelector \subseteq LabelsOf[p]

\* A workload leads to the pod, and the hook selects it.
Leads(x, h, p) ==
    NsOf[x] = NsOf[p] /\ MatchLabels[x] \subseteq LabelsOf[p] /\ Picked(KindOf[x], x, h)

\* A hook selects a pod that is there by itself or through one workload that is there.
LEMMA SelectedBy ==
    ASSUME NEW there, NEW h, NEW p \in Pods
    PROVE  validateHook(there, h, p, {}) <=>
             /\ Asks(h, p) /\ p \in there
             /\ Picked("Pod", p, h) \/ \E x \in Workloads \cap there : Leads(x, h, p)
  <1> DEFINE ns == NsOf[p]
             OfKind(kind) ==
                CASE kind = "Pod"         -> getPodsFromPodResourceSpec(there, ns, h)
                  [] kind = "Deployment"  -> GetPodsFromDeployment(there, ns, h)
                  [] kind = "DaemonSet"   -> GetPodsFromDaemonset(there, ns, h)
                  [] kind = "StatefulSet" -> GetPodsFromStatefulset(there, ns, h)
                  [] kind = "ReplicaSet"  -> GetPodsFromReplicaset(there, ns, h)
  <1>1. p \in getPodsFromPodResourceSpec(there, ns, h)
          <=> p \in there /\ h.labelSelector \subseteq LabelsOf[p] /\ Picked("Pod", p, h)
    BY DEF getPodsFromPodResourceSpec, FindMatchedStrings, PodsWith, Picked
  <1>2. ASSUME NEW kind \in WorkloadKinds
        PROVE  p \in GetPodsFromWorkload(kind, there, ns, h)
                 <=> p \in there /\ \E x \in Workloads \cap there :
                                      KindOf[x] = kind /\ Leads(x, h, p)
    <2> DEFINE all  == {x \in Workloads \cap there : KindOf[x] = kind /\ NsOf[x] = ns}
               kept == FindMatchedStrings(kind, all, h.includeResources, h.excludeResources)
    <2>1. \A x : x \in kept <=> x \in all /\ Picked(kind, x, h)
      BY DEF FindMatchedStrings, Picked
    <2>2. \A x : p \in PodsWith(there, ns, MatchLabels[x])
                   <=> p \in there /\ MatchLabels[x] \subseteq LabelsOf[p]
      BY DEF PodsWith
    <2>3. p \in GetPodsFromWorkload(kind, there, ns, h)
            <=> \E x \in kept : p \in PodsWith(there, ns, MatchLabels[x])
      BY DEF GetPodsFromWorkload
    <2>4. \A x : x \in all <=> x \in Workloads \cap there /\ KindOf[x] = kind /\ NsOf[x] = ns
      OBVIOUS
    <2> HIDE DEF kept, all, ns
    <2> QED BY <2>1, <2>2, <2>3, <2>4 DEF Leads, ns
  <1>3. p \in GetAllPodsForNamespace(there, ns, h, {})
          <=> \E kind \in ListedKinds : p \in OfKind(kind)
    <2>1. GetAllPodsForNamespace(there, ns, h, {})
            = UNION {IF kind \in {} THEN {} ELSE OfKind(kind) : kind \in ListedKinds}
      BY DEF GetAllPodsForNamespace
    <2> HIDE DEF OfKind
    <2> QED BY <2>1
  <1>4. /\ OfKind("Pod") = getPodsFromPodResourceSpec(there, ns, h)
        /\ \A kind \in WorkloadKinds : OfKind(kind) = GetPodsFromWorkload(kind, there, ns, h)
    BY DEF WorkloadKinds, GetPodsFromDeployment, GetPodsFromDaemonset, GetPodsFromStatefulset,
           GetPodsFromReplicaset
  <1> HIDE DEF OfKind
  <1>5. p \in GetAllPodsForNamespace(there, ns, h, {})
          <=> \/ p \in getPodsFromPodResourceSpec(there, ns, h)
              \/ \E kind \in WorkloadKinds : p \in GetPodsFromWorkload(kind, there, ns, h)
    BY <1>3, <1>4 DEF ListedKinds
  <1>6. \A x \in Workloads : KindOf[x] \in WorkloadKinds
    BY ClusterAssumption
  <1>7. (\E kind \in WorkloadKinds : p \in GetPodsFromWorkload(kind, there, ns, h))
          <=> p \in there /\ \E x \in Workloads \cap there : Leads(x, h, p)
    BY <1>2, <1>6
  <1> HIDE DEF ns
  <1>8. validateHook(there, h, p, {})
          <=> Asks(h, p) /\ p \in GetAllPodsForNamespace(there, ns, h, {})
    BY DEF validateHook, Asks, ns
  <1> QED BY <1>1, <1>5, <1>7, <1>8 DEF Asks

\* A place that is due while its pod and the workloads applied are there is grouped when no
\* listing fails.
LEMMA DueGrouped ==
    ASSUME spec \in HookLists, present \in SUBSET (Pods \cup Workloads), NEW k \in Goroutines,
           k[1] \in present, AppliedWorkloads \subseteq present
    PROVE  Due(k) \subseteq HooksIn(byContainer[spec][present][k[1]][{}])
  <1> DEFINE p    == k[1]
             list == Candidates(spec, p)
             all  == GroupRestoreExecHooks(spec, present, p, {})
  <1> SUFFICES ASSUME NEW i \in Due(k)
               PROVE  i \in HooksIn(byContainer[spec][present][p][{}])
    OBVIOUS
  <1> DEFINE h == HookAt(k, i)
             c == HookContainer(p, h)
  <1>1. p \in Pods /\ {} \in Losses
    BY GoroutineIs DEF Losses
  <1>2. byContainer[spec][present][p][{}] = Discarded(p, all)
    BY <1>1 DEF byContainer
  <1>3. /\ i \in DOMAIN list /\ h = list[i] /\ h.fail
        /\ h.container = "unset" \/ podHasContainer(p, h.container)
        /\ p \in DOMAIN Annotated \/ validateHook({p} \cup AppliedWorkloads, h, p, {})
    BY DEF Due, HookAt
  <1>4. p \in DOMAIN Annotated \/ validateHook(present, h, p, {})
    <2> SUFFICES ASSUME validateHook({p} \cup AppliedWorkloads, h, p, {})
                 PROVE  validateHook(present, h, p, {})
      BY <1>3
    <2>1. /\ Asks(h, p)
          /\ \/ Picked("Pod", p, h)
             \/ \E x \in Workloads \cap ({p} \cup AppliedWorkloads) : Leads(x, h, p)
      BY <1>1, SelectedBy
    <2>2. Workloads \cap ({p} \cup AppliedWorkloads) \subseteq Workloads \cap present
      OBVIOUS
    <2> QED BY <1>1, <2>1, <2>2, SelectedBy
  <1>5. podHasContainer(p, c) /\ c \in Containers
    <2>1. podHasContainer(p, c)
      <3>1. ContainersOf[p][1] \in ToSet(ContainersOf[p])
        BY <1>1, ScopeAssumption DEF ToSet
      <3> QED BY <1>3, <3>1 DEF HookContainer, podHasContainer
    <2> QED BY <1>1, <2>1, ContainersAre DEF podHasContainer
  <1> HIDE DEF h, c
  <1>6. i \in all[c]
    BY <1>3, <1>4, <1>5 DEF GroupRestoreExecHooks, c
  <1>7. Discarded(p, all)[c] = all[c]
    BY <1>5 DEF Discarded
  <1> HIDE DEF all
  <1> QED BY <1>2, <1>5, <1>6, <1>7 DEF HooksIn

-----------------------------------------------------------------------------
(* What a goroutine has run *)

\* A step of goroutine k to state s forgets no hook.
RanMoves(k, s) ==
    /\ g' = [g EXCEPT ![k] = s] /\ g[k].pc # "none" /\ s.pc # "none"
    /\ succeeded \subseteq succeeded'
    /\ RanWell(k, s, succeeded')
    /\ Unfailed' /\ k[1] \in present /\ NoneForgotten(k, g[k], succeeded)
          => NoneForgotten(k, s, succeeded')

\* What the invariant says of one goroutine.
LEMMA RanNow ==
    ASSUME RanInv, NEW k \in Goroutines
    PROVE  RanWell(k, g[k], succeeded)
  BY DEF RanInv

\* After a container's hooks, all of them have run; before a container's first, none is
\* before it.
LEMMA HooksRunWell ==
    ASSUME NEW s \in GoroutineStates, s.cont \in Containers, s.pc = "run", s.idx \in s.ran,
           \A i \in s.by[s.cont] : i < s.idx => i \in s.ran, NEW t \in HooksRun(s)
    PROVE  /\ t.ran = s.ran /\ t.errs = s.errs /\ t.pc \in {"run", "watch"}
           /\ HooksIn(s.by) \subseteq HooksIn(t.by) \cup t.ran
           /\ t.pc = "run" => \A i \in t.by[t.cont] : i < t.idx => i \in t.ran
  <1>1. /\ t \in GoroutineStates /\ t.errs = s.errs /\ t.ran = s.ran
        /\ \/ /\ t.pc = "run" /\ t.by = s.by /\ t.cont = s.cont /\ t.todo = s.todo
              /\ t.idx \in First(Later(s))
           \/ /\ t.pc = "watch" /\ t.by = [s.by EXCEPT ![s.cont] = {}]
           \/ /\ t.pc = "run" /\ t.by = [s.by EXCEPT ![s.cont] = {}]
              /\ t.cont \in s.todo /\ t.todo = s.todo \ {t.cont}
              /\ t.idx \in First(t.by[t.cont])
    BY HooksRunIs
  <1>2. /\ s.by \in [Containers -> SUBSET Nat] /\ s.idx \in Nat /\ s.todo \subseteq Containers
        /\ t.by \in [Containers -> SUBSET Nat] /\ t.idx \in Nat
    BY <1>1, StateFields
  <1>3. CASE Later(s) # {}
    <2>1. PICK i \in First(Later(s)) : t = [s EXCEPT !.idx = i]
      BY <1>3 DEF HooksRun
    <2>2. t.by = s.by /\ t.cont = s.cont /\ t.idx = i /\ t.pc = "run"
      BY <2>1 DEF GoroutineStates
    <2>3. \A j \in s.by[s.cont] : j > s.idx => i <= j
      BY <2>1 DEF First, Later
    <2>4. \A j \in s.by[s.cont] : j < i => j \in s.ran
      <3> SUFFICES ASSUME NEW j \in s.by[s.cont], j < i PROVE j \in s.ran
        OBVIOUS
      <3>1. j \in Nat /\ i \in Nat
        BY <1>2, <2>2
      <3>2. ~(j > s.idx)
        BY <2>3, <3>1
      <3> QED BY <1>2, <3>1, <3>2
    <2> QED BY <1>1, <2>2, <2>4
  <1>4. CASE Later(s) = {}
    <2>1. t.by = [s.by EXCEPT ![s.cont] = {}]
      BY <1>1, <1>4 DEF First
    <2>2. \A j \in s.by[s.cont] : j \in s.ran
      <3> SUFFICES ASSUME NEW j \in s.by[s.cont] PROVE j \in s.ran
        OBVIOUS
      <3>1. j \in Nat /\ ~(j > s.idx)
        BY <1>2, <1>4 DEF Later
      <3> QED BY <1>2, <3>1
    <2>3. HooksIn(s.by) \subseteq HooksIn(t.by) \cup t.ran
      <3> SUFFICES ASSUME NEW j \in HooksIn(s.by) PROVE j \in HooksIn(t.by) \cup t.ran
        OBVIOUS
      <3>1. PICK c \in Containers : j \in s.by[c]
        BY DEF HooksIn
      <3>2. CASE c = s.cont
        BY <1>1, <2>2, <3>1, <3>2
      <3>3. CASE c # s.cont
        BY <1>2, <2>1, <3>1, <3>3 DEF HooksIn
      <3> QED BY <3>2, <3>3
    <2>4. t.pc = "run" => \A i \in t.by[t.cont] : i < t.idx => i \in t.ran
      <3> SUFFICES ASSUME t.pc = "run", NEW i \in t.by[t.cont], i < t.idx PROVE FALSE
        OBVIOUS
      <3>1. t.cont \in Containers /\ t.idx \in First(t.by[t.cont])
        BY <1>1, <1>2, <1>4 DEF First
      <3>2. i \in Nat /\ t.idx <= i
        BY <1>2, <3>1 DEF First
      <3> QED BY <1>2, <3>2
    <2> QED BY <1>1, <2>3, <2>4
  <1> QED BY <1>3, <1>4

\* HandleHooks groups every hook that is due, unless a listing fails.
LEMMA HandleHooksRan ==
    ASSUME TypeOK, RanInv, NEW k \in Goroutines, HandleHooks(k)
    PROVE  \E s : RanMoves(k, s)
  <1>1. PICK lost \in Losses :
           LET by == byContainer[spec][present][k[1]][lost]
           IN  /\ Lose(lost)
               /\ IF HooksIn(by) = {}
                  THEN g' = [g EXCEPT ![k].pc = "done"]
                  ELSE g' = [g EXCEPT ![k].pc = IF cancelled THEN "ending" ELSE "watch",
                                      ![k].by = by,
                                      ![k].wait = maxHookWait(Candidates(spec, k[1]), by)]
    BY DEF HandleHooks
  <1> DEFINE by   == byContainer[spec][present][k[1]][lost]
             wait == maxHookWait(Candidates(spec, k[1]), by)
             s    == IF HooksIn(by) = {} THEN [g[k] EXCEPT !.pc = "done"]
                     ELSE [g[k] EXCEPT !.pc = IF cancelled THEN "ending" ELSE "watch",
                                       !.by = by, !.wait = wait]
  <1>2. /\ spec \in HookLists /\ present \in SUBSET (Pods \cup Workloads)
        /\ g \in [Goroutines -> GoroutineStates] /\ g[k] \in GoroutineStates
    BY TypesNow
  <1>3. g[k].pc = "group" /\ g[k].ran = {} /\ w' = w /\ succeeded' = succeeded
    BY RanNow DEF HandleHooks, RanWell
  <1>4. g' = [g EXCEPT ![k] = s]
    BY <1>1, <1>2
  <1>5. Unfailed' /\ k[1] \in present => Due(k) \subseteq HooksIn(by)
    <2> SUFFICES ASSUME Unfailed', k[1] \in present PROVE Due(k) \subseteq HooksIn(by)
      OBVIOUS
    <2>1. faults' = 0 /\ w.pc # "failed"
      BY <1>3 DEF Unfailed
    <2>2. lost = {} \/ \E x : lost = {x}
      BY DEF Losses
    <2>3. IsFiniteSet(lost) /\ Cardinality(lost) \in Nat
      BY <2>2, FS_EmptySet, FS_Singleton, FS_CardinalityType
    <2>4. Cardinality(lost) = 0
      BY <1>1, <2>1, <2>3, TypeParts, StageAssumption DEF Lose, FaultTypes
    <2>5. lost = {}
      BY <2>3, <2>4, FS_EmptySet
    <2>6. AppliedWorkloads \subseteq present
      BY <2>1 DEF RanInv, Found
    <2> QED BY <1>2, <2>5, <2>6, DueGrouped
  <1>6. /\ s.pc \in {"done", "ending", "watch"}
        /\ s.pc = "done" => HooksIn(by) = {}
        /\ s.pc # "done" => s.by = by /\ s.ran = {}
    <2> HIDE DEF by, wait
    <2> QED BY <1>2, <1>3 DEF GoroutineStates
  <1> HIDE DEF s, by
  <1>7. RanWell(k, s, succeeded')
    BY <1>6 DEF RanWell, AtWork
  <1>8. Unfailed' /\ k[1] \in present => NoneForgotten(k, s, succeeded')
    BY <1>5, <1>6 DEF NoneForgotten, AtWork
  <1>9. RanMoves(k, s)
    BY <1>3, <1>4, <1>6, <1>7, <1>8 DEF RanMoves
  <1> QED BY <1>9

\* A version that is handled changes neither byContainer nor what has run.
LEMMA HandleEventRan ==
    ASSUME TypeOK, RanInv, NEW k \in Goroutines, HandleEvent(k)
    PROVE  \E s : RanMoves(k, s)
  <1> DEFINE v  == Head(events[k])
             todo == {c \in Containers : g[k].by[c] # {} /\ isContainerRunning(v, c)}
             s0 == [g[k] EXCEPT !.todo = todo]
  <1>1. g \in [Goroutines -> GoroutineStates] /\ g[k] \in GoroutineStates
    BY TypesNow
  <1>2. g[k].pc = "watch" /\ succeeded' = succeeded /\ RanWell(k, g[k], succeeded)
    BY RanNow DEF HandleEvent
  <1>3. \/ g' = [g EXCEPT ![k].stop = TRUE]
        \/ \E s \in NextContainer(s0) : g' = [g EXCEPT ![k] = s]
    BY DEF HandleEvent
  <1>4. PICK s \in {[g[k] EXCEPT !.stop = TRUE]} \cup NextContainer(s0) :
            g' = [g EXCEPT ![k] = s]
    BY <1>1, <1>3
  <1>5. /\ s.by = g[k].by /\ s.ran = g[k].ran /\ s.errs = g[k].errs
        /\ s.pc \in {"watch", "run"}
        /\ s.pc = "run" => \A i \in s.by[s.cont] : i < s.idx => i \in s.ran
    <2>1. CASE s = [g[k] EXCEPT !.stop = TRUE]
      BY <1>1, <1>2, <2>1 DEF GoroutineStates
    <2>2. CASE s \in NextContainer(s0)
      <3>1. todo \subseteq Containers
        OBVIOUS
      <3> HIDE DEF todo
      <3>2. /\ s0 \in GoroutineStates /\ s0.by = g[k].by /\ s0.errs = g[k].errs
            /\ s0.ran = g[k].ran /\ s0.todo = todo
        BY <1>1, <3>1 DEF GoroutineStates
      <3> HIDE DEF s0
      <3>3. /\ s \in GoroutineStates /\ s.by = s0.by /\ s.errs = s0.errs /\ s.ran = s0.ran
            /\ \/ s.pc = "watch"
               \/ /\ s.pc = "run" /\ s.cont \in s0.todo /\ s.todo = s0.todo \ {s.cont}
                  /\ s.idx \in First(s0.by[s.cont])
        BY <2>2, <3>2, NextContainerIs
      <3>4. ASSUME s.pc = "run", NEW i \in s.by[s.cont], i < s.idx PROVE FALSE
        <4>1. s.cont \in Containers /\ s.by \in [Containers -> SUBSET Nat] /\ s.idx \in Nat
          BY <3>1, <3>2, <3>3, <3>4, StateFields
        <4>2. s.idx <= i /\ i \in Nat
          BY <3>3, <3>4, <4>1 DEF First
        <4> QED BY <3>4, <4>1, <4>2
      <3> QED BY <3>2, <3>3, <3>4
    <2> QED BY <2>1, <2>2
  <1>6. AtWork(s) => AtWork(g[k])
    BY <1>2, <1>5 DEF AtWork
  <1>7. RanWell(k, s, succeeded')
    BY <1>2, <1>5, <1>6 DEF RanWell
  <1>8. NoneForgotten(k, g[k], succeeded) => NoneForgotten(k, s, succeeded')
    BY <1>2, <1>5, <1>6 DEF NoneForgotten
  <1>9. RanMoves(k, s)
    BY <1>2, <1>4, <1>5, <1>7, <1>8 DEF RanMoves
  <1> QED BY <1>9

\* The hook a goroutine is at runs: it failed for good, or it succeeded when it must.
LEMMA ExecuteHookRan ==
    ASSUME TypeOK, HooksInv, RanInv, NEW k \in Goroutines, ExecuteHook(k)
    PROVE  \E s : RanMoves(k, s)
  <1> DEFINE idx == g[k].idx
             h   == HookAt(k, idx)
             s   == [g[k] EXCEPT !.ran = g[k].ran \cup {idx}]
  <1>1. /\ g \in [Goroutines -> GoroutineStates] /\ g[k] \in GoroutineStates
        /\ spec \in HookLists
    BY TypesNow
  <1>2. g[k].pc = "run" /\ AtHook(k, g[k], runs[k]) /\ RanWell(k, g[k], succeeded)
    BY AtHookNow, RanNow DEF ExecuteHook
  <1>3. /\ g[k].cont \in Containers /\ idx \in g[k].by[g[k].cont]
        /\ g[k].by[g[k].cont] \subseteq DOMAIN Candidates(spec, k[1])
    BY <1>2 DEF AtHook
  <1>4. idx \in Nat
    BY <1>1, StateFields
  <1>5. /\ s \in GoroutineStates /\ s.pc = "run" /\ s.by = g[k].by /\ s.cont = g[k].cont
        /\ s.idx = idx /\ s.errs = g[k].errs /\ s.ran = g[k].ran \cup {idx}
    <2>1. g[k].ran \cup {idx} \subseteq Nat
      BY <1>1, <1>4, StateFields
    <2> HIDE DEF idx
    <2> QED BY <1>1, <1>2, <2>1 DEF GoroutineStates, idx
  <1>6. \/ g' = [g EXCEPT ![k] = Failing(s)] /\ succeeded' = succeeded
        \/ \E result \in {"ok", "error"} :
             /\ succeeded' = IF result = "ok" THEN succeeded \cup {<<k[1], h.id>>} ELSE succeeded
             /\ IF result = "error" /\ h.fail
                THEN g' = [g EXCEPT ![k] = Failing(s)]
                ELSE \E t \in HooksRun(s) : g' = [g EXCEPT ![k] = t]
    <2>1. ExecutePodCommand(k[1], h) \subseteq {"ok", "error"}
      BY DEF ExecutePodCommand
    <2>2. \/ g' = [g EXCEPT ![k] = Failing(s)] /\ succeeded' = succeeded
          \/ \E result \in ExecutePodCommand(k[1], h) :
                /\ succeeded' = IF result = "ok" THEN succeeded \cup {<<k[1], h.id>>} ELSE succeeded
                /\ IF result = "error" /\ h.fail
                   THEN g' = [g EXCEPT ![k] = Failing(s)]
                   ELSE \E t \in HooksRun(s) : g' = [g EXCEPT ![k] = t]
      BY DEF ExecuteHook
    <2> HIDE DEF h, s
    <2> QED BY <2>1, <2>2
  <1> HIDE DEF h, s, idx
  <1>7. succeeded \subseteq succeeded'
    BY <1>6
  <1>8. ASSUME g' = [g EXCEPT ![k] = Failing(s)]
        PROVE  RanMoves(k, Failing(s))
    <2> DEFINE t == Failing(s)
    <2>1. t.pc = "watch" /\ t.errs = s.errs + 1
      BY <1>5, FailingIs
    <2>2. ~AtWork(t)
      BY <1>1, <1>5, <2>1, StateFields DEF AtWork
    <2> HIDE DEF t
    <2>3. RanWell(k, t, succeeded') /\ NoneForgotten(k, t, succeeded')
      BY <2>1, <2>2 DEF RanWell, NoneForgotten
    <2>4. g' = [g EXCEPT ![k] = t]
      BY <1>8 DEF t
    <2>5. RanMoves(k, t)
      BY <1>2, <1>7, <2>1, <2>3, <2>4 DEF RanMoves
    <2> QED BY <2>5 DEF t
  <1>9. ASSUME NEW t \in HooksRun(s), g' = [g EXCEPT ![k] = t],
               h.fail => <<k[1], h.id>> \in succeeded'
        PROVE  RanMoves(k, t)
    <2>1. g[k].errs = 0 => \A i \in s.by[s.cont] : i < s.idx => i \in s.ran
      BY <1>2, <1>5 DEF RanWell, AtWork, idx
    <2>2. CASE g[k].errs # 0
      <3>1. t.errs # 0 /\ t.pc \in {"run", "watch"}
        BY <1>3, <1>5, <2>2, HooksRunIs
      <3>2. RanWell(k, t, succeeded') /\ NoneForgotten(k, t, succeeded')
        BY <3>1 DEF RanWell, NoneForgotten, AtWork
      <3> QED BY <1>2, <1>7, <1>9, <3>1, <3>2 DEF RanMoves
    <2>3. CASE g[k].errs = 0
      <3>1. /\ t.ran = s.ran /\ t.errs = s.errs /\ t.pc \in {"run", "watch"}
            /\ HooksIn(s.by) \subseteq HooksIn(t.by) \cup t.ran
            /\ t.pc = "run" => \A i \in t.by[t.cont] : i < t.idx => i \in t.ran
        BY <1>3, <1>5, <2>1, <2>3, HooksRunWell
      <3>2. AtWork(g[k])
        BY <1>2, <2>3 DEF AtWork
      <3>3. \A i \in t.ran : HookAt(k, i).fail => <<k[1], HookAt(k, i).id>> \in succeeded'
        <4> SUFFICES ASSUME NEW i \in t.ran, HookAt(k, i).fail
                     PROVE  <<k[1], HookAt(k, i).id>> \in succeeded'
          OBVIOUS
        <4>1. CASE i = idx
          BY <1>9, <4>1 DEF h
        <4>2. CASE i \in g[k].ran
          BY <1>2, <1>7, <3>2, <4>2 DEF RanWell
        <4> QED BY <1>5, <3>1, <4>1, <4>2
      <3>4. RanWell(k, t, succeeded')
        BY <3>1, <3>3 DEF RanWell
      <3>5. NoneForgotten(k, g[k], succeeded) => NoneForgotten(k, t, succeeded')
        BY <1>5, <3>1, <3>2 DEF NoneForgotten
      <3> QED BY <1>2, <1>7, <1>9, <3>1, <3>4, <3>5 DEF RanMoves
    <2> QED BY <2>2, <2>3
  <1>10. CASE g' = [g EXCEPT ![k] = Failing(s)]
    BY <1>8, <1>10
  <1>11. CASE /\ g' # [g EXCEPT ![k] = Failing(s)]
    <2>1. PICK result \in {"ok", "error"} :
             /\ succeeded' = IF result = "ok" THEN succeeded \cup {<<k[1], h.id>>} ELSE succeeded
             /\ IF result = "error" /\ h.fail
                THEN g' = [g EXCEPT ![k] = Failing(s)]
                ELSE \E t \in HooksRun(s) : g' = [g EXCEPT ![k] = t]
      BY <1>6, <1>11
    <2>2. ~(result = "error" /\ h.fail)
      BY <1>11, <2>1
    <2>3. PICK t \in HooksRun(s) : g' = [g EXCEPT ![k] = t]
      BY <2>1, <2>2
    <2>4. h.fail => <<k[1], h.id>> \in succeeded'
      BY <2>1, <2>2
    <2> QED BY <1>9, <2>3, <2>4
  <1> QED BY <1>10, <1>11

\* A goroutine ends without an error when what is due has run.
LEMMA HooksEndRan ==
    ASSUME TypeOK, HooksInv, RanInv, NEW k \in Goroutines, HooksEnd(k)
    PROVE  \E s : RanMoves(k, s)
  <1> DEFINE errs == g[k].errs + Cardinality(Missed(k))
             s    == IF errs > 0 THEN [NoGoroutine EXCEPT !.pc = "send", !.errs = errs]
                     ELSE [NoGoroutine EXCEPT !.pc = "done"]
  <1>1. g \in [Goroutines -> GoroutineStates] /\ g[k] \in GoroutineStates /\ spec \in HookLists
        /\ k[1] \in Pods
    BY TypesNow
  <1>2. /\ g[k].pc \in {"ending", "watch"} /\ succeeded' = succeeded
        /\ AtHook(k, g[k], runs[k]) /\ RanWell(k, g[k], succeeded)
    BY AtHookNow, RanNow DEF HooksEnd
  <1>3. g' = [g EXCEPT ![k] = s]
    BY DEF HooksEnd
  <1>4. IsFiniteSet(Missed(k)) /\ Cardinality(Missed(k)) \in Nat /\ g[k].errs \in Nat
    <2>1. Missed(k) \subseteq DOMAIN Candidates(spec, k[1])
      BY <1>2 DEF Missed, HooksIn, AtHook
    <2>2. Candidates(spec, k[1]) \in Seq(Hooks)
      BY <1>1, CandidatesAre
    <2>3. DOMAIN Candidates(spec, k[1]) = 1..Len(Candidates(spec, k[1]))
          /\ Len(Candidates(spec, k[1])) \in Nat
      BY <2>2
    <2>4. IsFiniteSet(1..Len(Candidates(spec, k[1])))
      BY <2>3, FS_Interval
    <2> QED BY <1>1, <2>1, <2>3, <2>4, FS_Subset, FS_CardinalityType, StateFields
  <1>5. s.pc = IF errs > 0 THEN "send" ELSE "done"
    <2> HIDE DEF errs
    <2> QED BY DEF NoGoroutine
  <1>6. RanWell(k, s, succeeded')
    <2> HIDE DEF s, errs
    <2> QED BY <1>5 DEF RanWell, AtWork
  <1>7. NoneForgotten(k, g[k], succeeded) => NoneForgotten(k, s, succeeded')
    <2> SUFFICES ASSUME NoneForgotten(k, g[k], succeeded), s.pc = "done", NEW i \in Due(k)
                 PROVE  <<k[1], HookAt(k, i).id>> \in succeeded'
      <3> HIDE DEF s, errs
      <3> QED BY <1>5 DEF NoneForgotten, AtWork
    <2>1. errs = 0
      <3>1. ~(errs > 0) /\ errs \in Nat
        BY <1>4, <1>5
      <3> QED BY <3>1
    <2>2. g[k].errs = 0 /\ Cardinality(Missed(k)) = 0
      BY <1>4, <2>1
    <2>3. Missed(k) = {}
      BY <1>4, <2>2, FS_EmptySet
    <2>4. AtWork(g[k])
      BY <1>2, <2>2 DEF AtWork
    <2>5. i \in HooksIn(g[k].by) \cup g[k].ran /\ HookAt(k, i).fail
      BY <2>4 DEF NoneForgotten, Due
    <2>6. i \in g[k].ran
      BY <2>3, <2>5 DEF Missed
    <2> QED BY <1>2, <2>4, <2>5, <2>6 DEF RanWell
  <1> HIDE DEF s
  <1>8. RanMoves(k, s)
    BY <1>2, <1>3, <1>5, <1>6, <1>7 DEF RanMoves
  <1> QED BY <1>8

\* An error that is received fails the stage.
LEMMA SendErrRan ==
    ASSUME TypeOK, NEW k \in Goroutines, SendErr(k)
    PROVE  \E s : RanMoves(k, s)
  <1> DEFINE s == [g[k] EXCEPT !.errs = g[k].errs - 1,
                               !.pc = IF g[k].errs = 1 THEN "done" ELSE "send"]
  <1>1. g \in [Goroutines -> GoroutineStates] /\ g[k] \in GoroutineStates
    BY TypesNow
  <1>2. /\ g[k].pc = "send" /\ succeeded' = succeeded /\ g' = [g EXCEPT ![k] = s]
        /\ w' = [w EXCEPT !.failed = TRUE]
    BY <1>1 DEF SendErr
  <1>3. ~Unfailed'
    <2>1. "failed" \in DOMAIN w
      BY TypeParts DEF OtherTypes
    <2> QED BY <1>2, <2>1 DEF Unfailed
  <1>4. s.pc \in {"done", "send"}
    BY <1>1 DEF GoroutineStates
  <1> HIDE DEF s
  <1>5. RanWell(k, s, succeeded')
    BY <1>4 DEF RanWell, AtWork
  <1>6. RanMoves(k, s)
    BY <1>2, <1>3, <1>4, <1>5 DEF RanMoves
  <1> QED BY <1>6

\* Time does not change what has run.
LEMMA TickRan ==
    ASSUME TypeOK, RanInv, NEW k \in Goroutines, Tick(k)
    PROVE  \E s : RanMoves(k, s)
  <1> DEFINE s == [g[k] EXCEPT !.age = g[k].age + 1]
  <1>1. g \in [Goroutines -> GoroutineStates] /\ g[k] \in GoroutineStates
    BY TypesNow
  <1>2. g[k].pc \in {"watch", "run"} /\ succeeded' = succeeded /\ g' = [g EXCEPT ![k] = s]
    BY <1>1 DEF Tick
  <1>3. /\ s.pc = g[k].pc /\ s.errs = g[k].errs /\ s.by = g[k].by /\ s.cont = g[k].cont
        /\ s.idx = g[k].idx /\ s.ran = g[k].ran
    BY <1>1 DEF GoroutineStates
  <1> HIDE DEF s
  <1>4. AtWork(s) <=> AtWork(g[k])
    BY <1>3 DEF AtWork
  <1>5. RanWell(k, s, succeeded')
    BY <1>2, <1>3, <1>4, RanNow DEF RanWell
  <1>6. NoneForgotten(k, g[k], succeeded) => NoneForgotten(k, s, succeeded')
    BY <1>2, <1>3, <1>4 DEF NoneForgotten
  <1>7. RanMoves(k, s)
    BY <1>2, <1>3, <1>5, <1>6 DEF RanMoves
  <1> QED BY <1>7

-----------------------------------------------------------------------------
(* What the steps keep of it *)

\* What is due depends on the specification and on the workloads applied.
LEMMA DueSame ==
    ASSUME spec' = spec, AppliedWorkloads' = AppliedWorkloads, NEW k \in Goroutines
    PROVE  Due(k)' = Due(k)
  BY DEF Due, HookAt

\* A goroutine that does not step has run what it had, and nothing more is due.
LEMMA Carried ==
    ASSUME spec' = spec, NEW k \in Goroutines, g'[k] = g[k], succeeded \subseteq succeeded'
    PROVE  /\ RanWell(k, g[k], succeeded) => RanWell(k, g[k], succeeded)'
           /\ Due(k)' \subseteq Due(k)
                 => (NoneForgotten(k, g[k], succeeded) => NoneForgotten(k, g[k], succeeded)')
  <1>1. RanWell(k, g[k], succeeded) => RanWell(k, g[k], succeeded)'
    BY DEF RanWell, AtWork, HookAt
  <1>2. ASSUME Due(k)' \subseteq Due(k), NoneForgotten(k, g[k], succeeded)
        PROVE  NoneForgotten(k, g[k], succeeded)'
    <2>1. \A i : HookAt(k, i)' = HookAt(k, i)
      BY DEF HookAt
    <2> QED BY <1>2, <2>1 DEF NoneForgotten, AtWork
  <1> QED BY <1>1, <1>2

\* A goroutine that steps has run what its new state says.
LEMMA Stepped ==
    ASSUME spec' = spec, AppliedWorkloads' = AppliedWorkloads, NEW k \in Goroutines, NEW s,
           g'[k] = s
    PROVE  /\ RanWell(k, s, succeeded') => RanWell(k, g[k], succeeded)'
           /\ NoneForgotten(k, s, succeeded') => NoneForgotten(k, g[k], succeeded)'
  <1>1. Due(k)' = Due(k)
    BY DueSame
  <1>2. \A i : HookAt(k, i)' = HookAt(k, i)
    BY DEF HookAt
  <1> QED BY <1>1, <1>2 DEF RanWell, NoneForgotten, AtWork

\* Steps that leave the goroutines alone, and bring no pod of theirs back.
LEMMA QuietRan ==
    ASSUME RanInv, Found', UNCHANGED <<spec, g, succeeded>>,
           AppliedWorkloads' = AppliedWorkloads, Unfailed' => Unfailed,
           \A k \in Goroutines : g[k].pc # "none" /\ k[1] \in present' => k[1] \in present
    PROVE  RanInv'
  <1>1. \A k \in Goroutines :
            /\ RanWell(k, g[k], succeeded)'
            /\ NoneForgotten(k, g[k], succeeded) => NoneForgotten(k, g[k], succeeded)'
    BY Carried, DueSame DEF RanInv
  <1>2. CoveredPods'
    <2> SUFFICES ASSUME Unfailed', NEW p \in present' \cap Pods, Started(p)' # {}
                 PROVE  \E k \in Started(p)' : NoneForgotten(k, g[k], succeeded)'
      BY DEF CoveredPods
    <2>1. Started(p)' = Started(p)
      BY DEF Started, GoroutinesOf
    <2>2. p \in present
      <3>1. PICK k \in Started(p) : TRUE
        BY <2>1
      <3> QED BY <3>1 DEF Started, GoroutinesOf
    <2>3. PICK k \in Started(p) : NoneForgotten(k, g[k], succeeded)
      BY <2>1, <2>2 DEF RanInv, CoveredPods
    <2>4. k \in Goroutines
      BY <2>3 DEF Started, GoroutinesOf
    <2> QED BY <1>1, <2>1, <2>3, <2>4
  <1> QED BY <1>1, <1>2 DEF RanInv

\* The goroutines started have all their hooks before them.
LEMMA StartsRan ==
    ASSUME TypeOK, RanInv, Found', UNCHANGED <<spec, succeeded>>, Unfailed' => Unfailed,
           NEW pods \in SUBSET Pods, NEW extra, waitExec(pods, extra),
           w.next \in DOMAIN Resources, pods \subseteq PodsOfResource(w.next),
           \A k \in Goroutines : k[1] \in present' /\ k[1] \notin pods
               => k[1] \in present /\ Due(k)' \subseteq Due(k)
    PROVE  RanInv'
  <1> DEFINE new == {k \in Goroutines : k[2] = w.next /\ k[1] \in pods}
             s   == [NoGoroutine EXCEPT !.pc = "group"]
  <1>1. /\ s.pc = "group" /\ s.ran = {}
        /\ \A k \in Goroutines : g'[k] = IF k \in new THEN s ELSE g[k]
    BY DEF NoGoroutine, waitExec
  <1>2. \A k \in new : g'[k] = s
    BY <1>1
  <1>3. \A k \in Goroutines \ new : g'[k] = g[k]
    BY <1>1
  <1>4. \A p \in pods : <<p, w.next>> \in new
    BY GoroutineAssumption
  <1> HIDE DEF s
  <1>5. \A k \in new : NoneForgotten(k, g[k], succeeded)' /\ RanWell(k, g[k], succeeded)'
    BY <1>1, <1>2 DEF NoneForgotten, RanWell, AtWork
  <1>6. \A k \in Goroutines : RanWell(k, g[k], succeeded)'
    <2> SUFFICES ASSUME NEW k \in Goroutines PROVE RanWell(k, g[k], succeeded)'
      OBVIOUS
    <2>1. CASE k \in new
      BY <1>5, <2>1
    <2>2. CASE k \notin new
      <3>1. g'[k] = g[k] /\ succeeded \subseteq succeeded'
        BY <1>3, <2>2
      <3> QED BY <3>1, Carried, RanNow
    <2> QED BY <2>1, <2>2
  <1>7. CoveredPods'
    <2> SUFFICES ASSUME Unfailed', NEW p \in present' \cap Pods, Started(p)' # {}
                 PROVE  \E k \in Started(p)' : NoneForgotten(k, g[k], succeeded)'
      BY DEF CoveredPods
    <2>1. CASE p \in pods
      <3> DEFINE k == <<p, w.next>>
      <3>1. k \in new /\ k[1] = p
        BY <1>4, <2>1
      <3> HIDE DEF k
      <3>2. k \in Started(p)'
        BY <1>1, <1>2, <3>1 DEF Started, GoroutinesOf
      <3> QED BY <1>5, <3>1, <3>2
    <2>2. CASE p \notin pods
      <3>1. \A k \in GoroutinesOf(p) : k \in Goroutines /\ k[1] = p /\ k \notin new
        BY <2>2 DEF GoroutinesOf
      <3>2. Started(p)' = Started(p)
        BY <1>3, <3>1 DEF Started, GoroutinesOf
      <3>3. p \in present /\ \A k \in GoroutinesOf(p) : Due(k)' \subseteq Due(k)
        <4>1. PICK k \in Started(p) : TRUE
          BY <3>2
        <4> QED BY <2>2, <3>1, <4>1 DEF Started
      <3>4. PICK k \in Started(p) : NoneForgotten(k, g[k], succeeded)
        BY <3>2, <3>3 DEF RanInv, CoveredPods
      <3>5. k \in GoroutinesOf(p) /\ k \in Goroutines /\ g'[k] = g[k] /\ succeeded \subseteq succeeded'
        BY <1>3, <3>1, <3>4 DEF Started
      <3>6. NoneForgotten(k, g[k], succeeded)'
        BY <3>3, <3>4, <3>5, Carried
      <3> QED BY <3>2, <3>4, <3>6
    <2> QED BY <2>1, <2>2
  <1> QED BY <1>6, <1>7 DEF RanInv

\* The steps of a goroutine, and time.
LEMMA GoroutineRan ==
    ASSUME IInv, RanInv, NEW k \in Goroutines, Goroutine(k) \/ Tick(k)
    PROVE  RanInv'
  <1>1. TypeOK /\ HooksInv
    BY DEF IInv
  <1>2. PICK s : RanMoves(k, s)
    BY <1>1, HandleHooksRan, HandleEventRan, ExecuteHookRan, HooksEndRan, SendErrRan, TickRan
    DEF Goroutine
  <1>3. g \in [Goroutines -> GoroutineStates] /\ OtherTypes /\ faults \in Nat
    BY <1>1, TypeParts DEF GoroutineTypes, FaultTypes
  <1>4. /\ UNCHANGED <<spec, closed, present, over>>
        /\ w' = w \/ w' = [w EXCEPT !.failed = TRUE]
        /\ faults' = 0 => faults = 0
    <2>1. CASE HandleHooks(k)
      <3>1. PICK lost \in Losses : Lose(lost)
        BY <2>1 DEF HandleHooks
      <3>2. lost = {} \/ \E x : lost = {x}
        BY DEF Losses
      <3>3. Cardinality(lost) \in Nat
        BY <3>2, FS_EmptySet, FS_Singleton, FS_CardinalityType
      <3>4. faults' = 0 => faults = 0
        BY <1>3, <3>1, <3>3 DEF Lose
      <3> QED BY <2>1, <3>4 DEF HandleHooks
    <2>2. CASE HandleEvent(k)
      BY <2>2 DEF HandleEvent, syncVars
    <2>3. CASE ExecuteHook(k)
      BY <2>3 DEF ExecuteHook, syncVars, clusterVars
    <2>4. CASE HooksEnd(k)
      BY <2>4 DEF HooksEnd
    <2>5. CASE SendErr(k)
      BY <2>5 DEF SendErr, clusterVars
    <2>6. CASE Tick(k)
      BY <2>6 DEF Tick, syncVars, clusterVars
    <2> QED BY <2>1, <2>2, <2>3, <2>4, <2>5, <2>6 DEF Goroutine
  <1>5. /\ w'.pc = w.pc /\ w'.next = w.next /\ (Unfailed' => Unfailed)
    BY <1>3, <1>4 DEF OtherTypes, Unfailed
  <1>6. AppliedWorkloads' = AppliedWorkloads /\ Created' = Created
    BY <1>5 DEF AppliedWorkloads, Created
  <1>7. /\ g' = [g EXCEPT ![k] = s] /\ g[k].pc # "none" /\ s.pc # "none"
        /\ succeeded \subseteq succeeded' /\ RanWell(k, s, succeeded')
        /\ Unfailed' /\ k[1] \in present /\ NoneForgotten(k, g[k], succeeded)
              => NoneForgotten(k, s, succeeded')
    BY <1>2 DEF RanMoves
  <1>8. g'[k] = s /\ \A j \in Goroutines \ {k} : g'[j] = g[j]
    BY <1>3, <1>7
  <1>9. Found'
    <2>1. \A j \in Goroutines : g'[j].pc # "none" => j[1] \in present' \cup over'
      BY <1>4, <1>7, <1>8 DEF RanInv, Found
    <2> QED BY <1>4, <1>5, <1>6, <2>1 DEF RanInv, Found
  <1>10. \A j \in Goroutines :
            /\ RanWell(j, g[j], succeeded)'
            /\ Unfailed' /\ j[1] \in present /\ NoneForgotten(j, g[j], succeeded)
                  => NoneForgotten(j, g[j], succeeded)'
    <2> SUFFICES ASSUME NEW j \in Goroutines
                 PROVE  /\ RanWell(j, g[j], succeeded)'
                        /\ Unfailed' /\ j[1] \in present /\ NoneForgotten(j, g[j], succeeded)
                              => NoneForgotten(j, g[j], succeeded)'
      OBVIOUS
    <2>1. CASE j = k
      BY <1>4, <1>6, <1>7, <1>8, <2>1, Stepped
    <2>2. CASE j # k
      <3>1. g'[j] = g[j] /\ Due(j)' = Due(j)
        BY <1>4, <1>6, <1>8, <2>2, DueSame
      <3> QED BY <1>4, <1>7, <3>1, Carried, RanNow
    <2> QED BY <2>1, <2>2
  <1>11. CoveredPods'
    <2> SUFFICES ASSUME Unfailed', NEW p \in present' \cap Pods, Started(p)' # {}
                 PROVE  \E j \in Started(p)' : NoneForgotten(j, g[j], succeeded)'
      BY DEF CoveredPods
    <2>1. Started(p)' = Started(p)
      BY <1>7, <1>8 DEF Started, GoroutinesOf
    <2>2. p \in present /\ Unfailed
      BY <1>4, <1>5
    <2>3. PICK j \in Started(p) : NoneForgotten(j, g[j], succeeded)
      BY <2>1, <2>2 DEF RanInv, CoveredPods
    <2>4. j \in Goroutines /\ j[1] = p
      BY <2>3 DEF Started, GoroutinesOf
    <2> QED BY <1>10, <2>1, <2>2, <2>3, <2>4
  <1> QED BY <1>9, <1>10, <1>11 DEF RanInv

\* The workloads applied after one more resource.
LEMMA AppliedNext ==
    ASSUME OtherTypes, NextResource, w.next \in DOMAIN Resources
    PROVE  AppliedWorkloads' = AppliedWorkloads \cup
              {x \in Workloads : Resources[w.next].kind = "Workload" /\ Resources[w.next].name = x}
  <1>1. w'.next = w.next + 1
    BY DEF OtherTypes, NextResource
  <1>2. \A i \in DOMAIN Resources : i < w'.next <=> i < w.next \/ i = w.next
    <2>1. DOMAIN Resources \subseteq Nat
      BY StageAssumption
    <2> QED BY <1>1, <2>1
  <1> QED BY <1>2 DEF AppliedWorkloads

\* The workloads applied are the same until the next resource.
LEMMA AppliedSame ==
    ASSUME w'.next = w.next
    PROVE  AppliedWorkloads' = AppliedWorkloads
  BY DEF AppliedWorkloads

\* A place among the resources.
LEMMA AtResource ==
    ASSUME OtherTypes, w.next <= Len(Resources)
    PROVE  w.next \in DOMAIN Resources /\ w.next \in Nat
  BY StageAssumption DEF OtherTypes

\* Steps of the worker that start nothing, create nothing and stay at the resource.
LEMMA WorkerRan ==
    ASSUME IInv, RanInv, UNCHANGED <<spec, g, succeeded, present, over>>,
           w'.next = w.next, w'.failed = w.failed, faults' = 0 => faults = 0,
           w.pc \notin {"failed", "completed"},
           w'.pc # "failed" => Created' = Created,
           w'.pc \in {"drain", "external", "completed"} => w.next > Len(Resources),
           w'.pc \in {"external", "completed"} => closed'
    PROVE  RanInv'
  <1>1. AppliedWorkloads' = AppliedWorkloads
    BY AppliedSame
  <1>2. Unfailed' => Unfailed
    BY DEF Unfailed
  <1>3. Found'
    BY <1>1 DEF RanInv, Found
  <1> QED BY <1>1, <1>2, <1>3, QuietRan

\* A call that fails is a fault.
LEMMA FaultFails ==
    ASSUME FaultTypes, Fault
    PROVE  faults' # 0
  BY DEF FaultTypes, Fault

\* The calls of the worker
LEMMA CallsRan ==
    ASSUME IInv, RanInv,
           \/ collectAllRestoreHooksPods \/ ApplyFails \/ HooksErrsClosed \/ ExternalHook
           \/ StageCompletes \/ applyWorkloadResources \/ applyIndexedResource
    PROVE  RanInv'
  <1>1. OtherTypes /\ FaultTypes
    BY TypeParts DEF IInv
  <1>2. Found
    BY DEF RanInv
  <1>3. CASE collectAllRestoreHooksPods
    <2>1. /\ w.pc = "collect" /\ UNCHANGED <<spec, g, succeeded, present, over>>
      BY <1>3 DEF collectAllRestoreHooksPods, clusterVars
    <2>2. /\ w'.pc \in {"failed", "apply"} /\ w'.next = w.next /\ w'.failed = w.failed
          /\ faults' = 0 => faults = 0
      <3>1. \/ Fault /\ StageFails(w)
            \/ \E lost \in Losses :
                  Lose(lost) /\ \E col : w' = [w EXCEPT !.pc = "apply", !.col = col]
        BY <1>3 DEF collectAllRestoreHooksPods
      <3>2. CASE Fault /\ StageFails(w)
        BY <1>1, <3>2, StageFailsIs, FaultFails
      <3>3. CASE \E lost \in Losses :
                    Lose(lost) /\ \E col : w' = [w EXCEPT !.pc = "apply", !.col = col]
        <4>1. PICK lost \in Losses :
                    Lose(lost) /\ \E col : w' = [w EXCEPT !.pc = "apply", !.col = col]
          BY <3>3
        <4>2. PICK col : w' = [w EXCEPT !.pc = "apply", !.col = col]
          BY <4>1
        <4>3. lost = {} \/ \E x : lost = {x}
          BY DEF Losses
        <4>4. Cardinality(lost) \in Nat
          BY <4>3, FS_EmptySet, FS_Singleton, FS_CardinalityType
        <4>5. faults' = 0 => faults = 0
          BY <1>1, <4>1, <4>4 DEF Lose, FaultTypes
        <4> QED BY <1>1, <4>2, <4>5 DEF OtherTypes
      <3> QED BY <3>1, <3>2, <3>3
    <2>3. w'.pc # "failed" => Created' = Created
      BY <2>1, <2>2 DEF Created
    <2> QED BY <2>1, <2>2, <2>3, WorkerRan
  <1>4. CASE ApplyFails
    <2>1. /\ w.pc = "apply" /\ UNCHANGED <<spec, g, succeeded, present, over>>
          /\ Fault /\ StageFails(w)
      BY <1>4 DEF ApplyFails, Applying, clusterVars
    <2>2. w'.pc = "failed" /\ w'.next = w.next /\ w'.failed = w.failed /\ faults' # 0
      BY <1>1, <2>1, StageFailsIs, FaultFails
    <2> QED BY <2>1, <2>2, WorkerRan
  <1>5. CASE HooksErrsClosed
    <2>1. /\ w.pc = "drain" /\ closed /\ UNCHANGED <<spec, g, succeeded, present, over, closed, faults>>
      BY <1>5 DEF HooksErrsClosed, clusterVars, syncVars
    <2>2. /\ w'.pc \in {"failed", "external"} /\ w'.next = w.next /\ w'.failed = w.failed
      <3>1. CASE w.failed
        BY <1>1, <1>5, <3>1, StageFailsIs DEF HooksErrsClosed
      <3>2. CASE ~w.failed
        <4>1. \E ext : w' = [w EXCEPT !.pc = "external", !.col = <<>>, !.ext = ext]
          BY <1>5, <3>2 DEF HooksErrsClosed
        <4> QED BY <1>1, <4>1 DEF OtherTypes
      <3> QED BY <3>1, <3>2
    <2>3. w'.pc # "failed" => Created' = Created
      BY <2>1, <2>2 DEF Created
    <2> QED BY <1>2, <2>1, <2>2, <2>3, WorkerRan DEF Found
  <1>6. CASE ExternalHook \/ StageCompletes
    <2>1. /\ w.pc = "external" /\ UNCHANGED <<spec, g, succeeded, present, over, closed, faults>>
      BY <1>6 DEF ExternalHook, StageCompletes, clusterVars, syncVars
    <2>2. \/ StageFails(w)
          \/ w' = [w EXCEPT !.ext = Tail(w.ext)]
          \/ w' = [w EXCEPT !.pc = "completed"]
      BY <1>1, <1>6 DEF ExternalHook, StageCompletes, OtherTypes
    <2>3. /\ w'.pc \in {"external", "completed", "failed"} /\ w'.next = w.next
          /\ w'.failed = w.failed
      BY <1>1, <2>1, <2>2, StageFailsIs DEF OtherTypes
    <2>4. w'.pc # "failed" => Created' = Created
      BY <2>1, <2>3 DEF Created
    <2> QED BY <1>2, <2>1, <2>3, <2>4, WorkerRan DEF Found
  <1>7. CASE applyWorkloadResources
    <2>1. /\ w.pc = "apply" /\ UNCHANGED <<spec, g, succeeded, present, over>>
          /\ w' = [w EXCEPT !.pc = "create"]
      BY <1>7 DEF applyWorkloadResources, Applying, clusterVars
    <2>2. w'.pc = "create" /\ w'.next = w.next /\ w'.failed = w.failed
      BY <1>1, <2>1 DEF OtherTypes
    <2>3. Created' = Created
      BY <2>1, <2>2 DEF Created
    <2>4. UNCHANGED faults \/ Fault
      BY <1>7 DEF applyWorkloadResources
    <2>5. faults' = 0 => faults = 0
      BY <1>1, <2>4 DEF Fault, FaultTypes
    <2> QED BY <2>1, <2>2, <2>3, <2>5, WorkerRan
  <1>8. CASE applyIndexedResource
    <2>1. /\ w.pc = "apply" /\ UNCHANGED <<spec, g, succeeded, present, over, faults>>
          /\ w' = [w EXCEPT !.pc = "drain"] /\ w.next > Len(Resources)
      BY <1>8 DEF applyIndexedResource, clusterVars
    <2>2. w'.pc = "drain" /\ w'.next = w.next /\ w'.failed = w.failed
      BY <1>1, <2>1 DEF OtherTypes
    <2>3. Created' = Created
      BY <2>1, <2>2 DEF Created
    <2> QED BY <2>1, <2>2, <2>3, WorkerRan
  <1> QED BY <1>3, <1>4, <1>5, <1>6, <1>7, <1>8

\* ApplyExisting and ApplyOther: a workload that is left as it is was applied before.
LEMMA SkipRan ==
    ASSUME IInv, RanInv, ApplyExisting \/ ApplyOther
    PROVE  RanInv'
  <1>1. OtherTypes /\ Found
    BY TypeParts DEF IInv, RanInv
  <1>2. /\ UNCHANGED <<spec, g, succeeded, present, over, faults>> /\ NextResource
        /\ w.pc = "apply" /\ w.next <= Len(Resources)
        /\ Resources[w.next].kind = "Workload" => Resources[w.next].name \in present
    BY DEF ApplyExisting, ApplyOther, Applying, clusterVars
  <1>3. /\ w'.pc = "apply" /\ w'.next = w.next + 1 /\ w'.failed = w.failed
    BY <1>1, <1>2, NextResourceIs
  <1>4. w.next \in DOMAIN Resources
    BY <1>1, <1>2, AtResource
  <1>5. Created = {} /\ Created' = {}
    BY <1>2, <1>3 DEF Created
  <1>6. AppliedWorkloads' = AppliedWorkloads
    <2>1. present \cap Workloads = AppliedWorkloads
      BY <1>1, <1>2, <1>5 DEF Found
    <2>2. \A x \in Workloads :
            Resources[w.next].kind = "Workload" /\ Resources[w.next].name = x
                => x \in AppliedWorkloads
      BY <1>2, <2>1
    <2> QED BY <1>1, <1>2, <1>4, <2>2, AppliedNext
  <1>7. Found'
    BY <1>1, <1>2, <1>3, <1>5, <1>6 DEF Found
  <1>8. Unfailed' => Unfailed
    BY <1>2, <1>3 DEF Unfailed
  <1> QED BY <1>2, <1>6, <1>7, <1>8, QuietRan

\* applyPodResources
LEMMA PodRan ==
    ASSUME IInv, RanInv, applyPodResources
    PROVE  RanInv'
  <1> DEFINE p == Resources[w.next].name
  <1>1. TypeOK /\ OtherTypes /\ FaultTypes /\ Found
    BY TypeParts DEF IInv, RanInv
  <1>2. /\ w.pc = "apply" /\ w.next <= Len(Resources) /\ Resources[w.next].kind = "Pod"
        /\ NextResource /\ present' = present \cup {p} /\ waitExec({p}, 0)
        /\ over \subseteq over' \cup {p} /\ UNCHANGED <<spec, succeeded>>
        /\ (\E lost \in Losses : Lose(lost)) \/ Fault
    BY DEF applyPodResources, Applying
  <1>3. w.next \in DOMAIN Resources
    BY <1>1, <1>2, AtResource
  <1>4. p \in Pods /\ p \notin Workloads /\ {p} \subseteq PodsOfResource(w.next)
    <2>1. p \in Pods
      BY <1>2, <1>3, StageAssumption
    <2> QED BY <1>2, <2>1, ClusterAssumption DEF PodsOfResource
  <1>5. w'.pc = "apply" /\ w'.failed = w.failed
    BY <1>1, <1>2, NextResourceIs
  <1>6. faults' = 0 => faults = 0
    <2>1. CASE Fault
      BY <1>1, <2>1 DEF Fault, FaultTypes
    <2>2. CASE \E lost \in Losses : Lose(lost)
      <3>1. PICK lost \in Losses : Lose(lost)
        BY <2>2
      <3>2. lost = {} \/ \E x : lost = {x}
        BY DEF Losses
      <3>3. Cardinality(lost) \in Nat
        BY <3>2, FS_EmptySet, FS_Singleton, FS_CardinalityType
      <3> QED BY <1>1, <3>1, <3>3 DEF Lose, FaultTypes
    <2> QED BY <1>2, <2>1, <2>2
  <1>7. AppliedWorkloads' = AppliedWorkloads
    BY <1>1, <1>2, <1>3, AppliedNext
  <1>8. Created = {} /\ Created' = {}
    BY <1>2, <1>5 DEF Created
  <1>9. \A k \in Goroutines : g'[k].pc # "none" => k[1] = p \/ g[k].pc # "none"
    BY <1>2 DEF waitExec
  <1> HIDE DEF p
  <1>10. Found'
    <2>1. \A k \in Goroutines : g'[k].pc # "none" => k[1] \in present' \cup over'
      BY <1>1, <1>2, <1>9 DEF Found
    <2>2. present' \cap Workloads = present \cap Workloads
      BY <1>2, <1>4
    <2> QED BY <1>1, <1>2, <1>5, <1>7, <1>8, <2>1, <2>2 DEF Found
  <1>11. Unfailed' => Unfailed
    BY <1>2, <1>5, <1>6 DEF Unfailed
  <1>12. \A k \in Goroutines : k[1] \in present' /\ k[1] \notin {p}
               => k[1] \in present /\ Due(k)' \subseteq Due(k)
    BY <1>2, <1>7, DueSame
  <1> QED BY <1>1, <1>2, <1>3, <1>4, <1>10, <1>11, <1>12, StartsRan

\* CreateWorkload
LEMMA CreateRan ==
    ASSUME IInv, RanInv, CreateWorkload
    PROVE  RanInv'
  <1> DEFINE x == Resources[w.next].name
  <1>1. OtherTypes /\ FaultTypes /\ Found
    BY TypeParts DEF IInv, RanInv
  <1>2. w.pc = "create" /\ UNCHANGED <<spec, over, g, succeeded>>
    BY DEF CreateWorkload
  <1>3. x \in Workloads
    BY <1>2, ListingNow
  <1>4. CASE /\ present' = present \cup {x}
             /\ w' = [w EXCEPT !.pc = "await"]
             /\ UNCHANGED faults
    <2>1. w'.pc = "await" /\ w'.next = w.next /\ w'.failed = w.failed
      BY <1>1, <1>4 DEF OtherTypes
    <2>2. AppliedWorkloads' = AppliedWorkloads /\ Created = {} /\ Created' = {x}
      BY <1>2, <1>3, <2>1, AppliedSame DEF Created
    <2> HIDE DEF x
    <2>3. present' \cap Workloads = (present \cap Workloads) \cup {x}
      BY <1>3, <1>4
    <2>4. Found'
      BY <1>1, <1>2, <1>4, <2>1, <2>2, <2>3 DEF Found
    <2>5. Unfailed' => Unfailed
      BY <1>2, <1>4, <2>1 DEF Unfailed
    <2>6. \A k \in Goroutines : k[1] \in present' => k[1] \in present
      <3>1. x \notin Pods
        BY <1>3, ClusterAssumption
      <3> QED BY <1>4, <3>1, GoroutineIs
    <2> QED BY <1>2, <2>2, <2>4, <2>5, <2>6, QuietRan
  <1>5. CASE Fault /\ StageFails(w) /\ UNCHANGED present
    <2>1. w'.pc = "failed" /\ w'.next = w.next /\ w'.failed = w.failed /\ faults' # 0
      BY <1>1, <1>5, StageFailsIs, FaultFails
    <2> QED BY <1>2, <1>5, <2>1, WorkerRan
  <1> QED BY <1>4, <1>5 DEF CreateWorkload

\* applyWorkloadPodResources: the workload concerns the pods that get a goroutine, no other.
LEMMA AwaitRan ==
    ASSUME IInv, RanInv, applyWorkloadPodResources
    PROVE  RanInv'
  <1> DEFINE x == Resources[w.next].name
             pods == PodsOf(x)
  <1>1. TypeOK /\ OtherTypes /\ FaultTypes /\ Found
    BY TypeParts DEF IInv, RanInv
  <1>2. /\ w.pc \in {"await", "relist"} /\ UNCHANGED <<spec, present, over, succeeded>>
    BY DEF applyWorkloadPodResources, clusterVars
  <1>3. /\ w.next \in DOMAIN Resources /\ w.next <= Len(Resources)
        /\ Resources[w.next].kind = "Workload"
        /\ x \in Workloads
    BY <1>2, ListingNow
  <1>4. \/ w' = [w EXCEPT !.pc = "relist"] /\ UNCHANGED <<g, faults>>
        \/ waitExec(pods, 1) /\ NextResource /\ UNCHANGED faults
        \/ Fault /\ StageFails(w) /\ UNCHANGED g
    BY DEF applyWorkloadPodResources
  <1>5. CASE w' = [w EXCEPT !.pc = "relist"] /\ UNCHANGED <<g, faults>>
    <2>1. w'.pc = "relist" /\ w'.next = w.next /\ w'.failed = w.failed
      BY <1>1, <1>5 DEF OtherTypes
    <2>2. Created' = Created
      BY <1>2, <2>1 DEF Created
    <2> QED BY <1>2, <1>5, <2>1, <2>2, WorkerRan
  <1>6. CASE waitExec(pods, 1) /\ NextResource /\ UNCHANGED faults
    <2>1. w'.pc = "apply" /\ w'.failed = w.failed
      BY <1>1, <1>3, <1>6, NextResourceIs
    <2>2. AppliedWorkloads' = AppliedWorkloads \cup {x}
      BY <1>1, <1>3, <1>6, AppliedNext
    <2>3. Created = {x} /\ Created' = {}
      BY <1>2, <1>3, <2>1 DEF Created
    <2>4. pods \subseteq Pods /\ pods \subseteq PodsOfResource(w.next) /\ pods \subseteq present
      BY <1>3 DEF PodsOf, PodsWith, PodsOfResource
    <2>5. \A k \in Goroutines : g'[k].pc # "none" => k[1] \in pods \/ g[k].pc # "none"
      BY <1>6 DEF waitExec
    <2>6. \A p \in Pods \cap present : p \notin pods
            => ~(NsOf[x] = NsOf[p] /\ MatchLabels[x] \subseteq LabelsOf[p])
      BY DEF PodsOf, PodsWith
    <2> HIDE DEF pods, x
    <2>7. Found'
      <3>1. \A k \in Goroutines : g'[k].pc # "none" => k[1] \in present' \cup over'
        BY <1>1, <1>2, <2>4, <2>5 DEF Found
      <3> QED BY <1>1, <1>2, <2>1, <2>2, <2>3, <3>1 DEF Found
    <2>8. Unfailed' => Unfailed
      BY <1>2, <1>6, <2>1 DEF Unfailed
    <2>9. ASSUME NEW k \in Goroutines, k[1] \in present', k[1] \notin pods
          PROVE  k[1] \in present /\ Due(k)' \subseteq Due(k)
      <3>1. k[1] \in present /\ k[1] \in Pods
        BY <1>2, <2>9, GoroutineIs
      <3>2. ASSUME NEW h, validateHook({k[1]} \cup AppliedWorkloads \cup {x}, h, k[1], {})
            PROVE  validateHook({k[1]} \cup AppliedWorkloads, h, k[1], {})
        <4>1. \A y : Leads(y, h, k[1]) => y # x
          BY <2>6, <2>9, <3>1 DEF Leads
        <4> QED BY <3>1, <3>2, <4>1, SelectedBy
      <3>3. \A i : HookAt(k, i)' = HookAt(k, i)
        BY <1>2 DEF HookAt
      <3>4. ({k[1]} \cup AppliedWorkloads)' = {k[1]} \cup AppliedWorkloads \cup {x}
        BY <2>2
      <3> QED BY <1>2, <3>1, <3>2, <3>3, <3>4 DEF Due
    <2> QED BY <1>1, <1>2, <1>3, <1>6, <2>4, <2>7, <2>8, <2>9, StartsRan
  <1>7. CASE Fault /\ StageFails(w) /\ UNCHANGED g
    <2>1. w'.pc = "failed" /\ w'.next = w.next /\ w'.failed = w.failed /\ faults' # 0
      BY <1>1, <1>7, StageFailsIs, FaultFails
    <2> QED BY <1>2, <1>7, <2>1, WorkerRan
  <1> QED BY <1>4, <1>5, <1>6, <1>7

\* CloseHooksErrs and the watchers
LEMMA AsideRan ==
    ASSUME IInv, RanInv, CloseHooksErrs \/ \E x \in Workloads : Watcher(x)
    PROVE  RanInv'
  <1>1. /\ UNCHANGED <<spec, w, g, succeeded, present, over, faults>>
        /\ closed => closed'
    BY DEF CloseHooksErrs, Watcher, WatcherLists, WatcherSees, WatcherEnds, WatcherBecomes,
           syncVars, clusterVars
  <1>2. AppliedWorkloads' = AppliedWorkloads /\ Created' = Created /\ (Unfailed' => Unfailed)
    BY <1>1 DEF AppliedWorkloads, Created, Unfailed
  <1>3. Found'
    BY <1>1, <1>2 DEF RanInv, Found
  <1> QED BY <1>1, <1>2, <1>3, QuietRan

\* A pod that is gone does not come back by itself.
LEMMA ClusterRan ==
    ASSUME IInv, RanInv, NEW p \in Pods, Cluster(p)
    PROVE  RanInv'
  <1>1. /\ \/ present' = present /\ over \subseteq over'
           \/ present' = present \cup {p} /\ over' = over /\ p \notin present \cup over
           \/ present' = present \ {p} /\ over' = over \cup {p}
        /\ UNCHANGED <<spec, w, closed, g, succeeded, faults>>
    BY DEF Cluster, PodAppears, ContainerStarts, PodEnds, PodDeleted, Deliver, syncVars
  <1>2. AppliedWorkloads' = AppliedWorkloads /\ Created' = Created /\ (Unfailed' => Unfailed)
    BY <1>1 DEF AppliedWorkloads, Created, Unfailed
  <1>3. p \notin Workloads
    BY ClusterAssumption
  <1>4. \A k \in Goroutines : g[k].pc # "none" => k[1] \in present \cup over
    BY DEF RanInv, Found
  <1>5. Found'
    <2>1. \A k \in Goroutines : g'[k].pc # "none" => k[1] \in present' \cup over'
      BY <1>1, <1>4
    <2>2. present' \cap Workloads = present \cap Workloads
      BY <1>1, <1>3
    <2> QED BY <1>1, <1>2, <2>1, <2>2 DEF RanInv, Found
  <1>6. \A k \in Goroutines : g[k].pc # "none" /\ k[1] \in present' => k[1] \in present
    BY <1>1, <1>4
  <1> QED BY <1>1, <1>2, <1>5, <1>6, QuietRan

\* Nothing has run at first, and the workloads are those that exist.
LEMMA InitRan ==
    ASSUME Init
    PROVE  RanInv
  <1>1. /\ w = [pc |-> "collect", next |-> 1, failed |-> FALSE, col |-> <<>>, ext |-> <<>>]
        /\ present = Existing /\ g = [k \in Goroutines |-> NoGoroutine]
    BY DEF Init
  <1>2. NoGoroutine.pc = "none" /\ NoGoroutine.ran = {}
    BY DEF NoGoroutine
  <1>3. AppliedWorkloads = Existing \cap Workloads /\ Created = {}
    <2>1. \A i \in DOMAIN Resources : ~(i < 1)
      BY StageAssumption
    <2> QED BY <1>1, <2>1 DEF AppliedWorkloads, Created
  <1>4. Found
    BY <1>1, <1>2, <1>3 DEF Found
  <1>5. CoveredPods
    BY <1>1, <1>2 DEF CoveredPods, Started, GoroutinesOf
  <1> QED BY <1>1, <1>2, <1>4, <1>5 DEF RanInv, RanWell, AtWork

\* Every step keeps it.
LEMMA NextRan ==
    ASSUME IInv, RanInv, [Next]_vars
    PROVE  RanInv'
  <1>1. CASE Worker
    BY <1>1, CallsRan, SkipRan, PodRan, CreateRan, AwaitRan DEF Worker
  <1>2. CASE CloseHooksErrs \/ \E x \in Workloads : Watcher(x)
    BY <1>2, AsideRan
  <1>3. CASE \E k \in Goroutines : Goroutine(k) \/ Tick(k)
    BY <1>3, GoroutineRan
  <1>4. CASE \E p \in Pods : Cluster(p)
    BY <1>4, ClusterRan
  <1>5. CASE UNCHANGED vars
    <2>1. UNCHANGED <<spec, w, closed, g, succeeded, present, over, faults>>
      BY <1>5 DEF vars
    <2>2. AppliedWorkloads' = AppliedWorkloads /\ Created' = Created /\ (Unfailed' => Unfailed)
      BY <2>1 DEF AppliedWorkloads, Created, Unfailed
    <2>3. Found'
      BY <2>1, <2>2 DEF RanInv, Found
    <2> QED BY <2>1, <2>2, <2>3, QuietRan
  <1> QED BY <1>1, <1>2, <1>3, <1>4, <1>5 DEF Next, Stage

\* When the last resource is applied every workload is.
LEMMA AllApplied ==
    ASSUME OtherTypes, w.next > Len(Resources)
    PROVE  AppliedWorkloads = Workloads
  <1>1. \A i \in DOMAIN Resources : i < w.next
    <2>1. /\ \A i \in DOMAIN Resources : i \in Nat /\ i <= Len(Resources)
          /\ Len(Resources) \in Nat /\ w.next \in Nat
      BY StageAssumption DEF OtherTypes
    <2> QED BY <2>1
  <1>2. \A x \in Workloads : x \in Existing \/ \E i \in DOMAIN Resources :
            Resources[i].kind = "Workload" /\ Resources[i].name = x
    BY ScopeAssumption
  <1> QED BY <1>1, <1>2 DEF AppliedWorkloads

\* A stage without a failed call of the API server completes only when the hooks that must
\* succeed have, in every pod it started the hooks of and that is there
\* (restore_hooks.go:116-282).
THEOREM HooksRanWhenCompleted == Spec => []CompletedMeansHooksRan
  <1>1. Init => RanInv
    BY InitRan
  <1>2. IInv /\ RanInv /\ [Next]_vars => RanInv'
    BY NextRan
  <1>3. IInv /\ RanInv => CompletedMeansHooksRan
    <2> SUFFICES ASSUME IInv, RanInv, w.pc = "completed", faults = 0,
                        NEW p \in present \cap Pods, \E k \in GoroutinesOf(p) : g[k].pc # "none",
                        NEW h \in HooksFor(p), h.fail,
                        h.container = "unset" \/ podHasContainer(p, h.container)
                 PROVE  <<p, h.id>> \in succeeded
      BY DEF CompletedMeansHooksRan
    <2>1. closed /\ w.next > Len(Resources) /\ ~w.failed
      BY DEF RanInv, Found, IInv, CountInv, ClosedLast
    <2>2. Unfailed /\ Started(p) # {}
      BY <2>1 DEF Unfailed, Started
    <2>3. PICK k \in Started(p) : NoneForgotten(k, g[k], succeeded)
      BY <2>2 DEF RanInv, CoveredPods
    <2>4. k \in Goroutines /\ k[1] = p /\ g[k].pc # "none"
      BY <2>3 DEF Started, GoroutinesOf
    <2>5. g[k].pc = "done"
      BY <2>1, <2>4, ClosedMeansThrough DEF NoSendOnClosed
    <2>6. AppliedWorkloads = Workloads
      BY <2>1, TypeParts, AllApplied DEF IInv
    <2>7. PICK i \in DOMAIN Candidates(spec, p) :
             /\ Candidates(spec, p)[i] = h
             /\ p \in DOMAIN Annotated \/ validateHook({p} \cup AppliedWorkloads, h, p, {})
      <3>1. CASE p \in DOMAIN Annotated
        <4>1. h = Annotated[p] /\ Candidates(spec, p) = <<Annotated[p]>>
          BY <3>1 DEF HooksFor, Candidates
        <4>2. 1 \in DOMAIN <<Annotated[p]>> /\ <<Annotated[p]>>[1] = Annotated[p]
          OBVIOUS
        <4> QED BY <3>1, <4>1, <4>2
      <3>2. CASE p \notin DOMAIN Annotated
        <4>1. h \in ToSet(spec) /\ validateHook(Pods \cup Workloads, h, p, {})
          BY <3>2 DEF HooksFor
        <4>2. Candidates(spec, p) = spec
          BY <3>2 DEF Candidates
        <4>3. \E i \in DOMAIN spec : spec[i] = h
          BY <4>1 DEF ToSet
        <4>4. validateHook({p} \cup AppliedWorkloads, h, p, {})
          BY <2>6, <4>1, SelectedBy
        <4> QED BY <4>2, <4>3, <4>4
      <3> QED BY <3>1, <3>2
    <2>8. i \in Due(k) /\ HookAt(k, i) = h
      BY <2>4, <2>7 DEF Due, HookAt
    <2> QED BY <2>3, <2>4, <2>5, <2>8 DEF NoneForgotten
  <1> QED BY <1>1, <1>2, <1>3, Inductive, PTL DEF Spec

=============================================================================
