----------------------------- MODULE RoleInstance -----------------------------
(***************************************************************************)
(* The RoleInstance controller (pkg/reconciler/roleinstance): one          *)
(* instance, its pods, the two informer caches, the controller's           *)
(* restartingCache and its work queue; the kubelet, the clock and the      *)
(* RoleInstanceSet controller, which updates the instance in place, are    *)
(* its environment.                                                        *)
(*                                                                         *)
(* A pass decides from the cached instance and pods, and from two direct   *)
(* reads of the API server.  Its writes find the live objects (they are    *)
(* retried on conflict until the cache has caught up), in four phases:     *)
(* Scale, Update, the status, the pods' lifecycle gates.  A phase may stop *)
(* early on an error, and the process may die in any of them.              *)
(***************************************************************************)
EXTENDS RestartRules, FiniteSetsExt

CONSTANT Scenarios     \* the configurations and bounds a behaviour may have

Gang == conf.gang       \* gang scheduling is enabled
Gated == conf.gated     \* spec.readinessGates holds InPlaceUpdateReady: a set owns it
Edits == conf.edits     \* the [rev, size] somebody may write into the spec
MaxEdits == conf.maxEdits         \* bounds
MaxFaults == conf.maxFaults
MaxFailures == conf.maxFailures

Specs == [rev : Revisions, size : Sizes]
Configuration ==
  [policy : BOOLEAN, baseDelay : Nat, maxDelay : Nat, ignored : SUBSET Components, startAfter : Graphs, deleteAfter : Graphs,
   gang : BOOLEAN, gated : BOOLEAN,
   spec : Specs, settled : BOOLEAN,    \* created with spec, or running it already
   edits : SUBSET Specs, readsFail : BOOLEAN,   \* the direct reads of a pass may fail
   maxEdits : Nat, maxFaults : Nat, maxFailures : Nat]
ASSUME ScenariosAssumption == Scenarios \subseteq Configuration

VARIABLES
  inst,       \* the RoleInstance in the API server
  pods,       \* its pods in the API server
  cacheInst,  \* the informer's copy of inst
  cachePods,  \* the informer's copy of pods
  mem,        \* restartingCache holds the instance
  queued,     \* the instance's key is in the work queue
  timer,      \* ticks until a delayed requeue, 0 when there is none
  update,     \* the set's in-place update: "idle", "closing" the gate, or "shut"
  faults,     \* failed API calls and controller deaths so far
  failures    \* pods and containers that crashed so far

apiVars == <<inst, pods>>
cacheVars == <<cacheInst, cachePods>>
bounds == <<faults, failures, conf>>
vars == <<apiVars, cacheVars, mem, queued, timer, update, bounds>>

ComponentStatus == [size : Nat, ready : Nat, updated : Nat]
Status == [obs : Nat, cur : Revisions \cup {NoRev}, upd : Revisions \cup {NoRev},
           ready : BOOLEAN, restarting : BOOLEAN, failed : BOOLEAN,
           comps : [Components -> ComponentStatus], count : Nat, last : Nat \cup {Never},
           base : [Pods -> Baseline \cup {NoBaseline}], gc : {"none", "no", "yes"}]
Object == [gen : Nat, rev : Revisions, size : Sizes, st : Status]

\* Every variable holds a value of its type, ages and counters their bounds.
TypeOK ==
  /\ conf \in Scenarios
  /\ inst \in Object /\ cacheInst \in Object
  /\ pods \in [Pods -> Pod] /\ cachePods \in [Pods -> Pod]
  /\ mem \in BOOLEAN /\ queued \in BOOLEAN
  /\ timer \in 0 .. MaxDelay
  /\ update \in {"idle", "closing", "shut"}
  /\ faults \in 0 .. MaxFaults /\ failures \in 0 .. MaxFailures
  /\ inst.gen <= MaxEdits + 1 /\ inst.st.last <= StableThreshold + 1

-----------------------------------------------------------------------------
(***************************************************************************)
(* What a pass decides.  blind names the direct reads that failed; late    *)
(* says that the pod cache caught up after the pass listed the pods.       *)
(***************************************************************************)
Reads == {"tracking", "guard"}

\* Mutant: the back-off looks at the cached status.
CachedStatus(blind) == cacheInst.st
FreshStatus(blind) == IF "tracking" \in blind THEN cacheInst.st ELSE inst.st

\* updateInstance.Status after syncRestartTrackingFromAPI
Tracked(blind) ==
  IF RecreatePolicy /\ "tracking" \notin blind
    THEN SyncRestartTracking(cacheInst.st, inst.st) ELSE cacheInst.st

Backoff(blind) == RestartBackoff(cacheInst.gen, Tracked(blind), FreshStatus(blind), cachePods)

IsAlreadyRestarting(blind) == mem \/ ("guard" \notin blind /\ inst.st.restarting)

Triggers(blind, wait) ==
  /\ wait = 0
  /\ ShouldRecreateInstance(cacheInst.gen, Tracked(blind), cachePods)
  /\ ~IsAlreadyRestarting(blind)

SameShape(r1, r2) == \A c \in Components : Template[r1][c].shape = Template[r2][c].shape
GangRecreates == Gang /\ \E p \in Active(cachePods) : ~SameShape(cachePods[p].rev, cacheInst.rev)

Deletes(triggered) ==
  IF triggered THEN Existing(cachePods)
  ELSE IF GangRecreates THEN Active(cachePods)
  ELSE Failed(cachePods) \cup ToDelete(cachePods, cacheInst.size)

Creates(late) ==
  {p \in ToScale(cachePods, cacheInst.size, cacheInst.st.comps) :
     ~(IF late THEN pods ELSE cachePods)[p].exists}

\* deletePods goes through the active pods first when all pods are deleted.
DeletedBefore(triggered, p, q) ==
  triggered /\ p \in Active(cachePods) /\ q \notin Active(cachePods)

ScaleOp(wait, triggered, late) ==
  IF wait > 0 THEN [op |-> "none", on |-> {}, refused |-> {}]
  ELSE IF Deletes(triggered) # {}
    THEN [op |-> "delete", on |-> Deletes(triggered), refused |-> Pods \ Existing(pods)]
  ELSE [op |-> "create", on |-> Creates(late), refused |-> Existing(pods)]

\* The pods after the Scale writes to the pods in D.
Scaled(op, D) ==
  [p \in Pods |-> IF p \notin D THEN pods[p]
                  ELSE IF op = "create" THEN NewUpdatePod(cacheInst.rev)
                  ELSE [pods[p] EXCEPT !.term = TRUE]]

-----------------------------------------------------------------------------
(* The Update phase: Refresh of every active pod, then updatePod. *)
\* Mutant: only a pod without the condition is refreshed.
RefreshNewOnly == {p \in Active(cachePods) : cachePods[p].inplace = "none"}
Refreshes == {p \in Active(cachePods) :
                UpdateCompleted(p, cachePods[p]) /\ cachePods[p].inplace # "yes"}
Outdated == {p \in Active(cachePods) : cachePods[p].rev # cacheInst.rev}

UpdateKind(p) ==
  LET old == Template[cachePods[p].rev][p[1]]
      new == Template[cacheInst.rev][p[1]]
  IN  IF old.shape # new.shape THEN "recreate" ELSE IF old.image # new.image THEN "image" ELSE "label"

\* The readiness of a pod is taken away before it is updated.  SetPodCondition
\* leaves a condition that is False already, with its message.  The image update
\* also looks for the instance's gate type on the pod, which no pod carries.
BeginUpdate(kind, pod) ==
  CASE kind = "image" -> [pod EXCEPT !.inplace = "no"]
    [] kind = "label" -> [pod EXCEPT !.gate = IF @ = "keyed" THEN @ ELSE "bare"]
    [] kind = "recreate" -> pod

\* The patch of the pod's spec and label, or its deletion.
FinishUpdate(kind, pod) ==
  IF kind = "recreate" THEN [pod EXCEPT !.term = TRUE] ELSE [pod EXCEPT !.rev = cacheInst.rev]

\* R are refreshed, the updates of B begin and those of U finish.
Updated(Q, R, B, U) ==
  [p \in Pods |->
    LET refreshed == IF p \in R THEN [Q[p] EXCEPT !.inplace = "yes"] ELSE Q[p]
        begun == IF p \in B THEN BeginUpdate(UpdateKind(p), refreshed) ELSE refreshed
    IN  IF p \in U THEN FinishUpdate(UpdateKind(p), begun) ELSE begun]

\* recordInPlaceUpdateBaselines; a container that never ran has no status to record.
Baselines(U) ==
  [p \in Pods |-> IF p \in U /\ UpdateKind(p) = "image" /\ cachePods[p].image # NoImage
                    THEN [restarts |-> cachePods[p].restarts, image |-> cachePods[p].image]
                    ELSE cacheInst.st.base[p]]

-----------------------------------------------------------------------------
(* The status, computed from the pods the pass listed. *)
ComponentStatuses ==
  [c \in Components |->
    LET mine == {p \in Active(cachePods) : p[1] = c}
    IN  [size |-> Cardinality(mine),
         ready |-> Cardinality({p \in mine : IsPodUpdateReady(cachePods[p])}),
         updated |-> Cardinality({p \in mine : cachePods[p].rev = cacheInst.rev})]]

FullyUpdated ==
  Outdated = {} /\ Cardinality(Active(cachePods)) = Cardinality(Desired(cacheInst.size))

\* RoleInstanceInPlaceUpdateReady is required and not true.
GateShut == Gated /\ cacheInst.st.gc # "yes"

\* getInstanceReadyCondition; V is what the pod cache holds when it is asked.
InstanceReady(V) ==
  /\ ~GateShut
  /\ \A p \in Desired(cacheInst.size) : V[p].exists /\ ~V[p].term /\ IsPodUpdateReady(V[p])

\* What is left of Restarting: kept while the pass scales, and until Ready.
RestartingCondition(scaling, track, ready) ==
  (scaling /\ track.restarting) \/ (cacheInst.st.restarting /\ ~ready)

\* track is the restart tracking to propagate: updateInstance's when the pass
\* scaled, the cached one otherwise.
NewStatus(scaling, track, failed, base, ready) ==
  [obs |-> cacheInst.gen, upd |-> cacheInst.rev,
   cur |-> IF FullyUpdated \/ cacheInst.st.cur = NoRev THEN cacheInst.rev ELSE cacheInst.st.cur,
   ready |-> ready, restarting |-> RestartingCondition(scaling, track, ready), failed |-> failed,
   comps |-> ComponentStatuses, count |-> track.count, last |-> track.last,
   base |-> [p \in Pods |-> IF FullyUpdated /\ p \notin Active(cachePods) THEN NoBaseline ELSE base[p]],
   gc |-> cacheInst.st.gc]

\* updateStatus: restart tracking is overwritten only by the pass that restarts.
LandedStatus(new, restarts) ==
  IF restarts THEN new ELSE [new EXCEPT !.count = inst.st.count, !.last = inst.st.last]

-----------------------------------------------------------------------------
(* The lifecycle gates of the listed pods. *)
MarkPodNotReady ==
  GateShut \/ \E p \in Active(cachePods) : ~IsPodRuntimeReady(cachePods[p])

Lifecycles == {p \in Active(cachePods) :
  cachePods[p].gate = "none" \/ MarkPodNotReady # (cachePods[p].gate = "keyed")}

\* AddNotReadyKey or RemoveNotReadyKey on the live pod
KeyedGate(p, gate) ==
  IF cachePods[p].gate = "none" \/ MarkPodNotReady THEN "keyed"
  ELSE IF gate = "keyed" THEN "open" ELSE gate

WithLifecycle(Q, L) ==
  [p \in Pods |-> IF p \in L THEN [Q[p] EXCEPT !.gate = KeyedGate(p, Q[p].gate)] ELSE Q[p]]

-----------------------------------------------------------------------------
(***************************************************************************)
(* A pass.  die is the phase (1 Scale, 2 Update, 3 status, 4 lifecycle) in *)
(* which the process dies, 5 when it survives.  A phase stops at its first *)
(* error: what it did is a subset of what it meant to do.  An error costs  *)
(* a fault unless the live object explains it.                             *)
(***************************************************************************)
Cost(phase, die, missing, refused) ==
  IF phase >= die \/ missing = {} \/ missing \cap refused # {} THEN 0 ELSE 1
Done(phase, die, meant, refused) == IF phase > die THEN {{}} ELSE SUBSET (meant \ refused)

AddAfter(t, ticks) == IF t = 0 THEN ticks ELSE IF ticks < t THEN ticks ELSE t

\* Mutant: a pass that backs off asks for no requeue.
AfterPassNoRequeue(die, err, cleared, triggered, wait) ==
  IF die < 5
    THEN /\ mem' = FALSE /\ queued' = TRUE /\ timer' = 0
         /\ cacheInst' = inst' /\ cachePods' = pods'
    ELSE /\ mem' = ((mem \/ triggered) /\ ~cleared)
         /\ queued' = err
         /\ UNCHANGED <<timer, cacheVars>>

\* What the process keeps: a dead one starts again with fresh caches and every
\* key queued.
AfterPass(die, err, cleared, triggered, wait) ==
  IF die < 5
    THEN /\ mem' = FALSE /\ queued' = TRUE /\ timer' = 0
         /\ cacheInst' = inst' /\ cachePods' = pods'
    ELSE /\ mem' = ((mem \/ triggered) /\ ~cleared)
         /\ queued' = err
         /\ timer' = IF err \/ wait = 0 THEN timer ELSE AddAfter(timer, wait)
         /\ UNCHANGED cacheVars

\* What a pass sets out to do.
Plan(blind, late) ==
  LET wait == Backoff(blind)
      triggered == Triggers(blind, wait)
      scale == ScaleOp(wait, triggered, late)
  IN  [wait |-> wait, triggered |-> triggered, op |-> scale.op, on |-> scale.on,
       refused |-> scale.refused, lifecycles |-> Lifecycles]

\* After Scale wrote to the pods in D; a pass that scaled updates nothing.
AfterScale(plan, blind, D) ==
  LET Q == Scaled(plan.op, D)
      updates == D = {} /\ plan.wait = 0
  IN  [pods |-> Q, gone |-> Pods \ Existing(Q), scaling |-> D # {}, restarts |-> D # {} /\ plan.triggered,
       track |-> IF D = {} THEN cacheInst.st
                 ELSE IF plan.triggered THEN RestartTracked(Tracked(blind)) ELSE Tracked(blind),
       refreshes |-> IF updates THEN Refreshes ELSE {}, outdated |-> IF updates THEN Outdated ELSE {}]

\* After Update refreshed R, began B and finished U: the pods and the new status.
AfterUpdate(scaled, late, unscaled, R, B, U) ==
  LET Q == Updated(scaled.pods, R, B, U)
      failed == unscaled \/ R # scaled.refreshes \/ U # scaled.outdated
      ready == InstanceReady(IF late THEN Q ELSE cachePods)
  IN  [pods |-> Q, failed |-> failed, ready |-> ready,
       st |-> NewStatus(scaled.scaling, scaled.track, failed, Baselines(U), ready)]

\* The status and the lifecycle gates; spent counts the faults so far.
Conclude(die, spent, plan, scaled, done) ==
  \E L \in Done(4, die, plan.lifecycles, scaled.gone), acked \in BOOLEAN, landed \in BOOLEAN :
    LET changed == done.st # cacheInst.st IN
    /\ landed => changed /\ die >= 3
    /\ acked => (landed = changed)
    /\ faults' = spent + (IF acked \/ die <= 3 THEN 0 ELSE 1)
                 + Cost(4, die, plan.lifecycles \ L, scaled.gone)
    /\ faults' <= MaxFaults
    /\ pods' = WithLifecycle(done.pods, L)
    /\ inst' = IF landed THEN [inst EXCEPT !.st = LandedStatus(done.st, scaled.restarts)] ELSE inst
    /\ AfterPass(die, done.failed \/ ~acked \/ L # plan.lifecycles,
                 done.ready /\ acked /\ L = plan.lifecycles, plan.triggered, plan.wait)

\* The Update phase and what follows it; \E x \in {e} names the value e.
UpdateOn(die, spent, late, plan, unscaled, scaled) ==
  \E R \in Done(2, die, scaled.refreshes, scaled.gone),
     U \in Done(2, die, scaled.outdated, scaled.gone),
     half \in Done(2, die, scaled.outdated, scaled.gone) :
    LET missing == IF R # scaled.refreshes THEN scaled.refreshes \ R ELSE scaled.outdated \ U
        spent2 == spent + Cost(2, die, missing, scaled.gone)
    IN
    /\ spent2 <= MaxFaults
    /\ R # scaled.refreshes => U \cup half = {}
    /\ half \cap U = {} /\ Cardinality(half) <= 1
    /\ \E done \in {AfterUpdate(scaled, late, unscaled, R, U \cup half, U)} :
         Conclude(die, spent2, plan, scaled, done)

\* The Scale phase and what follows it.
ScaleOn(die, spent, blind, late, plan) ==
  \E D \in SUBSET (plan.on \ plan.refused) :
    LET spent1 == spent + Cost(1, die, plan.on \ D, plan.refused) IN
    /\ spent1 <= MaxFaults
    /\ \A p \in D, q \in plan.on \ D : plan.op = "delete" => ~DeletedBefore(plan.triggered, q, p)
    /\ \E scaled \in {AfterScale(plan, blind, D)} :
         UpdateOn(die, spent1, late, plan, D # plan.on, scaled)

Pass ==
  /\ queued
  /\ UNCHANGED <<update, failures, conf>>
  /\ \E blind \in SUBSET (IF conf.readsFail THEN Reads ELSE {}), late \in BOOLEAN, die \in 1 .. 5 :
     LET spent == faults + Cardinality(blind) + (IF die < 5 THEN 1 ELSE 0) IN
     /\ spent <= MaxFaults
     /\ \E plan \in {Plan(blind, late)} : ScaleOn(die, spent, blind, late, plan)

\* The process dies between two passes.
Restart ==
  /\ faults < MaxFaults
  /\ faults' = faults + 1
  /\ mem' = FALSE /\ queued' = TRUE /\ timer' = 0
  /\ cacheInst' = inst /\ cachePods' = pods
  /\ UNCHANGED <<apiVars, update, failures, conf>>

\* The informers catch up; every event enqueues the instance.
SyncInst ==
  /\ cacheInst # inst
  /\ cacheInst' = inst /\ queued' = TRUE
  /\ UNCHANGED <<apiVars, cachePods, mem, timer, update, bounds>>

SyncPods ==
  /\ cachePods # pods
  /\ cachePods' = pods /\ queued' = TRUE
  /\ UNCHANGED <<apiVars, cacheInst, mem, timer, update, bounds>>

Older(obj) ==
  IF obj.st.last = Never \/ obj.st.last > StableThreshold THEN obj
  ELSE [obj EXCEPT !.st.last = @ + 1]

\* A tick of the clock, which is longer than an informer lags: delays are tens of
\* seconds.
Tick ==
  /\ timer > 0 \/ Older(inst) # inst
  /\ cacheInst = inst /\ cachePods = pods
  /\ inst' = Older(inst) /\ cacheInst' = Older(cacheInst)
  /\ timer' = IF timer = 0 THEN 0 ELSE timer - 1
  /\ queued' = (queued \/ timer = 1)
  /\ UNCHANGED <<pods, cachePods, mem, update, bounds>>

-----------------------------------------------------------------------------
(* The kubelet. *)
SetPod(p, pod) ==
  /\ pods' = [pods EXCEPT ![p] = pod]
  /\ UNCHANGED <<inst, cacheVars, mem, queued, timer, update, faults, conf>>

Lives(p) == pods[p].exists /\ ~pods[p].term
Runs(p) == Lives(p) /\ pods[p].st # "failed" /\ pods[p].image # NoImage

PodReady(p) ==
  /\ Lives(p) /\ pods[p].st = "starting"
  /\ SetPod(p, [pods[p] EXCEPT !.st = "up", !.image = IF @ = NoImage THEN Wanted(p, pods[p]) ELSE @])
  /\ UNCHANGED failures

\* A new image in the pod's spec: the container is replaced.
ImageReplaced(p) ==
  /\ Runs(p) /\ pods[p].image # Wanted(p, pods[p])
  /\ SetPod(p, [pods[p] EXCEPT !.st = "starting", !.image = Wanted(p, pods[p]), !.restarts = @ + 1])
  /\ UNCHANGED failures

PodGone(p) ==
  /\ pods[p].exists /\ pods[p].term
  /\ SetPod(p, NoPod)
  /\ UNCHANGED failures

ContainerCrashes(p) ==
  /\ Runs(p) /\ failures < MaxFailures
  /\ SetPod(p, [pods[p] EXCEPT !.st = "starting", !.image = Wanted(p, pods[p]), !.restarts = @ + 1])
  /\ failures' = failures + 1

PodFails(p) ==
  /\ Runs(p) /\ failures < MaxFailures
  /\ SetPod(p, [pods[p] EXCEPT !.st = "failed"])
  /\ failures' = failures + 1

-----------------------------------------------------------------------------
(* The owner of the spec: the set's in-place update, or a user. *)
SetInst(obj) ==
  /\ inst' = obj
  /\ UNCHANGED <<pods, cacheVars, mem, queued, timer, bounds>>

CloseGate ==
  /\ Gated /\ update # "closing" /\ inst.gen <= MaxEdits
  /\ update' = "closing"
  /\ SetInst([inst EXCEPT !.st.gc = "no", !.st.ready = FALSE])

EditSpec ==
  /\ inst.gen <= MaxEdits
  /\ Gated => update = "closing"
  /\ \E e \in Edits :
       /\ e # [rev |-> inst.rev, size |-> inst.size]
       /\ SetInst([inst EXCEPT !.gen = @ + 1, !.rev = e.rev, !.size = e.size])
  /\ update' = IF Gated THEN "shut" ELSE update

OpenGate ==
  /\ Gated /\ update # "closing" /\ inst.st.gc # "yes"
  /\ inst.st.obs = inst.gen
  /\ \A c \in Components : inst.st.comps[c].updated = inst.size[c]
  /\ update' = "idle"
  /\ SetInst([inst EXCEPT !.st.gc = "yes"])

-----------------------------------------------------------------------------
Running(rev, size) ==
  [p \in Pods |-> IF p \notin Desired(size) THEN NoPod
                  ELSE [NewUpdatePod(rev) EXCEPT !.st = "up", !.image = Template[rev][p[1]].image,
                                                 !.inplace = "yes", !.gate = "open"]]

InitStatus ==
  [obs |-> 0, cur |-> NoRev, upd |-> NoRev, ready |-> FALSE, restarting |-> FALSE, failed |-> FALSE,
   comps |-> [c \in Components |-> [size |-> 0, ready |-> 0, updated |-> 0]],
   count |-> 0, last |-> Never, base |-> [p \in Pods |-> NoBaseline], gc |-> "none"]

SettledStatus(spec, gate) ==
  [InitStatus EXCEPT !.obs = 1, !.cur = spec.rev, !.upd = spec.rev, !.ready = TRUE,
     !.comps = [c \in Components |->
                  [size |-> spec.size[c], ready |-> spec.size[c], updated |-> spec.size[c]]],
     !.gc = gate]

Init ==
  /\ conf \in Scenarios
  /\ inst = [gen |-> 1, rev |-> conf.spec.rev, size |-> conf.spec.size,
             st |-> IF conf.settled THEN SettledStatus(conf.spec, IF Gated THEN "yes" ELSE "none")
                    ELSE InitStatus]
  /\ pods = IF conf.settled THEN Running(conf.spec.rev, conf.spec.size) ELSE [p \in Pods |-> NoPod]
  /\ cacheInst = inst /\ cachePods = pods
  /\ mem = FALSE /\ queued = TRUE /\ timer = 0 /\ update = "idle"
  /\ faults = 0 /\ failures = 0

Kubelet(p) ==
  PodReady(p) \/ ImageReplaced(p) \/ PodGone(p)
Crash(p) == ContainerCrashes(p) \/ PodFails(p)

Next ==
  \/ Pass \/ Restart \/ SyncInst \/ SyncPods \/ Tick
  \/ \E p \in Pods : Kubelet(p) \/ Crash(p)
  \/ CloseGate \/ EditSpec \/ OpenGate

Spec == Init /\ [][Next]_vars

\* The work queue, the informers, the clock, the kubelet and the set's refresh
\* keep going.
Fairness ==
  /\ WF_vars(Pass) /\ WF_vars(SyncInst) /\ WF_vars(SyncPods) /\ WF_vars(Tick)
  /\ \A p \in Pods : WF_vars(Kubelet(p))
  /\ WF_vars(OpenGate) /\ WF_vars(EditSpec /\ Gated)

FairSpec == Spec /\ Fairness

-----------------------------------------------------------------------------
\* A recreation is counted only when the delay that the persisted count and
\* time of the last one ask for has passed (checkRestartBackoff), however old
\* the caches are and wherever the process died.
BackoffRespected ==
  [][inst'.st.count # inst.st.count =>
       inst.st.last = Never \/ inst.st.last >= RestartDelay(inst.st.count)]_vars

DependenciesUp(p) ==
  \A q \in Desired(inst.size) : q[1] \in StartDeps[p[1]] =>
     pods[q].exists /\ ~pods[q].term /\ pods[q].st = "up"

\* A pod is created only while every pod of the components it starts after is
\* there and has passed its readiness probe: what "genuinely ready" and "all
\* pods of the dependency component" say of the gate that
\* allNamedComponentsReady keeps.
StartOrder ==
  [][\A p \in Pods : ~pods[p].exists /\ pods'[p].exists => DependenciesUp(p)]_vars

\* A component that shrinks lets its pods go only when every pod that must go
\* first is gone: "fully deleted", which allDependentsDeleted decides from the
\* pods that are not yet terminating.
DeleteOrder ==
  [][\A p \in Pods \ Desired(inst.size) : ~pods[p].term /\ pods'[p].term =>
       \A q \in Pods \ Desired(inst.size) :
         q[1] \in DeletionGates[p[1]] => ~pods[q].exists]_vars

Settled ==
  /\ \A p \in Pods : IF p \in Desired(inst.size)
                      THEN /\ pods[p].exists /\ ~pods[p].term /\ IsPodUpdateReady(pods[p])
                           /\ pods[p].rev = inst.rev /\ pods[p].image = Wanted(p, pods[p])
                      ELSE ~pods[p].exists
  /\ inst.st.ready /\ ~inst.st.restarting
  /\ inst.st.cur = inst.rev /\ inst.st.obs = inst.gen

\* Whatever crashes, fails or is edited, the instance ends up running its last
\* spec, ready and no longer restarting.
Recovers == <>[]Settled
=============================================================================
