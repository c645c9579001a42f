# RoleBasedGroup controllers: TLA+ models, checks and proofs

RBG (RoleBasedGroup) is a Kubernetes operator for multi-role inference services.
A *RoleBasedGroup* lists roles; every role becomes a workload, usually a
*RoleInstanceSet*; a RoleInstanceSet keeps a number of *RoleInstances*, in a
stateful (ordinal) or a stateless mode; a RoleInstance is a small group of pods
(components) that live and die together. This directory models the controllers
that keep those objects in step, where their behaviour is hard to test: passes
over stale caches, writes that fail half-way, restarts, rollbacks of rollouts
that have not ended, objects deleted and created again under the same name.

## 1. Inventory

| Component (source) | State | Operations | Talks to | Hard behaviour | What makes it correct |
|---|---|---|---|---|---|
| Stateful RoleInstanceSet controller (`pkg/reconciler/roleinstanceset/statefulmode`) | set status (current/update revision, counts, `rolloutReplacementState`), instances by ordinal; in memory: update expectations, status expectations, health windows, requeue durations | size the rollout, create, condemn, update in place or delete, advance revision, write status | API server; RoleInstance controller through instance status | two caches that lag separately; partial passes; early rollback; OrderedReady; surge and partition arithmetic | availability floor, partition pins, surge held until replaced, rollouts end; not that the revision advances only when earned (a finding) |
| RoleInstance controller (`pkg/reconciler/roleinstance`) | pods; status (revisions, conditions, component statuses, restart count and time, baselines); in memory: `restartingCache`, node bindings, pod expectations | restart policy with back-off, delete, create in component order, update pods in place, compute conditions | kubelet through pods; the set controllers through status | restart loops from stale pods, count and time races between cache and API, ordering graphs | back-off respected, no graph blocks, the instance recovers; the documented start and deletion order only in part (two findings) |
| Stateless RoleInstanceSet controller (`.../statelessmode`) | instances by random name; scale, update and resource-version expectations | scale out and in by rank, specified delete, surge, partition by count, lifecycle hooks | as above | expectations at their limits, events out of order | never more than replicas + maxSurge, never below maxUnavailable, the partition kept |
| RoleInstanceSet dispatch (`roleinstanceset_controller.go`) | pattern annotation | clean up the other pattern's instances, call a mode | both modes | flips while events are on their way; expectations by name | no duplicates, the set settles |
| RoleBasedGroup controller (`rolebasedgroup_controller.go`) | group status, revisions, child workloads, scaling adapters, pod groups | reconcile roles in dependency order with overrides, coordination and gangs; clean up orphans | all child objects | one role failing, stale adapters, a group re-created over leftovers | dependencies first, nothing inherited, every role converges |
| RoleBasedGroupScalingAdapter controller | adapter spec and phase, a role's replicas | bind, unbind, copy replicas to the group | autoscaler, group controller | rebinding, two-step writes | the role ends at what the autoscaler asked |
| RoleBasedGroupSet controller | groups by index | adopt, create, delete, update groups | group controller | stale lists, same-named predecessor | others' groups untouched, count and template converge |
| RoleBasedGroupWarmup controller | pods per node, phase, results per node | start, count, retry, time out, pause | nodes, pods | lagging pods, deadline against late success, moving targets | tolerance kept, a completed job covered its target, attempts never regress, jobs end |
| Coordination, dependencies, gang (`pkg/coordination`, `pkg/dependency`, `pkg/scheduler`) | PodGroup | order roles, bound replicas and partitions by the slowest role, size the gang | group controller | rounding, skew at the limits, gang against dependency | skew bounded, progress always possible |
| Workload reconcilers (`pkg/reconciler/*_reconciler.go`) | one workload of a kind per role, headless service | claim, apply, compare, readiness, clean up; partition of a StatefulSet | group controller | change of kind, stale ownership, surge given back | others' workloads are not taken over, one workload of the role's kind remains, the partition comes to rest; not that a role stays served while it moves (a finding) |
| Node binding, ports (`node_binding.go`, `pkg/port-allocator`) | bindings in memory, port annotations | record, evict, fold into the affinity; draw, copy, check | pods | eviction races, incarnations of a name, added allocations | pinned pods run on their hosts, ports are leases |
| Revisions (`pkg/utils/history`, `revision_utils.go`) | ControllerRevisions | find equal, number, create on collision, truncate | set and instance controllers | lagging copies, another release's serialization | revisions in use kept, no rollout without an edit |
| API versions and CoordinatedPolicy migration | the stored object and its preserving annotations, the policy | convert, default, validate, migrate | clients of both versions | round trips with old annotations | an edit rewrites only what it must, objects stay writable, the policy follows |
| Webhook certificates (`pkg/webhook`, `webhook_cert_controller.go`) | secret, files, caBundles | read or create, renew, serve, patch | replicas of the manager | two starts at once, crashes between writes | one authority, bundles trust it |
| Pod templates, discovery configuration, CLI, generated clients | none or I/O | format, serve | – | – | not modelled |

`PROJECT.json` lists every component with its files and its status, and under
`hazards` the places where the code is exposed, with the properties that watch them.

## 2. Plan and where it stands

Written, in this order: the stateful set and its proofs; the instance and its rules;
the warmup jobs; coordination, gang, group and adapters; the stateless set; the group
set; and the platform around them (dispatch, StatefulSet rollout, identity of pods,
certificates, API versions, kinds of workload, revision history).

Proofs came in the same order: the type and the partition of the stateful set; then the
surge of the stateless set, the back-off of the instance, the identity of pods with its
refinement, the group set, the dispatch, the certificates, the kinds of workload, the
stored objects and their histories, the group with its adapters, the availability floor of
the stateless set, the quiet of its histories, and what a completed warmup job promises
(section 5). Still worth proving: the budget bound of `progressUpdate` (no pass
takes more than `UpdateRoom` serving instances).

Model work that is left: one composition of set and instance with the instance's
pods (each module has the other as an environment now), deletion of a set, adoption
of revisions, LeaderWorkerSet's own rollout.

## 3. Modules

| Module | Models | Used by |
|---|---|---|
| `RolloutTopology` | the pure half of the stateful rollout: percentages, partition, surge, `computeTopology`, `progressUpdate` | `StatefulInstanceSet` |
| `StatefulInstanceSet` | one RoleInstanceSet in stateful mode with its caches, queue and process memory | `MCRollout`, `MCStateful`, `Stateful*.cfg` |
| `StatefulInstanceSetProofs` | theorems: types, partition | TLAPS |
| `ComponentGraph` | `component_lifecycle.go`: start and deletion graphs, cycles, deletion gates | `RestartRules`, `MCInstanceRules` |
| `BackoffDelay` | `calculateRestartDelay` on words of a given width | `RestartRules`, `MCInstanceRules` |
| `MCInstanceRules` | the code's depth-first search; an instance that starts and is torn down under any graphs; one that crashes for ever under any delays | `MCInstance` |
| `RestartRules` | the rules of `instance_scale.go` over one status and one list of pods | `RoleInstance` |
| `RoleInstance` | one RoleInstance, its pods, the controller's caches, queue and memory, its kubelet and its set | `MCRoleInstance`, `Instance*.cfg` |
| `RoleInstanceProofs` | theorem: the back-off | TLAPS |
| `Warmup` | one warmup job, its pods by node, lagging copies of both, its target group | `MCWarmup` |
| `WarmupProofs` | theorems: the tolerance and the coverage of a completed job | TLAPS |
| `Optional` | fields and objects that may be absent | the modules below |
| `Coordination` | pure: IntOrString, dependency levels, batches of a coordinated scale-up, partitions of a coordinated update | `CoordinatedPace`, `GangStrategy`, `StatelessInstanceSet` |
| `GangStrategy` | pure: the gang a policy or annotation asks for, its PodGroup, its floor under scaling | `RoleBasedGroup` |
| `RoleBasedGroup` | a pass of the group controller, role by role | `ScalingAdapter` |
| `ScalingAdapter` | the adapter controller beside it | `GroupSystem` |
| `GroupSystem` | both controllers composed with workloads, scheduler, collector, autoscaler and users | `MCGroup`, `GroupGangDependency.cfg` |
| `GroupSystemProofs` | theorems: nothing inherited from a deleted group, upgrades keep autoscaling | TLAPS |
| `StatelessInstanceSet` | one RoleInstanceSet in stateless mode, with expectations and hooks | `MCStateless`, `Stateless.cfg` |
| `StatelessInstanceSetProofs` | theorems: the surge, the availability floor | TLAPS |
| `RoleBasedGroupSet` | the group set controller over lagging informers, with incarnations | `MCGroupSet` |
| `RoleBasedGroupSetProofs` | theorems: types, groups of others | TLAPS |
| `PatternDispatch` | the dispatch between the two modes | `MCPlatform` |
| `StatefulSetRollout` | partition and replicas of a StatefulSet workload, with its (external) controller | `MCPlatform` |
| `PodIdentity` | ports and nodes a recreated pod keeps | `MCPlatform` |
| `PortLease` | abstract: what the port allocator promises | refined by `PodIdentity` |
| `CoordinatedPace` | the coordination rules where nothing lags | `MCPlatform` |
| `WebhookCerts` | start of the manager's replicas and the leader's bundle controller | `MCPlatform` |
| `ApiVersions` | conversion, defaulting, validation and migration of one role | `MCPlatform` |
| `WorkloadKinds` | the kinds of workload and the move between them | `MCPlatform`, `KindCleanup.cfg` |
| `RevisionHistory` | the ControllerRevisions of sets and instances | `MCPlatform` |
| `PlatformProofs` | theorems about `PatternDispatch`, `PodIdentity` (with the refinement of `PortLease`), `WebhookCerts` and `WorkloadKinds` | TLAPS |
| `StoredObjectsProofs` | theorems about `ApiVersions` and `RevisionHistory` | TLAPS |
| `MCRollout` | four scenes of the stateful set, each with its constants | `StatefulRollout.cfg` |
| `MCInstance` | `MCRoleInstance` or `MCInstanceRules`, one in a behaviour | `Instance.cfg` |
| `MCGroupAndStateful` | `MCGroup` or `MCStateful`, one in a behaviour | `GroupAndStateful.cfg` |
| `MCJobsAndSets` | `MCWarmup` or `MCGroupSet`, one in a behaviour | `JobsAndSets.cfg` |
| `MCPlatform` | the eight components above, one in a behaviour | `Platform.cfg` |

The last four run several models in one TLC run where these share nothing that their
properties are about: a rigid variable `part` says whose behaviour it is, and the other
models stay in a state in which none of their fair actions is enabled.

### 3.1 `StatefulInstanceSet`

State and code:

| Variable | In the code |
|---|---|
| `apiSet`, `insts` | the RoleInstanceSet (spec, generation, `currentRevision`, `updateRevision`, `updatedReplicas`, `rolloutReplacementState`) and its RoleInstances by ordinal, as the API server stores them |
| `cacheSet`, `setLag`, `cacheInsts`, `instLag` | what the two informers show, and which objects the API server has moved since. An object that has moved has another resourceVersion, so `setLag` and `instLag` decide which updates conflict |
| `exp` | `updateExpectations` of the set: the in-place updates not yet seen in a list |
| `window` | `instanceUnhealthySince`: `none`, `fresh` (inside `stableUnhealthyDuration`) or `expired` |
| `awaitRepl` | `rolloutStatusExpectations` not yet satisfied |
| `queued`, `timer` | the work queue and its delayed requeues |

An instance is what the pass can tell apart: created, revision, ready, terminating,
whether its pods have caught up with its spec (`synced`) and its in-place-update
readiness gate.

Actions:

* `Reconcile` is one whole pass, `Reconcile` down to `UpdateInstanceSetStatus`.
  It computes from the caches, in the code's order, the topology, the slots, the
  health windows, the observed expectations and the set of writes; `Rank` gives
  each write its place in the pass. Nothing is read between the writes, so the
  pass is one step that applies a prefix of them. It ends early at the first
  write the API server refuses (`Accepted`: a stale resourceVersion, a deletion
  of what is gone), or at a call that fails, chosen freely within `MaxFaults`;
  a failed call may have been applied (`late`). The final status write is made
  also when a write failed, as `performUpdate` does; it is dropped when the
  generation or the replacement state has moved, and it may fail (`lost`, which
  also stands for a process that dies there).
* `ReconcileAwaitsStatus` is the early return on an unsatisfied status expectation.
* `SyncSet`, `SyncInsts`, `TimerFires`, `WindowCloses` are the informers, the
  delayed queue and the clock; `Restart` loses all memory and lists again.
* `EditSpec` is the user; `InstanceUnready`, `InstanceSynced`, `InstanceReady`,
  `InstanceGone` are the RoleInstance controller as its status shows it;
  `InstanceFails` and `InstanceEvicted` are outages.

Decisions a reader may question:

* A ControllerRevision is named by its template, so equal templates are one
  revision; a rollback returns to the same name, as `getInstanceSetRevisions`
  finds an equal revision and reuses it.
* Creation finds an existing object and reports success; deletion is by name with
  no UID precondition, so a stale pass can delete a recreated instance; both are
  in the model.
* A written status means the lister has caught up: `UpdateInstanceSetStatus`
  retries a conflict from the cache, so it succeeds only on a current copy.
* In-place updates read the informer again and retry on a conflict; a retry that succeeds is,
  in the model, the write of a pass after the informer's event (`Accepted`).
* `Refreshes` leaves out the condemned ordinals, which the code refreshes too, just before
  it deletes them: whether one serves until then is no property's question.
* `synced` stands for the comparison of `observedGeneration` with the generation: of an
  instance at the update revision no other write is outstanding.
* `ordered` in the spec is `podManagementPolicy`, which a user may edit; the loops
  of a pass read it from the cached set (`Monotonic`).
* `minReadySeconds` is 0 and reserved ordinals are absent (the field is never
  set); deletion of the set, adoption and history truncation are left out.

### 3.2 `RoleInstance`

| Variable | In the code |
|---|---|
| `inst` | the RoleInstance: generation, revision and sizes of the spec, and the status (`observedGeneration`, revisions, conditions, `componentStatuses`, restart count and time, in-place baselines) |
| `pods` | its pods by component and index; `st`, `image` and `restarts` are the container's, `inplace` and `gate` the conditions `InPlaceUpdateReady` and `InstancePodReady` |
| `cacheInst`, `cachePods` | what the two informers show |
| `mem` | the instance is in `restartingCache` |
| `queued`, `timer` | the work queue and its delayed requeue |
| `conf` | the configuration of the instance (restart policy and delays, component order, gang scheduling, gate, first spec) and the bounds of the behaviour; chosen from `Scenarios` in `Init` and fixed from then on |
| `update` | how far the set's in-place update is: the gate is closed, then the spec changed, then the gate opened |

`Pass` is one whole `Reconcile`. It decides from the caches and from the two direct
reads (`syncRestartTrackingFromAPI`, `isAlreadyRestarting`) and writes in four
phases: Scale (delete or create pods), Update (refresh conditions, update pods in
place), the status, the lifecycle gates. `D`, `R`, `U` and `half` are what each
phase achieved of what it meant to do: a phase stops at its first error, an update
of a pod may stop between its two writes. `die` is the phase in which the process
ends; `late` says that the pod cache caught up between the list at the start of the
pass and the later reads (`getExistingPod`, `getExpectOwnedPods`); `landed` and
`acked` separate a status write that took effect from one that was answered.
`Plan`, `AfterScale` and `AfterUpdate` are what the pass knows before and after each
phase. `Restart` ends the process between two passes. `SyncInst`, `SyncPods` and
`Tick` are the informers and the clock, `PodReady`, `ImageReplaced`, `PodGone`, `ContainerCrashes`, `PodFails` the
kubelet, `CloseGate`, `EditSpec`, `OpenGate` the set's in-place update (a user's edit
when the instance is not gated).

Decisions a reader may question:

* A pod has one container. A template is its image and everything else (`shape`): a
  change of image is patched into the pod, any other change recreates it, no change
  moves the revision label alone (`onlyUpdateRevision`). Sizes are not part of a
  revision (`componentSpecIgnoreRevisionKeys`).
* The kubelet derives Ready from the container and the two gates at once.
* A pass's writes to an object find the live one: they retry on conflict with a fresh
  read or a cache that has caught up. The status write overwrites all but the restart
  tracking, as `updateStatus` does.
* `Tick` waits for the caches: a tick stands for a delay of tens of seconds, an
  informer lags for less. Ages above the stable threshold are one value.
* An image update of a pod sets `InPlaceUpdateReady` only: the second condition in
  `Update` is for pods with the gate `RoleInstanceInPlaceUpdateReady`, and pods get
  `InPlaceUpdateReady` and `InstancePodReady`.
* Not modelled: deletion of the instance, `ReadyPolicy` None, Succeeded pods, pods of
  another owner with the same name, the grace period of in-place updates,
  `ResourceVersionExpectations`, history truncation, orders that name a component that
  does not exist or has size 0. `readsFail` lets the direct reads fail; the scenarios
  keep it FALSE, because the code then accepts the cached tracking.

`ComponentGraph` turns the annotations into the start graph and the deletion gates
(explicit `deleteAfter` united with the reversed start graph) and falls back to no
order when either graph has a cycle. `Cyclic` is the mathematical definition;
`MCInstanceRules` holds the code's three-colour search and compares them.
`BackoffDelay` keeps Go's arithmetic: the shift, the product that wraps and the test
that catches it.

### 3.3 `Warmup`

`Pass` is one whole `Reconcile`, from the informers' copies `seenJob` and `seen`;
`feed` holds the later states of pods that the informer has still to show, so a pass
may not see a pod it created (the code keeps no expectations here). A status write on
an outdated copy is refused (`fresh`). The target is a fixed set of nodes, or the nodes
of a group's pods, which `Move` changes among the groups of the scenario; `expired`
and `aged` are the global timeout and the TTL. Kubelets start, finish or fail pods.

### 3.4 Group, adapters, coordination and gang

A pass of the group controller is several steps, because it writes one object per role and
others run in between: `Begin` (everything up to the PodGroup), `ApplyRole`, `Finish`. It
works on the copy it read at `Begin`. Every object carries the uid of the group that owns it,
and a group can be deleted and created again over its leftovers. `GroupSystem` adds the
RoleInstanceSets' controllers as seen through status (which lags), the gang scheduler, the
collector, the autoscaler and the users. Abstractions: the group and the workloads are read as
they are at `Begin`, only adapters have a lagging cache; progress is compared as exact
fractions where the code divides floats (the two agree on the shares and sizes of the runs;
for 10 replicas 0.2 + 0.1 gives one instance more); the probe of legacy ConfigMaps
(`rolebasedgroup_controller.go:436-450`, so a group in the model never has one from an older
release), the group label an orphan must carry to be claimed (`common.go:143-149`; orphans
have it) and the counts in adapters' status are left out. `Finish` deletes the adapters that
the informer shows of roles that are gone; one that is gone itself is an error, and the pass
is run again with the revisions kept. `CoordinatedPace` has the same coordination operators
where nothing lags, over every pair of sizes up to `MaxPaced`.

Both gang plugins are modelled: `VolcanoPodGroup` with a minimum per role (or one total
where the cluster's Volcano has no subgroups) and `PluginPodGroup` of scheduler-plugins,
which has a total only and refuses minimums per role. The scenarios of `MCGroup` name the
scheduler, and deleting the policy ends a request it cannot serve. `PreCheck` refuses a
group before anything is written: `Invalidate` makes a stored group invalid, and the pass
then neither writes nor converges until it is valid again.

### 3.5 `StatelessInstanceSet`

`insts` is one entry per name: the live object, the informer's copy, the expectations
on it and whether the spec names it for deletion. `Pass` is one whole `Reconcile`:
expectations are tested first (`Skip`), then scale, then update, then status. `Deliver`
brings one entry to the present and observes its expectations; an instance whose first
event already carries a deletion timestamp is observed as a relist would (the code then
leaves the creation to the events before it). The spec is read as it is: an edit the
informer has not shown is an edit that comes later. Left out: creation times
(where the code prefers the newer of two equal instances any choice is open), deletion
cost, the count of component statuses, deletion of the set; revisions are values here
and objects in `RevisionHistory`.

### 3.6 `RoleBasedGroupSet`

`groups[i]` is the group of index i; a set has a uid and so have its predecessors, whose
groups may still be there, owned or orphaned, with or without the index label. `PassSet`
is one whole `Reconcile` with failing calls; a write on an outdated copy is refused, and an
update is then tried again with the informer's copy of that moment and no second look at
the owner (`Conflicted`, `Retried`).
Templates are spelled in the old or the new way, as `normalizeRolloutUpdateTypes` tells
them apart. Events of groups without a controller wake no set (`loud`).

### 3.7 The platform modules

They share nothing that their properties are about, so `MCPlatform` runs one of them in
a behaviour (`part`) and keeps the others at rest.

* `PatternDispatch`: a set of at most one replica; `StatelessMode` and `StatefulMode` are
  as much of the two reconcilers as decides who creates and deletes an instance.
* `StatefulSetRollout`: `ReconcileStatefulSet` is `reconcileStatefulSet` with
  `rollingUpdateParameters`; case 5 of it is unreachable, because the role-size
  annotation is among what counts as an update. The StatefulSet controller is external.
* `PodIdentity`: one role with one instance of two pods; drawing a port is a choice over
  `Ports`, the binding store is emptied by a restart, the eviction event is late.
* `WebhookCerts`: what an authority has left to live is long, short or over (which stands for
  unreadable bytes too); `SpoilSecret` spoils the serving certificate, or the authority with
  it; any call may fail and any process die (`CertBudget`).
* `ApiVersions`: one role of any of the three patterns and four workload types, with the fields
  whose conversion is not the identity and those the validators of an update read (rolling
  update, dependencies, scaling adapter, deprecated types); what the webhook's cache shows of
  the adapter is free. It starts from what earlier releases stored, invalid objects
  included. Left out: creation, and the API server's ratcheting, which forgives an
  unchanged field its schema.
* `WorkloadKinds`: the deprecated kinds are enabled (`README.md:95-104` of the
  repository). A role, with or without a second one that depends on it, whose gang
  configuration users break and mend. A pass begins with caches that have caught up; its own
  writes they may or may not show it when it asks whether the dependency is ready. On a gang
  configuration that cannot be satisfied it runs the cleanup and no role.
* `RevisionHistory`: `StatefulPass`, `StatelessPass` and `InstancePass` find, number,
  create or reuse a revision, move the status and truncate, over lagging copies of
  owner, revisions and children. `Upgrade` replaces the manager by a release that
  serializes templates in other bytes, once. Creation times are distinct. Two patches of
  an instance collide in their hash. Orphan revisions are left out.

### 3.8 Bounds

Every bound is a constant in the guards.

* Stateful set: `MaxOrdinal`, `MaxEdits`, `MaxFaults` (failed, lost or late calls and
  restarts), `MaxOutages`, and `MaxTroubles` for the two together. Two or three replicas give
  every relation the sizing rules compare: a partition inside the base, one surge slot, a
  surge slot that is the last one needed, a costly and a free target in the same pass.
  `MCRollout` has one edit for the floor, and two for every rollback, every change of mind
  during a rollout and every eviction around one; the run `advance` has three, since a revision has to
  be targeted twice; one fault reaches every prefix of every pass, since it may come at any
  write of any pass.
* RoleInstance: `maxFailures` (crashes), `maxFaults`, `maxEdits` of a scenario, and
  `MaxSize`. One crash and one fault reach every order of the deletions, the status write
  and the restart; a second crash falls before, inside and after the back-off of the
  first. `BackoffDelay` is checked with words of 12 and 6 bits instead of 64 and 32: the
  shift guard, the wrap of the product and the cap are all reached there.
* Warmup: two nodes, `maxPods`, `maxLag` (events the informer is behind), `maxMoves`,
  `maxFaults`, `maxPauses`: two pods on one node and a target that loses its last node
  both happen.
* Group: two roles, `maxEvents` events of the kinds a scenario names. One event on a
  settled group, and three where the autoscaler and a fault interleave.
* Stateless set: `Budget` 2 for changes, failures, failing calls and restarts; ten
  scenarios of one to three replicas.
* Group set: two indexes, three incarnations, `SetBudget` 2.
* Platform: `DispatchBudget` 3 (flip, delete, create), `StsBudget` 2, one change per
  scheduling, `MaxPaced` 5 with four skews, `CertBudget` 2 (two crashes, or a crash and a
  change by others; eight authorities are more than two replicas can have in use or in hand at
  once), `ApiBudget` 2 after any stored object (one version, then the other, or the same
  again), `KindBudget` 3 with roles of no or one replica, `HistBudget` 2 with `HistoryLimit`
  0, the limit that deletes most.

`CHECK_DEADLOCK FALSE` everywhere: a system that is rolled out, with empty queues and no
changes left, is idle, and should be.

### 3.9 Fairness

Weak fairness is assumed of controllers (a queued key is handed to a worker), of each
informer (watches deliver or relist), of delayed queues and of the clock, of kubelets,
schedulers and the collector, and of the RoleInstance controller per ordinal or role.
Users, faults, outages, crashes and restarts owe nothing. Two cases say more.
RoleInstance: a set that has closed the gate for an in-place update goes on to apply it.
`CoordinatedPace`: strong fairness of `UpdateReplica`, which no work queue gives: it stands for
the order of a Go map, by which `getFastestAndSlowestRole` breaks ties
(`rolebasedgroup_controller.go:1631`). A role that is tied again and again is chosen in the end.
`RevisionHistory` has safety properties only.

## 4. Runs

| Run | Configuration | Shows |
|---|---|---|
| `rollout` (742k states) | four scenes, in each of which ordinal 0 is below the partition: 3 replicas, partition 40 %, maxUnavailable 1, maxSurge 1, to B in place or to C by deletion, 1 edit; the same with maxUnavailable 0, pause and rollback, 2 edits; 2 replicas without surge, 2 edits; a set that is paused while it is created; each with 1 fault or outage (the rollback without outages) | `TypeOK`, with the revisions a status may name; `FloorInOneRollout` (`AvailabilityFloor` of the first scene): base and surge together never leave more than maxUnavailable replicas unserved; `PartitionPinned`; `SurgeHeld`: surge at the wanted revision goes only when the base serves that revision |
| `advance` (violation) | 1 replica, A and B in place, 3 edits | `AdvanceIsEarned`: currentRevision moves while the API server's only instance has not |
| `scale_down` (violation) | 2 replicas, in-place update, scaled to 1 and back | an expectation of a deleted instance is never dropped, and the rollout of that revision stops |
| `instance` (307k states) | one pod with crashes and faults; a leader and workers started, torn down, updated twice, with a fault, under gang scheduling; all start graphs of 3 components with one `deleteAfter`; every delay configuration of scaled words | `BackoffRespected`: whatever the caches show and wherever the process dies, a recreation is counted only after the delay the persisted count and time ask for; `Recovers`; `CycleIsFound`, `NeverBlocked`; `DelayIsExact`: the delay is min(base * 2^(count-1), max) through the overflow |
| `start_order` (violation) | two leaders and a worker, one failure | `StartOrder`: the worker is created while a leader is missing |
| `delete_order` (violation) | a leader and workers torn down | `DeleteOrder`: the leader is deleted while the workers terminate |
| `group_and_stateful` (158k states) | fifteen scenarios of prefill and decode; or 2 replicas under OrderedReady, scaled to 3, a broken template and a good one, either policy, 2 edits, 1 fault | `CreatedAfterDependencies`; `NoInheritance`: nothing of a deleted group is taken over; `NoChurn`: an upgrade of the group does not undo the autoscaler; `Converges`; `Convergence`: neither the ordered loop nor the budget blocks on a broken instance for ever; `OrderedCreation` |
| `group_gang_dependency` (violation) | a gang over two roles of which one depends on the other | the group never starts |
| `stateless` (119k states) | ten scenarios | `SurgeKept`, `FloorKeptButSpecified` (the floor, except for instances somebody asked to delete), `PartitionKept`, `Converges` |
| `jobs_and_sets` (961k states) | seven warmup jobs: fixed and moving targets, retries, limits, timeout, TTL, pauses, faults; or a set of 2 indexes and 3 incarnations | `ToleranceKept`: a completed job failed no more nodes than it may; `CompletedCoversTarget`; `AttemptNeverRegresses`; `Settles`; `ForeignUntouched`, `SetSettles` |
| `platform` (273k states) | eight components | `NoDuplicates`; `PinnedToHosts`; `PortsAreLeases` (refinement of `PortLease`); `SkewKept`; `OneAuthority`; `StoredViewsAgree`; `ForeignKept`; `RevisionsInUseKept`; `QuietUnlessEdited`; `PlatformSettles`: each component comes to the rest its code works for; `PlatformTypeOK` |
| `kind_cleanup` (violation) | a role whose kind changes while its gang configuration is broken | `RolesLeftUntouched`: the cleanup deletes the role's only workload |

Each violation is under `findings` in `PROJECT.json`, with the sentence of the repository it
disagrees with.

The type invariants of `RoleInstance`, `Warmup`, `RoleBasedGroup`, `StatelessInstanceSet`
and `RoleBasedGroupSet` are stated in their modules and no run lists them; those of the
last two are proved.

### 4.1 Where a property stops short, and why

* `SurgeHeld` and `AvailabilityFloor` are about what the controller takes down: once an instance
  has failed or was evicted they say nothing. `AvailabilityFloor` is checked with one edit:
  on a rollback before the end (A to B to A) the surge instances of B are free to delete
  while they are all that serves (`stateful_instance_set_control.go:756`), against
  `doc/features/update-strategy.md:69` and `keps/30-instanceset/README.md:88`.
* `OrderedCreation` lets a lower ordinal that the pass's list shows terminating count as
  ready, as `processReplica` does.
* `Recovers` under updates is checked without component order, without the restart policy
  and with at most one fault, for the reasons in 4.2.
* `Converges` of the group leaves out coordinated rolling updates: their partitions follow
  statuses that are late, and only move under the stronger fairness of `CoordinatedPace`.
* `NoChurn` leaves out a role whose replicas a CoordinatedPolicy paces, which follows its
  batches, and scenarios in which the user replaces the whole object: that drops the
  annotation of the discovery mode, and the pass that writes it again reads the group anew
  and loses the override it had made in memory (`rolebasedgroup_controller.go:208`).
* `SkewKept` is for two roles: with three only the fastest and the slowest are balanced.
* `StoredViewsAgree` excepts fields, not objects. A metadata edit through v1alpha1 loses what
  v1alpha1 cannot say (`OnlyInV2`: `extras`, and a gang or exclusive annotation that a
  v1alpha2 client set). It respells a role that has no workload-type note, no restart policy
  or release 0.7's, or a legacy update type (`Respelled`): the meaning stays, but
  `GetRolesRevisionHash` (`revision_utils.go:352-359`) hashes the whole role, so the children
  see another revision once, which `test/e2e/upgrade/specs.go:753-765` collects as "the
  v1alpha1 write path rewrote the stored v1alpha2 spec, which changes what the controller
  hashes". A second edit rewrites nothing. Roles of components cannot be written through
  v1alpha1 at all: they are read without the template its schema asks for.
* `ForeignUntouched` lets an update that is tried again write a group which the collector has
  just orphaned: ownership is not asked again (`rolebasedgroupset_controller.go:546-569`).
* `RevisionsInUseKept` says little of an instance: its limit of 5 is not reached in the run.
  It is not claimed for the stateful mode: the creation of its instances is not gated by
  expectations, and after an error of `getInstanceSetRevisions` `truncateHistory` runs without
  a current and an update revision (`stateful_instance_set_control.go:240`).
* `KindsSettle` (a part of `PlatformSettles`) excepts orphans of another kind, which cleanup
  never takes because it asks for `IsControlledBy`, and a service that is collected after
  its workload was replaced, which wakes nobody.
* `DispatchSettles` excepts an expectation whose event has passed (`Stranded`);
  `SetSettles` a set whose orphan without index label was deleted (`orphanLost`);
  `OneAuthority` an authority that was deleted or replaced under a running replica
  (`caLost`).

### 4.2 Other disagreements met while modelling

Each was seen as a counterexample of a wider scenario or property and is not kept as a run.

Stateful set and instance:

* A percentage partition is rounded down (`stateful_instance_set_utils.go:347`); the API
  type says it is rounded up (`roleinstanceset_types.go:128`).
* One crash can be recreated twice: the pass that deletes the pods may clear
  `restartingCache` again (`instance_reconciler.go:157`), and a stale status write drops
  the Restarting condition; the comment at `sync/instance_scale.go:116` says the mark
  prevents "cascading re-triggers".
* A stale status write drops `InPlaceUpdateContainerBaselines` (`instance_status.go:489`),
  and the expected restart of an in-place update then recreates the instance.
* An in-place update that recreates a worker which starts after the leader never ends: the
  gates closed for the update keep the leader unready (`instance_status.go:512`).
* A status write computed before the set closed `RoleInstanceInPlaceUpdateReady` opens it
  again (`instance_status.go:489`; the comment at 463 says it is carried forward).
* `InstancePodReady` set False without a message by `onlyUpdateRevision`
  (`inplaceupdate.go:261`) stays so when the lifecycle writes of two passes are lost.
* `instance_reconciler.go:126-131` goes on while a resource-version expectation is
  unsatisfied and not overdue.

Met while reading, with no scenario: the stateful set's adoption recheck is commented as "an
uncached quorum read" (`stateful_instance_set_controller.go:305-307`) and reads through the
manager's cached client; `ClaimInstances` changes the owner references of the informer's own
object (`instance_ref_manager.go:154` and 181) where the note at 291-293 of the controller
says such objects must be copied first; and the patch that follows is a strategic merge
patch of a custom resource (line 72), which the API server does not serve.

Warmup: a pod created twice on one node and a target that then loses its last node give a
Completed job with more unsucceeded nodes than `maxFailedNodes`
(`rolebasedgroupwarmup_controller.go:416`, against the comment at 1254); with a parallelism
such a pod takes the room of a node the target has gained, the counters of warmed nodes
(which are not intersected with the target's, 1344) reach the desired number, and the job
completes without that node; with the informer three changes of the pods behind, a first
attempt created from an empty list and shown late displaces the reported second attempt;
`failWarmupJob` ignores errors of deletions.

Group: right after a template change the role statuses still say updated, so every
partition becomes 0 for a pass (`rolebasedgroup_controller.go:1500`), against
`doc/features/coordinated-policy.md:109`; a blocked batch writes back `status.replicas`
(`scaler.go:89`); a scaling maxSkew of 0 % blocks; the merge of two rules takes an unset
maxUnavailable for 0; Ready and `observedGeneration` are set before the workloads are
patched; an override is lost when the adapter is replaced (950-959); an adapter can be
bound again from a stale cache.

Stateless set: an unavailable instance that is to be deleted is not counted as unavailable
(`sync/helper.go:120`), so requested deletions can take the last available one; an instance
prepared for an update that is taken back waits for ever (`sync/update.go:143-158`);
a stale `status.currentRevision` is written back; with a hook on deletions, a pass that
deleted some instances and failed on a hooked one reports no modification and goes on to
update in place within the same budget (`reconciler.go:234-248`), below the floor; an
eviction the pass has not seen, or an instance prepared for deletion when the size goes up
again, leaves fewer of the old revision than the partition asks for.

Group set: the set reverts what an adapter wrote to a group's replicas; its admission does
not validate rolling updates as a group's does; a child migrated off a deprecated type
cannot be restored.

Platform: a freshly created LeaderWorkerSet (0 of 0 ready) counts as ready
(`lws_reconciler.go:173`), against `doc/features/multiroles.md:17`; a headless service keeps
the replaced workload as its owner; the comparison of Deployments ignores the strategy;
a role that no role depends on loses its old workload at once when it changes its kind, and
one with a dependent role when the cache still shows the new one from before the patch; a
StatefulSet with maxUnavailable 0 and maxSurge 1 does not come to rest
(`sts_reconciler.go:196`: "At rest, Partition should always be zero."); bundles hold the
authority of the leader's start, not the secret's (`webhook_cert_controller.go:36-38`); a
port allocation added later never gets a port, and its pods are never created; a bound node
that is also to be avoided leaves a Required pod without a node; random ports differ only
within a batch; eviction can come before a late record, which leaks;
removing the coordination leaves its policy; a LeaderWorkerSet with a templateRef is storable
through v1alpha2, refused by the controller and by v1alpha1's schema. Revisions: after a
downgrade of the manager a rolled-back template can roll the children without an edit,
since `FindEqualRevisions` comes before the semantic comparison; an outdated status takes
`collisionCount` back; a stateful set truncates its history also when the status could not
be written, and after enough edits deletes its newest revision, so that a template recorded
by an earlier release is recorded again and the children roll.

## 5. Proofs

Each theorem holds for every value of the constants that satisfies the named assumptions
of the module it is about (how many instances, nodes, replicas, revisions, which specs,
scenarios and budgets); the runs of section 4 check the same definitions on small
instances. TLC evaluates the assumptions in every run. Each proof module names its
inductive invariant, proves that `Init` gives it and that every action keeps it, action by
action, and draws the property from it.

`StatefulInstanceSetProofs`, from `SpecAssumption`, `OrdinalsSuffice`, `ModeAssumption`,
`BoundAssumption` and those of `RolloutTopology`:

* `TypeCorrect`: `Spec => []TypeOK`. Beside the types of the fields it has `RevisionsNamed`: a
  status that names an update revision names a current one, live and cached, although a set is
  created with neither. The invariant is inductive; the work is in lemmas that type the
  operators of a pass (`ComputeTopology`, `Slots`, `PersistedScope`, `AfterWrites`, the
  expectations).
* `PartitionHolds`: `StartSettled` and `Spec` give `[]PartitionPinned`.
  `PartitionPinned` alone is not inductive: an evicted ordinal is recreated from
  `currentRevision` of a cached set, and updated from a cached list. The inductive
  invariant `PinInv` adds that the caches' instances below the pin have the first
  revision, that every spec in the API server and in the cache is one the user
  writes, and that `currentRevision`, in both, is the first revision as long as
  some ordinal is pinned: it advances only when the computed partition is 0, and
  a pinned ordinal means it is not. A pass then updates only ordinals from its
  partition on and fills the slots below with `currentRevision`.

`StatelessInstanceSetProofs`, from `StatelessAssumption`:

* `StatelessInvariant`: `Spec => []SurgeInv`, the type invariant and what ties the
  expectations to the informer: an instance the informer has never shown is one whose
  creation is expected (so a pass that gets past `ScaleSatisfied` lists every live
  instance), and one it has shown as going is going.
* `SurgeNeverExceeded`: `Spec => SurgeKept`. A pass that creates has all creations
  observed, so its list misses no live instance, and
  `calculateDiffsWithExpectation` bounds what it creates by replicas and surge less what
  is listed. The type invariant alone does not give this: without the tie above the
  list may be short by as many instances as were created before.
* `FloorNeverBroken`: `Spec` and `NoMixedPass` give `FloorKeptButSpecified`. A pass waits
  until the versions it wrote are listed and the deletions it made observed, so what it lists
  as available is available unless others acted, and `SurgeInv` accounts for every instance it
  does not list. The proof follows the two budgets: a scale-in deletes at most
  `deleteReadyLimit` ready instances, and that limit with the unavailable ones is
  maxUnavailable and the surplus; an update takes at most what `limitUpdateIndexes` leaves of
  maxUnavailable. `NoMixedPass` (no hook on deletions where updates are in place) keeps the
  two budgets from being spent in one pass, which the code otherwise does (4.2).

`WarmupProofs`, from `WarmupAssumption`. The invariant `WarmupInv` is that the job and its
copy are well-formed, that the lists of pods, shown or to be shown, are finite, and that
the target is one of the scenario's. An active pod is *astray* when its node is already
warmed or given up (`Strays`): it is listed, but its node is not counted as active.

* `TolerancePromised`: `Spec` and `[]NoStrayLeft` give `[]ToleranceKept`. Only the pass that
  creates pods and writes the status completes a job. Where the target has nodes,
  `updateWarmupPhase` tests the count it writes, and no hypothesis is needed; where it has
  none, `failCollapsedDesiredSet` has tested the unsucceeded nodes, but only with no pod
  active, while the phase asks for no active *node*: `NoStrayLeft` says that in such a state no
  pod is astray.
* `CoveragePromised`: `Spec` and `[]StraysLeaveRoom` give `CompletedCoversTarget`. The phase
  comes from counters that do not mention the target's nodes. What makes them right is the
  same pass's creation: a pending node and room for one pod put a node into the active
  ones that is neither warmed nor given up, so the count of active nodes is not 0.
  `StraysLeaveRoom` says that the pods astray are fewer than the parallelism; it holds of
  every state when no parallelism is set.

Both hypotheses fail only where a node has got a second pod while its first was under way
(the informer, or the job's copy, was late), and TLC finds the violations there (4.2), so
neither can be dropped.

`RoleInstanceProofs`, from `WidthAssumption`, `PowerAssumption` and `ScenariosAssumption`
(`PowerAssumption`, that a power of two is positive, is a truth of
arithmetic for which the provers have no fact):

* `BackoffOutlivesCaches`: `~conf.readsFail` and `Spec` give `BackoffRespected`. The count
  changes only where the status of a triggered pass lands; such a pass has waited for
  what the fresh read asks, since `checkRestartBackoff` and `isAlreadyRestarting` read
  the API server. The invariant `TrackInv` is that both copies of the instance carry a
  count and an age, whoever wrote last. The hypothesis is needed and is that of the run:
  where the direct read fails, the code takes the cached status.

`PlatformProofs`, for the identity of pods from `SchedulingAssumption` and
`AbsenceAssumption`. The invariant `IdInv` is the type invariant, that ready pods run on hosts
of their group, that the store names only hosts of the group it is filed under and a pinned
pod can go nowhere else, and that every copy of an incarnation of the instance and every pod
of it is of one group and carries the ports it was granted:

* `IdentityTypeCorrect`: `IdSpec => []IdTypeOK`.
* `PinnedPodsReturn`: `IdSpec => []PinnedToHosts`, for every affinity of the template;
  `foldIntoRequired` puts the binding into each of its terms.
* `PortsRefineLeases`: `IdSpec => PortsAreLeases`: initial states map to initial states of
  `PortLease`, the draw maps to a grant, the creation of a pod to taking up a lease, and
  all other steps to stutters.

`RoleBasedGroupSetProofs`, from `SetAssumption`:

* `SetTypeCorrect`: `SetSpec => []SetInv`.
* `ForeignGroupsUntouched`: `SetSpec => ForeignUntouched`. A first write lands only on the
  version that was read, and the pass has tested the owner of that version; `SetInv`
  adds to the types that a copy with no event under way is the live group. A write that
  is tried again lands on whatever the name holds by then, so the proof needs `OwnerInv`:
  incarnations come one after the other, so a group the informer has as one of the set it
  knows has since been orphaned or deleted, but not taken by another.

`PlatformProofs`, for the rest from `DispatchAssumption`, `CertAssumption` and `KindAssumption`:

* `DispatchNeverDuplicates`: `DispatchSpec => []NoDuplicates`. `DispatchInv` adds that what
  the informer has not heard of an instance is still expected, under the name of the set
  and whatever incarnation it is of.
* `ServingUnderOneAuthority`: `CertSpec => []OneAuthority`. `CertInv` (theorem
  `CertInvariant`) adds that a version of the secret has one authority, whoever holds a
  copy, and that everybody who serves, or is about to serve what it has read, has the
  authority of the secret; a write on another version is refused, and a replica that lost
  the race reads again.
* `ForeignWorkloadsKept`: `KindSpec => ForeignKept`. `KindInv` (theorem `KindInvariant`) adds that
  a workload of another kind is left over only while the role is a RoleInstanceSet:
  admission lets a role move to that kind only.

`GroupSystemProofs`, from `GroupAssumption`. The invariant `GroupInv` (theorem
`GroupInvariant`) has, beside the types: every adapter, live or in the informer, is of a
group that exists or existed and has a number handed out before; a copy that names
this group is of the adapter that is there, or of one that is gone; a pass works for this group
or a predecessor, with the adapters of then; and the discovery mode is stored before
anything is created for the group:

* `NothingOfAPredecessor`: `GroupSpec => NoInheritance`. A pass claims only what has no owner or
  its own uid; the uid of a group only grows, and an adapter deleted and made again has
  another number. The adapter controller scales through a copy that may be stale, so the
  invariant has to say what a stale copy can still be of.
* `UpgradeKeepsAutoscaling`: `GroupSpec => NoChurn`. `applyRBGSAReplicasOverride` writes into the
  copy in memory, which `ensureDiscoveryConfigMode` replaces when it has to store the mode;
  the part `ModeKept` is that by the time an adapter is bound the mode has been stored.

`StoredObjectsProofs`, from `ApiAssumption` and `TemplateAssumption`:

* `ApiTypeCorrect`: `ApiSpec => []ApiTypeOK`, and `BothVersionsAgree`:
  `ApiSpec => []StoredViewsAgree`. Its three parts are proved of every object of the schema,
  and the types carry them to every reachable one: field by field, what an edit through
  v1alpha1 leaves as it was (`V1EditKeeps`); that a valid object passes the schemas and all
  four validators of both versions (`StaysWritable`); and that one write mends any other
  (`StaysMendable`).
* `StatelessHistoryKept`: for a stateless set, `HistSpec` gives `RevisionsInUseKept`.
  The invariant `HistInv` says that a child whose last write was observed is the one the
  pass sees, or gone: the wait for its own writes makes the labels a pass sees those of
  every instance that is left, and what they name is not truncated.
* `QuietHistories`: for a stateless set and for an instance, `HistSpec` and `HashesApart` give
  `QuietUnlessEdited`. The invariant `QuietInv` orders the history: revisions the informer
  has not shown have higher numbers than those it has; those recorded by an earlier release
  have all been shown and precede those of the running one; each one not shown was created
  because the newest then shown recorded another template; and the newest is never
  truncated (`NewestHeld`). A pass that finds no equal revision among what it sees therefore
  either has another template or will be refused, since the name is taken. `HashesApart`
  is needed for that name, and the stateful mode is left out because it truncates without a
  written status (4.2); TLC shows both.

Only model-checked, and why:

* Liveness (`Convergence`, `Recovers`, `NeverBlocked`, `Settles`, `Converges`, `SetSettles`,
  `PlatformSettles`): the prover does not reach fairness and ENABLED.
* `CycleIsFound` and `DelayIsExact`: they need inductions over data, and their module has
  the recursive search of the code.
* `SkewKept`: products of unknowns and sorted sequences, which the solvers do not decide.
* Properties that are true of the instances and scopes of section 4.1 and not of all:
  `AvailabilityFloor`, `SurgeHeld`, `OrderedCreation`,
  `CreatedAfterDependencies`, `PartitionKept`, `AttemptNeverRegresses` (with
  more edits, faults or lag the code does otherwise, as 4.1 and 4.2 say), and
  `RevisionsInUseKept` for an instance, whose limit is a constant of the code that enough
  edits behind an unseen cache exceed. So no theorem states them.
* `PlatformTypeOK` as a whole: of its eight parts those of the dispatch, the certificates,
  the identity of pods, the API versions and the kinds of workload are proved, each in the
  invariant of its module; the numbers of `RevisionHistory` are typed by a bound of the run, and
  the partition of `StatefulSetRollout` and the counts of `CoordinatedPace` rest on the
  arithmetic of whole passes.

## 6. Not modelled

* Pod template construction and discovery configuration: formatting, no state.
* The command line and the generated clients.
* Of the modelled components, what the notes in `PROJECT.json` and section 3 name: the
  deletion of sets and instances, adoption of orphaned RoleInstances and revisions, the legacy
  ConfigMap probe, LeaderWorkerSet's own rollout, scheduler names and annotations put into
  pods.
* Hazards without a property: a base instance deleted by somebody else that is gone before
  any pass lists it as terminating (`stateful_instance_set_control.go:594`), and a
  `startAfter` that names a missing or empty component (`component_lifecycle.go:91`).
