----------------------------- MODULE RestartRules -----------------------------
(***************************************************************************)
(* The rules a RoleInstance pass applies to one instance and its pods      *)
(* (pkg/reconciler/roleinstance/sync/instance_scale.go): which pods count, *)
(* when a crash recreates the instance, when the restart backs off, and    *)
(* which pods are created or deleted, in the order of their components.    *)
(*                                                                         *)
(* A pod has one container.  A template is the image and the rest of the   *)
(* pod ("shape"): a change of image alone is patched into the running pod, *)
(* any other change recreates it.                                          *)
(***************************************************************************)
EXTENDS ComponentGraph, BackoffDelay

CONSTANTS
  MaxSize,        \* bound on the size of a component
  Revisions,      \* instance revisions
  NoRev,          \* the empty revision name of a fresh status
  Template,       \* Template[rev][c] = [image, shape]
  TenMinutes      \* the least stable threshold, in ticks

VARIABLE conf     \* how the instance is configured: fixed in a behaviour

RecreatePolicy == conf.policy   \* restartPolicy is RecreateRoleInstanceOnPodRestart
BaseDelay == conf.baseDelay     \* its back-off, in ticks
MaxDelay == conf.maxDelay
Ignored == conf.ignored         \* components with restart-trigger-policy: Ignore
StartAfter == conf.startAfter   \* the component-depends-on annotations
DeleteAfter == conf.deleteAfter

Images == {Template[r][c].image : r \in Revisions, c \in Components}
NoImage == "none"
Never == -1

ASSUME NamesAssumption == NoRev \notin Revisions /\ NoImage \notin Images
ASSUME SizeAssumption == MaxSize \in Nat \ {0}
ASSUME TimeAssumption == TenMinutes \in Nat

-----------------------------------------------------------------------------
(***************************************************************************)
(* Pods.  st is the phase and the ContainersReady condition: "starting" is *)
(* Pending or Running without it, image is NoImage until the container     *)
(* first ran.  inplace is the InPlaceUpdateReady condition.  gate is       *)
(* InstancePodReady: "keyed" is False with the Lifecycle message, "bare"   *)
(* is False without a message, as onlyUpdateRevision writes it.            *)
(***************************************************************************)
Ids == 0 .. MaxSize - 1
Pods == Components \X Ids
Sizes == [Components -> 0 .. MaxSize]
AnyImage == Images \cup {NoImage}

Pod == [exists : BOOLEAN, term : BOOLEAN, st : {"starting", "up", "failed"},
        rev : Revisions \cup {NoRev}, image : AnyImage, inplace : {"none", "no", "yes"},
        gate : {"none", "bare", "keyed", "open"}, restarts : Nat]

NoPod == [exists |-> FALSE, term |-> FALSE, st |-> "starting", rev |-> NoRev, image |-> NoImage,
          inplace |-> "none", gate |-> "none", restarts |-> 0]

NewUpdatePod(rev) == [NoPod EXCEPT !.exists = TRUE, !.rev = rev]

Existing(P) == {p \in Pods : P[p].exists}
IsPodActive(pod) == pod.exists /\ ~pod.term /\ pod.st # "failed"
Active(P) == {p \in Pods : IsPodActive(P[p])}
Failed(P) == {p \in Pods : P[p].exists /\ ~P[p].term /\ P[p].st = "failed"}

\* The kubelet's Ready condition: containers ready and both readiness gates true.
IsPodUpdateReady(pod) == pod.st = "up" /\ pod.inplace = "yes" /\ pod.gate = "open"
IsPodRuntimeReady(pod) == ~pod.term /\ pod.st = "up" /\ pod.inplace = "yes"

Wanted(p, pod) == Template[pod.rev][p[1]].image
\* DefaultCheckInPlaceUpdateCompleted
UpdateCompleted(p, pod) == pod.inplace # "no" \/ pod.image = Wanted(p, pod)

Desired(size) == {p \in Pods : p[2] < size[p[1]]}

-----------------------------------------------------------------------------
(***************************************************************************)
(* The restart policy.  s is the instance's status, gen its generation.    *)
(* Times are ages in ticks: last is the age of LastRestartTime.            *)
(***************************************************************************)
Baseline == [restarts : Nat, image : AnyImage]
NoBaseline == [restarts |-> -1, image |-> NoImage]

IsContainerRestartExpected(pod, b) ==
  /\ b # NoBaseline
  /\ b.restarts <= pod.restarts
  /\ pod.restarts <= b.restarts + (IF pod.image # b.image THEN 1 ELSE 0)

StableThreshold == IF 2 * MaxDelay < TenMinutes THEN TenMinutes ELSE 2 * MaxDelay
HasRecentRestart(s) == s.last # Never /\ s.last <= StableThreshold

Crashed(p, pod, b) ==
  /\ p[1] \notin Ignored
  /\ pod.inplace # "no"
  /\ \/ pod.st = "failed" /\ ~pod.term
     \/ pod.restarts > 0 /\ ~IsContainerRestartExpected(pod, b)

ShouldRecreateInstance(gen, s, P) ==
  /\ RecreatePolicy
  /\ s.ready \/ HasRecentRestart(s)
  /\ gen = s.obs
  /\ s.cur = s.upd
  /\ \E p \in Existing(P) : Crashed(p, P[p], s.base[p])

RestartDelay(count) == CalculateRestartDelay(BaseDelay, MaxDelay, count)

\* checkRestartBackoff: f is the status of the fresh read, or s when it failed.
\* The ticks left, 0 when the pass may go on.
RestartBackoff(gen, s, f, P) ==
  IF /\ RecreatePolicy
     /\ \/ ShouldRecreateInstance(gen, s, P)
        \/ gen = s.obs /\ s.cur = s.upd /\ Failed(P) # {}
     /\ ~f.restarting
     /\ f.last # Never
     /\ f.last < RestartDelay(f.count)
  THEN RestartDelay(f.count) - f.last ELSE 0

\* syncRestartTrackingFromAPI: the newer timestamp brings its count along.
SyncRestartTracking(s, f) ==
  IF f.last # Never /\ (s.last = Never \/ f.last < s.last)
    THEN [s EXCEPT !.count = f.count, !.last = f.last]
  ELSE IF f.count > s.count THEN [s EXCEPT !.count = f.count] ELSE s

\* updateRestartTracking and setRestartingCondition
RestartTracked(s) ==
  [s EXCEPT !.count = IF s.last > StableThreshold THEN 1 ELSE s.count + 1,
            !.last = 0, !.restarting = TRUE]

-----------------------------------------------------------------------------
(* Component order, from the annotations. *)
StartDeps == IF Ordered(StartAfter, DeleteAfter) THEN StartAfter ELSE [c \in Components |-> {}]
DeletionGates ==
  IF Ordered(StartAfter, DeleteAfter) THEN BuildDeletionGates(StartAfter, DeleteAfter)
  ELSE [c \in Components |-> {}]

\* allNamedComponentsReady: comps is status.ComponentStatuses.
AllNamedComponentsReady(names, comps) ==
  \A c \in names : comps[c].size > 0 /\ comps[c].ready >= comps[c].size

Excess(P, size) == Active(P) \ Desired(size)
\* allDependentsDeleted
AllDependentsDeleted(names, P, size) == \A p \in Excess(P, size) : p[1] \notin names

ToScale(P, size, comps) ==
  {p \in Desired(size) \ Active(P) : AllNamedComponentsReady(StartDeps[p[1]], comps)}
ToDelete(P, size) ==
  {p \in Excess(P, size) : AllDependentsDeleted(DeletionGates[p[1]], P, size)}
=============================================================================
