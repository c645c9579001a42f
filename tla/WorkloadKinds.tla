---------------------------- MODULE WorkloadKinds ----------------------------
(***************************************************************************)
(* The kinds of workload a role can have, and the move of a role from a    *)
(* deprecated kind to a RoleInstanceSet: the workload of the new kind is   *)
(* applied beside the old one, under the same name, and the old one goes   *)
(* with the cleanup that ends a pass.  The headless service of the role is *)
(* owned by its workload.                                                  *)
(*                                                                         *)
(* A group of one role and, in some behaviours, of a second one, a         *)
(* RoleInstanceSet (router), that depends on it, with the deprecated kinds *)
(* enabled.  A pass begins with informers that have caught up; what it     *)
(* writes itself they may or may not show it before it ends.  A workload   *)
(* is its owner, its replicas and its status: what its controller has      *)
(* reported, and whether that is about the present spec.  RoleBasedGroup   *)
(* has the revisions, the adapters and the coordination of roles, and says *)
(* when a gang configuration cannot be satisfied.                          *)
(***************************************************************************)
EXTENDS Optional, Integers, FiniteSets

CONSTANTS KindSizes,       \* replicas of the role
          KindUids,        \* incarnations of the group
          Orphan,          \* no controller, but the label of the group
          KindBudget       \* changes by users
VARIABLES kindGroup,    \* the group, its gang configuration and whether router is in it
          works,        \* the workload of the role of every kind
          router,       \* owner of the workload of the second role
          service,      \* the headless service: [of, size]
          roleStatus,   \* the role in the group's status: [replicas, ready]
          serviceLost,  \* history: the service was collected
          kindQueued,   \* the group's key is in the work queue
          kindBudget
kindVars == <<kindGroup, works, router, service, roleStatus, serviceLost, kindQueued, kindBudget>>

Kinds == {"Deployment", "StatefulSet", "LeaderWorkerSet", "RoleInstanceSet"}
WithService == {"StatefulSet", "RoleInstanceSet"}
Owners == KindUids \cup {Orphan}
Counts == {0} \cup KindSizes
Workload == [owner : Owners, size : KindSizes, observed : BOOLEAN,
             status : [replicas : Counts, ready : Counts]]
KindGroup == [uid : KindUids, kind : Kinds, size : KindSizes, gangFits : BOOLEAN, dependent : BOOLEAN]
\* "gone": of a workload that was deleted
HeadlessService == [of : WithService \cup {"gone"}, size : KindSizes]
ASSUME KindAssumption ==
  /\ KindSizes \subseteq Nat /\ KindUids # {} /\ KindBudget \in Nat
  /\ Orphan \notin KindUids /\ None \notin Owners
  /\ None \notin Workload /\ None \notin HeadlessService
KindTypeOK ==
  /\ kindGroup \in KindGroup
  /\ works \in [Kinds -> Workload \cup {None}]
  /\ router \in Owners \cup {None}
  /\ service \in HeadlessService \cup {None}
  /\ roleStatus \in [replicas : Counts, ready : Counts]
  /\ serviceLost \in BOOLEAN /\ kindQueued \in BOOLEAN /\ kindBudget \in 0 .. KindBudget

-----------------------------------------------------------------------------
(***************************************************************************)
(* The reconcilers of the four kinds.                                      *)
(***************************************************************************)
NoCounts == [replicas |-> 0, ready |-> 0]

\* Mutant: every workload is taken.
ClaimAny(owner) == TRUE

\* A workload of another incarnation of the group may not be managed.
CheckWorkloadClaimable(owner) == owner \in {Orphan, kindGroup.uid}
Claimable(w) == IF w = None THEN TRUE ELSE CheckWorkloadClaimable(w.owner)

\* The apply configurations: the group as controller, the role's replicas.
DeployConfig == [owner |-> kindGroup.uid, size |-> kindGroup.size]
StsConfig == [owner |-> kindGroup.uid, size |-> kindGroup.size]
LwsConfig == [owner |-> kindGroup.uid, size |-> kindGroup.size]
RoleInstanceSetConfig == [owner |-> kindGroup.uid, size |-> kindGroup.size]
Patched(w, config) ==
  IF w = None
  THEN [owner |-> config.owner, size |-> config.size, observed |-> FALSE, status |-> NoCounts]
  ELSE [w EXCEPT !.owner = config.owner, !.size = config.size, !.observed = @ /\ w.size = config.size]

\* An orphan is never skipped: the patch makes the group its controller.
Skipped(w, equal) == w # None /\ equal /\ w.owner # Orphan
Applied(w, config, equal) == IF Skipped(w, equal) THEN w ELSE Patched(w, config)
DeploymentEqual(w, config) == w # None => w.size = config.size
LeaderWorkerSetEqual(w, config) == w # None => w.size = config.size
ReconcileDeployment(w) == Applied(w, DeployConfig, DeploymentEqual(w, DeployConfig))
ReconcileLeaderWorkerSet(w) == Applied(w, LwsConfig, LeaderWorkerSetEqual(w, LwsConfig))
\* The rollout of a StatefulSet is StatefulSetRollout's.
ReconcileStsWorkload(w) == Applied(w, StsConfig, w # None => w.size = kindGroup.size)
\* A RoleInstanceSet is patched in every pass.
ReconcileRoleInstanceSet(w) == Patched(w, RoleInstanceSetConfig)
Reconciled(k, w) ==
  CASE k = "Deployment" -> ReconcileDeployment(w)
    [] k = "StatefulSet" -> ReconcileStsWorkload(w)
    [] k = "LeaderWorkerSet" -> ReconcileLeaderWorkerSet(w)
    [] OTHER -> ReconcileRoleInstanceSet(w)

\* A LeaderWorkerSet is ready when all that it has reported is, the others when
\* all that the spec asks for is.
DeploymentReady(w) == w.status.ready = w.size
StatefulSetReady(w) == w.status.ready = w.size
LeaderWorkerSetReady(w) == w.status.ready = w.status.replicas
RoleInstanceSetReady(w) == w.status.ready = w.size
CheckWorkloadReady(k, w) ==
  CASE k = "Deployment" -> DeploymentReady(w)
    [] k = "StatefulSet" -> StatefulSetReady(w)
    [] k = "LeaderWorkerSet" -> LeaderWorkerSetReady(w)
    [] OTHER -> RoleInstanceSetReady(w)

\* A status that is not about the present spec leaves the role's as it was; only
\* a LeaderWorkerSet's is taken as it is.
ConstructWorkloadRoleStatus(w) == IF w.observed THEN w.status ELSE roleStatus
LeaderWorkerSetStatus(w) == w.status
ConstructRoleStatus(k, w) ==
  IF w = None THEN NoCounts
  ELSE IF ~CheckWorkloadClaimable(w.owner) THEN NoCounts
  ELSE IF k = "LeaderWorkerSet" THEN LeaderWorkerSetStatus(w)
  ELSE ConstructWorkloadRoleStatus(w)

\* The owner is not among what is compared.
ServiceEqual(s) == s # None /\ s.size = kindGroup.size
ReconcileHeadlessService(k) ==
  IF k \in WithService /\ (service # None => ~ServiceEqual(service))
  THEN [of |-> k, size |-> kindGroup.size] ELSE service

\* The workloads of the group that are no role's, kind by kind.
IsLeftover(k) ==
  /\ k # kindGroup.kind
  /\ IF works[k] = None THEN FALSE ELSE works[k].owner = kindGroup.uid
OrphanedObjs == {k \in {"StatefulSet", "RoleInstanceSet"} : IsLeftover(k)}
OrphanedDeployments == {k \in {"Deployment"} : IsLeftover(k)}
OrphanedLeaderWorkerSets == {k \in {"LeaderWorkerSet"} : IsLeftover(k)}
OrphanedWorkloads == OrphanedObjs \cup OrphanedDeployments \cup OrphanedLeaderWorkerSets

\* WorkloadPredicate: an update of an owned workload, or its end.
Wakes(old, new) ==
  IF old = None \/ old = new THEN FALSE
  ELSE IF old.owner = Orphan THEN FALSE
  ELSE IF new = None THEN TRUE ELSE new.owner # Orphan

-----------------------------------------------------------------------------
\* Deleting a workload leaves its service to the collector.
Deletes(S, ws) ==
  /\ works' = [k \in Kinds |-> IF k \in S THEN None ELSE ws[k]]
  /\ kindQueued' = (kindQueued \/ \E k \in S : Wakes(works[k], None))
Unowned(s, S) == IF s = None THEN None ELSE IF s.of \in S THEN [s EXCEPT !.of = "gone"] ELSE s

\* The role that depends on this one is reconciled if the copy shows this one
\* ready; a copy that does not show it yet is an error.
DependencyReady(k, copy) ==
  IF copy = None THEN FALSE ELSE CheckWorkloadClaimable(copy.owner) /\ CheckWorkloadReady(k, copy)
RolesReconciled(k, copy) ==
  kindGroup.dependent => DependencyReady(k, copy) /\ (router # None => CheckWorkloadClaimable(router))

\* The leftovers of other kinds are deleted, ws being the workloads otherwise.
CleanUp(ws) == works' = [j \in Kinds |-> IF j \in OrphanedWorkloads THEN None ELSE ws[j]]

\* The status is written from what is there.  If the gang configuration cannot
\* be satisfied, the roles are left alone, what is left of other kinds is
\* deleted, and the pass is run again later.  Otherwise the workload of the
\* role's kind and its service are applied; then the role that depends on it;
\* then what is left of other kinds is deleted.  An error ends the pass, and it
\* is run again.
KindPass ==
  LET k == kindGroup.kind
      ws == [works EXCEPT ![k] = Reconciled(k, @)]
  IN /\ kindQueued
     /\ roleStatus' = ConstructRoleStatus(k, works[k])
     /\ \/ /\ ~kindGroup.gangFits
           /\ CleanUp(works) /\ service' = Unowned(service, OrphanedWorkloads)
           /\ UNCHANGED <<router, kindQueued>>
        \/ /\ kindGroup.gangFits /\ ~Claimable(works[k])
           /\ UNCHANGED <<works, router, service, kindQueued>>
        \/ /\ kindGroup.gangFits /\ Claimable(works[k])
           /\ \E copy \in {works[k], ws[k]} : ~RolesReconciled(k, copy)
           /\ works' = ws /\ service' = ReconcileHeadlessService(k)
           /\ UNCHANGED <<router, kindQueued>>
        \/ /\ kindGroup.gangFits /\ Claimable(works[k])
           /\ \E copy \in {works[k], ws[k]} : RolesReconciled(k, copy)
           /\ CleanUp(ws) /\ service' = Unowned(ReconcileHeadlessService(k), OrphanedWorkloads)
           /\ router' = IF kindGroup.dependent THEN kindGroup.uid ELSE router
           /\ kindQueued' = \E j \in Kinds : Wakes(works[j], works'[j])
     /\ UNCHANGED <<kindGroup, serviceLost, kindBudget>>

-----------------------------------------------------------------------------
(***************************************************************************)
(* The controllers of the workloads, the garbage collector and users.      *)
(***************************************************************************)
Reports(k, w) ==
  /\ works' = [works EXCEPT ![k] = w]
  /\ kindQueued' = (kindQueued \/ Wakes(works[k], w))
  /\ UNCHANGED <<kindGroup, router, service, roleStatus, serviceLost, kindBudget>>
Observe(k) ==
  /\ works[k] # None /\ ~works[k].observed
  /\ Reports(k, [works[k] EXCEPT !.observed = TRUE,
                   !.status = [replicas |-> works[k].size,
                               ready |-> IF @.ready < works[k].size THEN @.ready ELSE works[k].size]])
AllReady(k) ==
  /\ works[k] # None /\ works[k].observed /\ works[k].status.ready < works[k].size
  /\ Reports(k, [works[k] EXCEPT !.status.ready = works[k].size])

Collected(owner) == owner \notin {None, Orphan, kindGroup.uid}
CollectWork(k) ==
  /\ works[k] # None /\ Collected(works[k].owner)
  /\ Deletes({k}, works) /\ service' = Unowned(service, {k})
  /\ UNCHANGED <<kindGroup, router, roleStatus, serviceLost, kindBudget>>
CollectRouter ==
  /\ Collected(router) /\ router' = None /\ kindQueued' = TRUE
  /\ UNCHANGED <<kindGroup, works, service, roleStatus, serviceLost, kindBudget>>
\* Nobody is told: the group is not the controller of the service.
CollectService ==
  /\ service # None /\ service.of = "gone"
  /\ service' = None /\ serviceLost' = TRUE
  /\ UNCHANGED <<kindGroup, works, router, roleStatus, kindQueued, kindBudget>>

SpendOnKinds == kindBudget > 0 /\ kindBudget' = kindBudget - 1
\* Admission allows a change of the kind to RoleInstanceSet only.  A gang policy
\* that cannot be satisfied is written, or repaired.
ChangeKindGroup ==
  /\ SpendOnKinds /\ kindQueued' = TRUE
  /\ \/ kindGroup' = [kindGroup EXCEPT !.kind = "RoleInstanceSet"]
     \/ \E n \in KindSizes : kindGroup' = [kindGroup EXCEPT !.size = n]
     \/ kindGroup' = [kindGroup EXCEPT !.gangFits = ~@]
  /\ UNCHANGED <<works, router, service, roleStatus, serviceLost>>
\* The group is deleted, what it owns left to the collector or orphaned, and
\* created again, from the template of a set, with its kind.
RecreateKindGroup(orphaned) ==
  LET Left(owner) == IF orphaned /\ owner = kindGroup.uid THEN Orphan ELSE owner
  IN /\ SpendOnKinds /\ kindQueued' = TRUE
     /\ \E u \in KindUids :
          /\ u # kindGroup.uid /\ u # router /\ \A k \in Kinds : works[k] # None => works[k].owner # u
          /\ kindGroup' = [kindGroup EXCEPT !.uid = u]
     /\ works' = [k \in Kinds |-> IF works[k] = None THEN None ELSE [works[k] EXCEPT !.owner = Left(@)]]
     /\ router' = Left(router) /\ roleStatus' = NoCounts
     /\ UNCHANGED <<service, serviceLost>>
DeleteWork ==
  /\ SpendOnKinds /\ works[kindGroup.kind] # None
  /\ Deletes({kindGroup.kind}, works) /\ service' = Unowned(service, {kindGroup.kind})
  /\ UNCHANGED <<kindGroup, router, roleStatus, serviceLost>>

-----------------------------------------------------------------------------
\* A group that an earlier release has brought to rest.
KindInit ==
  \E k \in Kinds, n \in KindSizes, u \in {CHOOSE u \in KindUids : TRUE}, dependent \in BOOLEAN :
    /\ kindGroup = [uid |-> u, kind |-> k, size |-> n, gangFits |-> TRUE, dependent |-> dependent]
    /\ works = [j \in Kinds |->
                  IF j = k THEN [owner |-> u, size |-> n, observed |-> TRUE,
                                 status |-> [replicas |-> n, ready |-> n]] ELSE None]
    /\ router = IF dependent THEN u ELSE None
    /\ roleStatus = [replicas |-> n, ready |-> n]
    /\ service = IF k \in WithService THEN [of |-> k, size |-> n] ELSE None
    /\ serviceLost = FALSE /\ kindQueued = FALSE /\ kindBudget = KindBudget

KindWorld ==
  CollectRouter \/ CollectService \/ \E k \in Kinds : Observe(k) \/ AllReady(k) \/ CollectWork(k)
KindNext ==
  KindPass \/ KindWorld \/ ChangeKindGroup \/ DeleteWork \/ \E b \in BOOLEAN : RecreateKindGroup(b)
KindSpec == KindInit /\ [][KindNext]_kindVars
\* The work queue, the workloads' controllers and the collector go on.
KindFairness == WF_kindVars(KindPass) /\ WF_kindVars(KindWorld)

-----------------------------------------------------------------------------
\* A pass that finds a gang configuration that cannot be satisfied leaves the
\* roles of the group untouched (Reconcile: "Cleanup still runs, because it only
\* deletes workloads the user already removed from the spec"): a role of the
\* spec that the group runs is still run by something afterwards.
Served == \E k \in Kinds : IF works[k] = None THEN FALSE ELSE works[k].owner = kindGroup.uid
RolesLeftUntouched == [][KindPass /\ ~kindGroup.gangFits /\ Served => Served']_kindVars

\* No pass takes over the workload of another incarnation of the group.
ForeignKept ==
  [][\A k \in Kinds :
       (works[k] # None /\ works'[k] # None /\ kindGroup' = kindGroup)
         => \/ works'[k].owner = works[k].owner
            \/ works[k].owner = Orphan /\ works'[k].owner = kindGroup.uid]_kindVars

\* With a gang configuration that fits, the role comes to rest with one workload
\* of the group, of its kind, and its status.
\* Two things are left behind that nobody looks at: what deleting an
\* earlier incarnation has orphaned of another kind, which is never the group's,
\* and a service that was collected after its workload had been replaced, which
\* wakes nobody.
KindsAtRest ==
  LET n == kindGroup.size
  IN kindGroup.gangFits =>
     /\ works[kindGroup.kind] = [owner |-> kindGroup.uid, size |-> n, observed |-> TRUE,
                                 status |-> [replicas |-> n, ready |-> n]]
     /\ \A k \in Kinds \ {kindGroup.kind} : works[k] # None => works[k].owner = Orphan
     /\ router = (IF kindGroup.dependent THEN kindGroup.uid ELSE None) /\ roleStatus = [replicas |-> n, ready |-> n]
     /\ kindGroup.kind \in WithService /\ ~serviceLost =>
          service # None /\ service.size = n /\ service.of # "gone"
KindsSettle == <>[]KindsAtRest
=============================================================================
