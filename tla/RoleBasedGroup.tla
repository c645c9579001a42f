---------------------------- MODULE RoleBasedGroup ----------------------------
(***************************************************************************)
(* The RoleBasedGroup controller and the RoleBasedGroupScalingAdapter      *)
(* controller around one group: its spec and status, its revisions, the    *)
(* workload of each role, the PodGroup and the scaling adapters.  The      *)
(* workload controllers, the scheduler, the garbage collector, the         *)
(* autoscaler and the users are the environment.                           *)
(*                                                                         *)
(* A pass of the group controller reads the group once and works with that *)
(* copy to its end: Begin is everything up to the PodGroup, ApplyRole is   *)
(* one role, Finish the cleanup.  Objects carry the uid of the group that  *)
(* owns them, which outlives the group: a group deleted and created again  *)
(* under its name finds the leftovers of its predecessor.  Adapters are    *)
(* read from the informer's copy, which lags.  The workloads are           *)
(* RoleInstanceSets.                                                       *)
(***************************************************************************)
EXTENDS GangStrategy

CONSTANTS
  Roles,          \* the roles a group may have
  Scenarios,      \* the specs, events and bounds a behaviour may have
  HistoryLimit    \* DefaultRevisionHistoryLimit

Absent == 0       \* the owner of an object that does not exist
Orphan == -1      \* of one that no group controls
Events == {"rollout", "scale", "drop", "replace", "autoscale", "remove", "add",
           "disable", "recreate", "policy", "invalid", "fault"}
\* --scheduler-name, and whether Volcano's PodGroup knows subgroups.
Schedulers == {"scheduler-plugins", "volcano", "volcano without subgroups"}
IsRule(x) ==
  /\ x.roles \subseteq Roles
  /\ x.scaling \in {None} \cup [maxSkew : 0 .. 100, progression : {"OrderScheduled", "OrderReady"}]
  /\ x.rolling \in {None} \cup [maxSkew : {None} \cup 0 .. 100, maxUnavailable : {None} \cup IntOrString,
                                partition : {None} \cup IntOrString]
  /\ x.gang # None => DOMAIN x.gang \subseteq Roles /\ \A r \in DOMAIN x.gang : x.gang[r] \in Nat
\* replicas is the spec a behaviour starts from, size the pods of an instance.
IsConfiguration(c) ==
  /\ c.replicas \in [Roles -> Nat] /\ c.size \in [Roles -> Nat \ {0}] /\ c.deps \in [Roles -> SUBSET Roles]
  /\ c.adapters \subseteq Roles /\ {c.annotated, c.settled} \subseteq BOOLEAN /\ \A i \in DOMAIN c.policy : IsRule(c.policy[i])
  /\ c.scheduler \in Schedulers /\ c.events \subseteq Events /\ c.maxEvents \in Nat /\ c.maxReplicas \in Nat
ASSUME GroupAssumption ==
  HistoryLimit \in Nat \ {0} /\ None \notin Nat /\ \A c \in Scenarios : IsConfiguration(c)

VARIABLES
  conf,       \* the scenario, which no step changes
  group,      \* the group's spec, uid and discovery mode, and whether its policy exists
  st,         \* the group's status
  revs,       \* the ControllerRevisions under the group's name
  wl,         \* the RoleInstanceSet of each role
  inst,       \* the instances and pods of each role
  pg,         \* the PodGroup
  adapter,    \* the scaling adapters in the API server
  acache,     \* the informer's copy
  ids,        \* the adapters created so far
  pass,       \* the copy of the group and the plan of the pass under way, or None
  dirty,      \* the group's key is in the work queue
  adirty,     \* the adapters' keys in theirs
  events      \* what the users did and what failed so far, for the bound

adapterVars == <<adapter, acache, ids>>
groupVars == <<conf, group, st, revs, wl, inst, pg, adapter, acache, ids, pass, dirty, adirty, events>>

NoStatus == [replicas |-> 0, ready |-> 0, updated |-> 0]
NoWorkload == [owner |-> Absent, replicas |-> 0, tmpl |-> 0, partition |-> 0, gang |-> FALSE,
               seen |-> TRUE, status |-> NoStatus]
NoInstances == [n |-> 0, updated |-> 0, scheduled |-> 0, ready |-> 0]
NoAdapter == [owner |-> Absent, id |-> 0, replicas |-> None, phase |-> ""]
NoGroupStatus == [roles |-> [r \in Roles |-> None], ready |-> FALSE, gang |-> "", observed |-> FALSE]
NoPodGroup == [owner |-> Absent, spec |-> None]

RoleStatus == [replicas : Nat, ready : Nat, updated : Nat]
\* Every variable holds a value of its type, and no count goes past the pods there are.
GroupTypeOK ==
  /\ conf \in Scenarios /\ events <= conf.maxEvents
  /\ group.uid \in Nat \ {0} /\ group.roles \in SUBSET Roles /\ group.replicas \in [Roles -> Nat]
  /\ group.adapters \in SUBSET Roles /\ group.tmpl \in Nat /\ group.mode \in {"", "legacy", "refine"} /\ {group.policed, group.valid} \subseteq BOOLEAN
  /\ st.roles \in [Roles -> RoleStatus \cup {None}] /\ st.gang \in {"", "True", "False"}
  /\ \A v \in revs : v.owner \in Nat \cup {Orphan} /\ v.number \in Nat \ {0}
  /\ \A r \in Roles : /\ wl[r].owner \in Nat \cup {Orphan} /\ wl[r].status \in RoleStatus
                      /\ wl[r].replicas \in Nat /\ wl[r].partition \in Nat
                      /\ inst[r].updated <= inst[r].n /\ inst[r].ready <= inst[r].n
                      /\ inst[r].scheduled <= inst[r].n * conf.size[r]
                      /\ adapter[r].phase \in {"", "Bound", "NotBound"} /\ adapter[r].id <= ids
  /\ pg.owner \in Nat \cup {Orphan}
  /\ pass = None \/ pass.todo \in Seq(SUBSET Roles)
  /\ dirty \in BOOLEAN /\ adirty \subseteq Roles

-----------------------------------------------------------------------------
(***************************************************************************)
(* What a pass reads.                                                      *)
(***************************************************************************)
\* Mutant: whatever has the right name and labels is taken.
ClaimableByName(owner, g) == owner # Absent

\* What is orphaned here was the group's and keeps its label; an object without
\* it would be refused.
Claimable(owner, g) == owner \in {g.uid, Orphan}
ContainsRBGOwner(a, g) == a.owner = g.uid
IsScalingAdapterEnable(r, g) == r \in g.adapters
Policy == IF group.policed THEN conf.policy ELSE None

\* Mutant: the replicas of the spec are used as they are.
OverrideNothing(g) == g

\* A bound adapter of this group overrides the replicas of its role.
ApplyRBGSAReplicasOverride(g) ==
  [g EXCEPT !.replicas = [r \in Roles |->
     IF /\ r \in g.roles /\ IsScalingAdapterEnable(r, g) /\ ContainsRBGOwner(acache[r], g)
        /\ acache[r].phase = "Bound" /\ acache[r].replicas # None
     THEN acache[r].replicas ELSE g.replicas[r]]]

\* Both kinds of gang annotations at once, and templates or workloads that
\* cannot be resolved, end the pass before it changes anything.
PreCheck(g) == g.valid

\* The mode is stored on the group the first time it is needed, and the answer
\* of that patch takes the place of the copy the pass works with.
\* (A ConfigMap of a role that outlived its group would ask for the old mode too;
\* ConfigMaps are not modelled.)
ShouldUseLegacyDiscoveryConfig == st.observed
EnsureDiscoveryConfigMode(g) ==
  IF g.mode # "" THEN g
  ELSE [group EXCEPT !.mode = IF ShouldUseLegacyDiscoveryConfig THEN "legacy" ELSE "refine"]

\* Revisions: the ones of this group or of no group, and the next one.
ListRevisions(g) == {v \in revs : Claimable(v.owner, g)}
RevisionData(g) == <<g.tmpl, g.roles>>
HighestRevision(g) == CHOOSE v \in ListRevisions(g) : \A w \in ListRevisions(g) : w.number <= v.number
NewRevision(g) ==
  [owner |-> g.uid, data |-> RevisionData(g),
   number |-> IF ListRevisions(g) = {} THEN 1 ELSE HighestRevision(g).number + 1]
NeedsRevision(g) == ListRevisions(g) = {} \/ HighestRevision(g).data # RevisionData(g)
\* The name is the hash and the number: the API server refuses one that exists.
RevisionClash(g) == \E v \in revs : v.data = NewRevision(g).data /\ v.number = NewRevision(g).number
HandleRevisions(g) == revs \cup (IF NeedsRevision(g) THEN {NewRevision(g)} ELSE {})
CleanExpiredRevision(g, all) ==
  {v \in all : Claimable(v.owner, g)
     => Cardinality({w \in all : Claimable(w.owner, g) /\ w.number > v.number}) < HistoryLimit}

\* A status the workload's controller has not brought up to date is not used.
ConstructRoleStatus(r, g) ==
  IF ~Claimable(wl[r].owner, g) THEN NoStatus
  ELSE IF wl[r].seen THEN wl[r].status
  ELSE IF st.roles[r] = None THEN NoStatus ELSE st.roles[r]
RoleReady(r, g, statuses) ==
  g.replicas[r] = statuses[r].replicas /\ statuses[r].replicas = statuses[r].ready

\* The entries of roles that left the spec stay.
UpdateRBGStatus(g, statuses) ==
  [st EXCEPT !.roles = [r \in Roles |-> IF r \in g.roles THEN statuses[r] ELSE @[r]],
             !.ready = \A r \in g.roles : RoleReady(r, g, statuses),
             !.observed = TRUE]

-----------------------------------------------------------------------------
(***************************************************************************)
(* What it plans.                                                          *)
(***************************************************************************)
ScalingState(r, g, statuses) ==
  [desired |-> IF r \in g.roles THEN g.replicas[r] ELSE 0,
   current |-> IF r \in g.roles THEN statuses[r].replicas ELSE 0,
   ready |-> IF r \in g.roles THEN statuses[r].ready ELSE 0,
   scheduled |-> IF r \in g.roles THEN inst[r].scheduled ELSE 0,
   expected |-> IF r \in g.roles THEN statuses[r].replicas * conf.size[r] ELSE 0]
ScalingTargets(g, statuses) ==
  IF Policy = None THEN <<>>
  ELSE CalculateScaling(Policy, [r \in Roles |-> ScalingState(r, g, statuses)])

OwnStrategy == [r \in Roles |-> [partition |-> None, maxUnavailable |-> None]]
RollingUpdates(g, statuses) ==
  IF Policy = None THEN {<<>>}
  ELSE CalculateRollingUpdate(Policy, OwnStrategy, Restrict(g.replicas, g.roles),
         [r \in g.roles |-> statuses[r].updated], [r \in g.roles |-> statuses[r].ready])

Gang(g) == GetGangStrategy(Policy, conf.annotated)
DesiredGroup(g, gang) ==
  LET replicas == Restrict(g.replicas, g.roles)
  IN IF conf.scheduler = "scheduler-plugins" THEN PluginPodGroup(replicas, conf.size, gang)
     ELSE VolcanoPodGroup(replicas, conf.size, Roles, conf.scheduler = "volcano", gang)
GangConfig(g, gang) == IF gang \in {None, Incompatible} THEN gang ELSE DesiredGroup(g, gang)

\* createOrUpdate and deletePodGroup: a PodGroup of somebody else is an error,
\* one of nobody is adopted.
PodGroupForeign == pg.owner \notin {Absent, Orphan, group.uid}
PodGroupRefused(g, gang) == gang # None /\ GangConfig(g, gang) # Incompatible /\ PodGroupForeign
ReconcilePodGroup(g, gang) ==
  IF gang = None THEN IF pg.owner = g.uid THEN NoPodGroup ELSE pg
  ELSE [owner |-> g.uid, spec |-> DesiredGroup(g, gang)]

\* The condition is removed when there is no gang.
SetGangConfiguredCondition(status, config) ==
  [status EXCEPT !.gang = CASE config = Incompatible -> "False" [] config = None -> "" [] OTHER -> "True"]
\* Only the roles of the gang are enrolled with the PodGroup.
InjectPodSchedulingFields(r, gang) == RoleInGang(r, gang)

-----------------------------------------------------------------------------
(***************************************************************************)
(* A pass.                                                                 *)
(***************************************************************************)
\* A failed pass is tried again.
EndGroupPass(again) == pass' = None /\ dirty' = (again \/ dirty)

\* deleteOrphanRoles and CleanExpiredRevision, for the roles of the pass's copy.
\* The deletion of an adapter that is gone already is an error, which keeps the
\* revisions and runs the pass again.
OrphanedAdapters(g) == {r \in Roles \ g.roles : ContainsRBGOwner(acache[r], g)}
AdapterMissing(g) == \E r \in OrphanedAdapters(g) : adapter[r].owner = Absent
Cleanup(g, all) ==
  /\ wl' = [r \in Roles |-> IF r \notin g.roles /\ wl[r].owner = g.uid THEN NoWorkload ELSE wl[r]]
  /\ inst' = [r \in Roles |-> IF r \notin g.roles /\ wl[r].owner = g.uid THEN NoInstances ELSE inst[r]]
  /\ adapter' = [r \in Roles |-> IF r \in OrphanedAdapters(g) THEN NoAdapter ELSE adapter[r]]
  /\ revs' = IF AdapterMissing(g) THEN all ELSE CleanExpiredRevision(g, all)

NotifyAdapters(old, new) ==
  adirty' = IF old.roles = new.roles THEN adirty ELSE adirty \cup {r \in Roles : acache[r].owner # Absent}

\* SortRoles fails: a role depends on one that is not there, or on itself.
Unsortable(g) ==
  LET deps == Restrict(conf.deps, g.roles) IN UnknownDependency(deps) \/ CyclicDependency(deps)

\* g is the copy the pass works with.
StartPass(g, statuses, gang) ==
  IF ~PreCheck(g) \/ (NeedsRevision(g) /\ RevisionClash(g))
  THEN EndGroupPass(TRUE) /\ UNCHANGED <<group, st, revs, wl, inst, pg, adapter, adirty>>
  ELSE
    /\ group' = [group EXCEPT !.mode = g.mode]
    /\ NotifyAdapters(st, UpdateRBGStatus(g, statuses))
    /\ IF PodGroupRefused(g, gang)
       THEN \* reconcilePodGroup fails, after the revision and the status
         /\ EndGroupPass(TRUE)
         /\ st' = UpdateRBGStatus(g, statuses)
         /\ revs' = HandleRevisions(g)
         /\ UNCHANGED <<wl, inst, pg, adapter>>
       ELSE IF GangConfig(g, gang) = Incompatible
       THEN \* the roles are left alone until the configuration is repaired
         /\ EndGroupPass(TRUE)
         /\ st' = SetGangConfiguredCondition(UpdateRBGStatus(g, statuses), Incompatible)
         /\ Cleanup(g, HandleRevisions(g)) /\ UNCHANGED pg
       ELSE
         /\ st' = SetGangConfiguredCondition(UpdateRBGStatus(g, statuses), GangConfig(g, gang))
         /\ revs' = HandleRevisions(g)
         /\ pg' = ReconcilePodGroup(g, gang)
         /\ IF Unsortable(g) THEN EndGroupPass(TRUE)
            ELSE /\ \E rolling \in RollingUpdates(g, statuses) :
                      pass' = [g |-> g, adapters |-> acache, gang |-> gang, rolling |-> rolling, failed |-> FALSE,
                               targets |-> RaiseScalingTargetsToGangMinimum(ScalingTargets(g, statuses),
                                             Restrict(g.replicas, g.roles), gang),
                               todo |-> SortRoles(Restrict(conf.deps, g.roles))]
                 /\ dirty' = FALSE
         /\ UNCHANGED <<wl, inst, adapter>>
Begin ==
  /\ pass = None /\ dirty
  /\ \E g \in {EnsureDiscoveryConfigMode(ApplyRBGSAReplicasOverride(group))} :
     \E statuses \in {[r \in Roles |-> ConstructRoleStatus(r, g)]} : StartPass(g, statuses, Gang(g))
  /\ UNCHANGED <<conf, acache, ids, events>>

\* Mutant: the instances that exist are ready, however few they are.
DependencyReadySoFar(d, g) ==
  Claimable(wl[d].owner, g) /\ wl[d].status.ready = wl[d].status.replicas

\* CheckDependencyReady: a workload that is missing is an error, and like one
\* that is not ready it ends the pass.
DependencyReady(d, g) ==
  Claimable(wl[d].owner, g) /\ wl[d].status.ready = wl[d].replicas

\* The RoleInstanceSet that is applied.  A change of an existing one is an
\* event for the group; the creation of one is not.
AppliedWorkload(r) ==
  LET spec == [wl[r] EXCEPT
                 !.owner = pass.g.uid, !.tmpl = pass.g.tmpl,
                 !.replicas = IF r \in DOMAIN pass.targets THEN pass.targets[r] ELSE pass.g.replicas[r],
                 !.partition = IF r \in DOMAIN pass.rolling /\ pass.rolling[r].partition # None
                               THEN pass.rolling[r].partition.value ELSE 0,
                 !.gang = InjectPodSchedulingFields(r, pass.gang)]
  IN IF spec = wl[r] THEN spec ELSE [spec EXCEPT !.seen = FALSE]

CreatedAdapter(g) == [NoAdapter EXCEPT !.owner = g.uid, !.id = ids + 1]
\* ReconcileScalingAdapter, from the informer's copy: an adapter that is not
\* this group's is replaced, if the one deleted is the one that was seen.
AdapterRefused(r) ==
  IF IsScalingAdapterEnable(r, pass.g)
  THEN ~ContainsRBGOwner(acache[r], pass.g) /\ adapter[r].owner # Absent /\ adapter[r].id # acache[r].id
  ELSE acache[r].owner # Absent /\ adapter[r].owner = Absent
ReconcileScalingAdapter(r) ==
  IF acache[r].owner # Absent /\ ~IsScalingAdapterEnable(r, pass.g)
  THEN adapter' = [adapter EXCEPT ![r] = NoAdapter] /\ ids' = ids
  ELSE IF IsScalingAdapterEnable(r, pass.g) /\ ~ContainsRBGOwner(acache[r], pass.g)
  THEN adapter' = [adapter EXCEPT ![r] = CreatedAdapter(pass.g)] /\ ids' = ids + 1
  ELSE UNCHANGED <<adapter, ids>>

\* After the last role of a level: on to the next one, unless a role failed.
NextLevel(r, failed) ==
  LET rest == Head(pass.todo) \ {r}
      todo == IF rest = {} THEN Tail(pass.todo) ELSE <<rest>> \o Tail(pass.todo)
  IN IF rest = {} /\ failed THEN None ELSE [pass EXCEPT !.todo = todo, !.failed = failed]

\* inst counts the instances that have the template of the workload.
Outdate(r) == inst' = IF wl'[r].tmpl = wl[r].tmpl THEN inst ELSE [inst EXCEPT ![r].updated = 0]

ApplyRole(r) ==
  /\ pass # None /\ pass.todo # <<>> /\ r \in Head(pass.todo)
  /\ IF \E d \in conf.deps[r] : ~DependencyReady(d, pass.g)
     THEN EndGroupPass(TRUE) /\ UNCHANGED <<wl, inst, adapter, ids>>
     ELSE IF wl[r].owner # Absent /\ ~Claimable(wl[r].owner, pass.g)
     THEN /\ pass' = NextLevel(r, TRUE) /\ dirty' = (dirty \/ pass' = None)
          /\ UNCHANGED <<wl, inst, adapter, ids>>
     ELSE /\ wl' = [wl EXCEPT ![r] = AppliedWorkload(r)] /\ Outdate(r)
          /\ IF AdapterRefused(r) THEN UNCHANGED <<adapter, ids>> ELSE ReconcileScalingAdapter(r)
          /\ pass' = NextLevel(r, pass.failed \/ AdapterRefused(r))
          /\ dirty' = (dirty \/ pass' = None \/ (wl[r].owner # Absent /\ wl'[r] # wl[r]))
  /\ UNCHANGED <<conf, group, st, revs, pg, acache, adirty, events>>

Finish ==
  /\ pass # None /\ pass.todo = <<>>
  /\ Cleanup(pass.g, revs)
  /\ EndGroupPass(AdapterMissing(pass.g) \/ wl' # wl)
  /\ UNCHANGED <<conf, group, st, pg, acache, ids, adirty, events>>

Pass == Begin \/ (\E r \in Roles : ApplyRole(r)) \/ Finish
===============================================================================
