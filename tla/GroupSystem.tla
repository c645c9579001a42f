----------------------------- MODULE GroupSystem -----------------------------
(***************************************************************************)
(* The group and adapter controllers together with what surrounds them:    *)
(* the controllers of the workloads, the scheduler, the garbage collector, *)
(* the autoscaler and the users.                                           *)
(***************************************************************************)
EXTENDS ScalingAdapter

\* A group that was just created.
Fresh ==
  /\ st = NoGroupStatus
  /\ revs = {} /\ pg = NoPodGroup
  /\ wl = [r \in Roles |-> NoWorkload] /\ inst = [r \in Roles |-> NoInstances]
  /\ adapter = [r \in Roles |-> NoAdapter] /\ ids = 0
  /\ dirty = TRUE
\* The same group once it has settled.
Settled ==
  LET n == conf.replicas
      status(r) == [replicas |-> n[r], ready |-> n[r], updated |-> n[r]]
  IN /\ st = [roles |-> [r \in Roles |-> status(r)], ready |-> TRUE, observed |-> TRUE,
              gang |-> IF Gang(group) = None THEN "" ELSE "True"]
     /\ revs = {[owner |-> 1, data |-> RevisionData(group), number |-> 1]}
     /\ pg = IF Gang(group) = None THEN NoPodGroup ELSE [owner |-> 1, spec |-> DesiredGroup(group, Gang(group))]
     /\ wl = [r \in Roles |-> [owner |-> 1, replicas |-> n[r], tmpl |-> 1, partition |-> 0,
                               gang |-> InjectPodSchedulingFields(r, Gang(group)), seen |-> TRUE, status |-> status(r)]]
     /\ inst = [r \in Roles |-> [n |-> n[r], updated |-> n[r], scheduled |-> n[r] * conf.size[r], ready |-> n[r]]]
     /\ adapter = [r \in Roles |-> IF r \in conf.adapters
                                   THEN [owner |-> 1, id |-> 1, replicas |-> n[r], phase |-> "Bound"] ELSE NoAdapter]
     /\ ids = 1
     /\ dirty = FALSE

InitGroup ==
  /\ conf \in Scenarios
  /\ group = [uid |-> 1, roles |-> Roles, replicas |-> conf.replicas, adapters |-> conf.adapters,
              tmpl |-> 1, mode |-> IF conf.settled THEN "refine" ELSE "", policed |-> conf.policy # <<>>, valid |-> TRUE]
  /\ IF conf.settled THEN Settled ELSE Fresh
  /\ acache = adapter /\ adirty = {} /\ pass = None /\ events = 0

-----------------------------------------------------------------------------
(***************************************************************************)
(* The workload of a role: one instance at a time is created, updated or   *)
(* deleted, and the status follows later.                                  *)
(***************************************************************************)
WorkloadRuns(r) == wl[r].owner # Absent
Tight(i, size) == [i EXCEPT !.updated = Min({@, i.n}), !.ready = Min({@, i.n}), !.scheduled = Min({@, i.n * size})]

CreateInstance(r) ==
  /\ WorkloadRuns(r) /\ inst[r].n < wl[r].replicas
  /\ inst' = [inst EXCEPT ![r].n = @ + 1, ![r].updated = @ + 1]
DeleteInstance(r) ==
  /\ inst[r].n > wl[r].replicas
  /\ inst' = [inst EXCEPT ![r] = Tight([@ EXCEPT !.n = @ - 1], conf.size[r])]
\* One instance at a time is updated in place, above the partition.
UpdateInstance(r) ==
  /\ WorkloadRuns(r) /\ inst[r].ready = inst[r].n /\ inst[r].updated < inst[r].n - wl[r].partition
  /\ inst' = [inst EXCEPT ![r].updated = @ + 1, ![r].ready = @ - 1]
\* The PodGroup is satisfied: the pods of its roles exist, and with minimums
\* the instances of each.
GangAdmitted ==
  LET pods(r) == inst[r].n * conf.size[r]
  IN /\ pg.owner # Absent
     /\ MapThenSumSet(pods, {r \in Roles : wl[r].gang}) >= pg.spec.minMember
     /\ \A r \in DOMAIN pg.spec.minSubGroups : inst[r].n >= pg.spec.minSubGroups[r]
SchedulePod(r) ==
  /\ inst[r].scheduled < inst[r].n * conf.size[r]
  /\ wl[r].gang => GangAdmitted
  /\ inst' = [inst EXCEPT ![r].scheduled = @ + 1]
BecomeReady(r) ==
  /\ inst[r].ready < inst[r].scheduled \div conf.size[r]
  /\ inst' = [inst EXCEPT ![r].ready = @ + 1]

InstanceStep(r) ==
  /\ CreateInstance(r) \/ DeleteInstance(r) \/ UpdateInstance(r) \/ SchedulePod(r) \/ BecomeReady(r)
  /\ UNCHANGED <<conf, group, st, revs, wl, pg, adapter, acache, ids, pass, dirty, adirty, events>>

\* WorkloadPredicate: a change of the status is an event for the group.  A new
\* template makes every instance outdated once its controller has seen it.
Observed(r) == [replicas |-> inst[r].n, ready |-> inst[r].ready, updated |-> inst[r].updated]
SyncStatus(r) ==
  /\ WorkloadRuns(r) /\ (~wl[r].seen \/ wl[r].status # Observed(r))
  /\ wl' = [wl EXCEPT ![r].seen = TRUE, ![r].status = Observed(r)]
  /\ dirty' = TRUE
  /\ UNCHANGED <<conf, group, st, revs, inst, pg, adapter, acache, ids, pass, adirty, events>>

-----------------------------------------------------------------------------
(***************************************************************************)
(* The garbage collector deletes what a deleted group owned.  Deletions of *)
(* workloads and PodGroups wake the group's controller, of revisions not.  *)
(***************************************************************************)
Gone(owner) == owner \notin {Absent, Orphan, group.uid}
CollectWorkload(r) ==
  /\ Gone(wl[r].owner)
  /\ wl' = [wl EXCEPT ![r] = NoWorkload] /\ inst' = [inst EXCEPT ![r] = NoInstances]
  /\ dirty' = TRUE
  /\ UNCHANGED <<conf, group, st, revs, pg, adapter, acache, ids, pass, adirty, events>>
CollectPodGroup ==
  /\ Gone(pg.owner) /\ pg' = NoPodGroup /\ dirty' = TRUE
  /\ UNCHANGED <<conf, group, st, revs, wl, inst, adapter, acache, ids, pass, adirty, events>>
CollectRest ==
  /\ (\E v \in revs : Gone(v.owner)) \/ (\E r \in Roles : Gone(adapter[r].owner))
  /\ revs' = {v \in revs : ~Gone(v.owner)}
  /\ adapter' = [r \in Roles |-> IF Gone(adapter[r].owner) THEN NoAdapter ELSE adapter[r]]
  /\ UNCHANGED <<conf, group, st, wl, inst, pg, acache, ids, pass, dirty, adirty, events>>

-----------------------------------------------------------------------------
(***************************************************************************)
(* Users, the autoscaler and failures, as many as the scenario admits.     *)
(***************************************************************************)
Happens(e) == e \in conf.events /\ events < conf.maxEvents /\ events' = events + 1
\* A change of the spec is an event for the group's controller.
SpecChange(g) ==
  /\ group' = g /\ dirty' = TRUE
  /\ UNCHANGED <<conf, st, revs, wl, inst, pg, adapter, acache, ids, pass, adirty>>

Rollout ==
  /\ Happens("rollout")
  /\ SpecChange([group EXCEPT !.tmpl = @ + 1])
Scale(r) ==
  /\ r \notin group.adapters
  /\ \E n \in 0 .. conf.maxReplicas : n # group.replicas[r] /\ SpecChange([group EXCEPT !.replicas[r] = n])
  /\ Happens("scale")
\* An upgrade that leaves out the replicas: the API server fills in 1.
DropReplicas(r) ==
  /\ Happens("drop") /\ group.replicas[r] # 1
  /\ SpecChange([group EXCEPT !.replicas[r] = 1])
\* A replace leaves out the annotation of the discovery mode as well.
Replace ==
  /\ Happens("replace")
  /\ SpecChange([group EXCEPT !.replicas = [r \in Roles |-> IF r \in group.adapters THEN 1 ELSE @[r]],
                              !.mode = ""])
RemoveRole(r) ==
  /\ Happens("remove") /\ r \in group.roles /\ group.roles # {r}
  /\ SpecChange([group EXCEPT !.roles = @ \ {r}])
AddRole(r) ==
  /\ Happens("add") /\ r \notin group.roles
  /\ SpecChange([group EXCEPT !.roles = @ \cup {r}])
DisableAdapter(r) ==
  /\ Happens("disable") /\ r \in group.adapters
  /\ SpecChange([group EXCEPT !.adapters = @ \ {r}])

\* The policy is deleted.
DeletePolicy ==
  /\ Happens("policy") /\ group.policed
  /\ SpecChange([group EXCEPT !.policed = FALSE])

\* The group becomes one that its controller refuses, or is repaired.
Invalidate ==
  /\ Happens("invalid")
  /\ SpecChange([group EXCEPT !.valid = ~@])

\* The group is deleted, its objects left to the garbage collector or
\* orphaned, and created again from a manifest without the replicas of the
\* roles that an adapter scales.
Recreate(orphaned) ==
  LET Left(owner) == IF orphaned /\ owner = group.uid THEN Orphan ELSE owner
  IN /\ Happens("recreate")
     /\ group' = [group EXCEPT !.uid = @ + 1, !.roles = Roles, !.tmpl = 1, !.mode = "",
                               !.replicas = [r \in Roles |-> IF r \in group.adapters THEN 1 ELSE conf.replicas[r]]]
     /\ st' = NoGroupStatus
     /\ wl' = [r \in Roles |-> [wl[r] EXCEPT !.owner = Left(@)]]
     /\ adapter' = [r \in Roles |-> [adapter[r] EXCEPT !.owner = Left(@)]]
     /\ pg' = [pg EXCEPT !.owner = Left(@)]
     /\ revs' = {[v EXCEPT !.owner = Left(@)] : v \in revs}
     /\ dirty' = TRUE
     /\ UNCHANGED <<conf, inst, acache, ids, pass, adirty>>

Autoscale(r) ==
  /\ Happens("autoscale") /\ adapter[r].phase = "Bound"
  /\ \E n \in 1 .. conf.maxReplicas :
       n # adapter[r].replicas /\ adapter' = [adapter EXCEPT ![r].replicas = n]
  /\ UNCHANGED <<conf, group, st, revs, wl, inst, pg, acache, ids, pass, dirty, adirty>>

\* A call of the pass fails, or the process stops and starts again: every key
\* is queued by the new informers.
Fault ==
  /\ Happens("fault") /\ pass # None
  /\ pass' = None /\ dirty' = TRUE /\ adirty' = {r \in Roles : adapter[r].owner # Absent}
  /\ UNCHANGED <<conf, group, st, revs, wl, inst, pg, adapter, acache, ids>>

User ==
  \/ Rollout \/ Replace \/ DeletePolicy \/ Invalidate \/ Fault
  \/ \E b \in BOOLEAN : Recreate(b)
  \/ \E r \in Roles : Scale(r) \/ DropReplicas(r) \/ RemoveRole(r) \/ AddRole(r) \/ DisableAdapter(r) \/ Autoscale(r)
World ==
  \/ CollectPodGroup \/ CollectRest
  \/ \E r \in Roles : InstanceStep(r) \/ SyncStatus(r) \/ CollectWorkload(r) \/ CatchUp(r)
Adapters == \E r \in Roles : AdapterPass(r)
NextGroup == Pass \/ Adapters \/ World \/ User

\* Work queues serve every key, and what surrounds the controllers goes on.
GroupFairness ==
  /\ WF_groupVars(Pass) /\ WF_groupVars(Adapters) /\ WF_groupVars(World)
  /\ \A r \in Roles : WF_groupVars(InstanceStep(r)) /\ WF_groupVars(SyncStatus(r))
GroupSpec == InitGroup /\ [][NextGroup]_groupVars /\ GroupFairness

-----------------------------------------------------------------------------
(***************************************************************************)
(* Properties.                                                             *)
(***************************************************************************)
\* The replicas a role should have: the ones of its bound adapter, which the
\* users' spec may have lost.
Wanted(r) ==
  IF r \in group.adapters /\ ContainsRBGOwner(adapter[r], group) /\ adapter[r].phase = "Bound"
  THEN adapter[r].replicas ELSE group.replicas[r]

RoleConverged(r) ==
  /\ wl[r].owner = group.uid /\ wl[r].tmpl = group.tmpl /\ wl[r].replicas = Wanted(r)
  /\ inst[r].n = Wanted(r) /\ inst[r].ready = inst[r].n /\ inst[r].updated = inst[r].n
  /\ IF r \in group.adapters THEN adapter[r].owner = group.uid /\ adapter[r].phase = "Bound"
     ELSE adapter[r] = NoAdapter
RoleRemoved(r) == wl[r] = NoWorkload /\ adapter[r] = NoAdapter
Misconfigured == GangConfig(group, Gang(group)) = Incompatible
Converged ==
  IF ~group.valid \/ Unsortable(group) THEN TRUE   \* the users have to repair it
  ELSE IF Misconfigured THEN st.gang = "False"
  ELSE /\ \A r \in Roles : IF r \in group.roles THEN RoleConverged(r) ELSE RoleRemoved(r)
       /\ Gang(group) = None <=> pg = NoPodGroup
       /\ st.ready /\ st.gang = IF Gang(group) = None THEN "" ELSE "True"

\* Whatever the users did, once they stop the group settles: every role runs
\* the replicas and the template asked for and is ready, under an owner that
\* exists, with its adapter bound; nothing of removed roles or of a deleted
\* predecessor is left, and no wake-up is missing on the way.  Coordinated
\* rolling updates are left out: roles that tie may trade their partitions for ever.
Converges == <>[]((\A i \in DOMAIN conf.policy : conf.policy[i].rolling = None) => Converged)

\* A role's workload appears after the workloads it depends on are this group's
\* own and all their instances are ready.
CreatedAfterDependencies ==
  [][\A r \in Roles : (wl[r].owner # group.uid /\ wl'[r].owner = group.uid) =>
       \A d \in conf.deps[r] : wl[d].owner = group.uid /\ inst[d].ready >= wl[d].replicas]_wl

\* What a group deleted under the same name left behind stays out of the new
\* group: its workloads and its PodGroup are not taken over, its adapters are
\* replaced and not adopted, and what they ask is never asked of the new group.
\* The replicas of a role change by themselves only after an adapter of this very
\* group, whatever the informer's copy missed: the live one, or one gone since.
NothingInherited ==
  /\ \A r \in Roles :
       /\ Gone(wl[r].owner) => wl'[r].owner \in {wl[r].owner, Absent}
       /\ Gone(adapter[r].owner) => adapter'[r].owner = adapter[r].owner \/ adapter'[r].id # adapter[r].id
       /\ (events' = events /\ group'.replicas[r] # group.replicas[r])
            => acache[r].owner = group.uid /\ (adapter[r].id = acache[r].id => adapter[r].owner = group.uid)
  /\ Gone(pg.owner) => pg'.owner \in {pg.owner, Absent}
NoInheritance == [][NothingInherited]_groupVars

\* While a bound adapter asks for the replicas a workload has, the workload
\* keeps them, whatever an upgrade leaves out of the group's spec.  A role under
\* coordinated scaling is left out: it follows the batches of its policy.
ServedAsAsked(r) ==
  /\ pass # None /\ r \in (pass.g.adapters \cap pass.g.roles) \ DOMAIN pass.targets /\ wl[r].owner = group.uid
  /\ adapter[r].owner = group.uid /\ adapter[r].phase = "Bound" /\ pass.adapters[r] = adapter[r]
  /\ wl[r].replicas = adapter[r].replicas
NoChurn ==
  [][\A r \in Roles : "replace" \notin conf.events /\ ServedAsAsked(r) => wl'[r].replicas = wl[r].replicas]_wl
===============================================================================
