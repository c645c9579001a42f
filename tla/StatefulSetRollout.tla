-------------------------- MODULE StatefulSetRollout --------------------------
(***************************************************************************)
(* A role whose workload is a plain StatefulSet.  The reconciler drives a  *)
(* rolling update with maxUnavailable and maxSurge by moving the partition *)
(* and the replicas of the StatefulSet from pass to pass; the controller   *)
(* of StatefulSets (external) creates, deletes and replaces the pods and   *)
(* records a revision of the template when it first sees it.               *)
(*                                                                         *)
(* Templates are numbers.  Absolute values of maxUnavailable and maxSurge; *)
(* a pass reads the StatefulSet, its pods and its revisions as they are,   *)
(* and every change of them wakes it.                                      *)
(***************************************************************************)
EXTENDS Optional, Integers, FiniteSets, FiniteSetsExt

CONSTANTS StsTemplates,      \* 1 .. n
          MaxReplicas,       \* largest number of replicas a role asks for
          Strategies,        \* [unavailable, surge, partition] of the role
          StsBudget          \* changes by users, and failures of pods
VARIABLES role,       \* [replicas, template, strategy, coordinated]
          sts,        \* the StatefulSet: [template, size, replicas, partition]
          pods,       \* pods by index: [template, ready]
          revised,    \* the template of the highest revision
          settledOn,  \* the revision pods below the partition are created at
          stsBudget
stsVars == <<role, sts, pods, revised, settledOn, stsBudget>>

PodIndexes == 0 .. 2 * MaxReplicas - 1
Pod == [template : StsTemplates, ready : BOOLEAN]
\* The StatefulSet has all the replicas of its role, and at most as many again
\* for the surge.
StsTypeOK ==
  /\ role.replicas \in 0 .. MaxReplicas /\ role.template \in StsTemplates
  /\ role.strategy \in [unavailable : Nat, surge : Nat, partition : Nat]
  /\ role.coordinated \in 0 .. MaxReplicas \cup {None}
  /\ sts # None => /\ sts.template \in StsTemplates /\ sts.size \in 0 .. MaxReplicas
                   /\ sts.replicas \in sts.size .. 2 * sts.size
                   /\ sts.partition \in 0 .. 2 * MaxReplicas
  /\ \A i \in PodIndexes : pods[i] \in Pod \cup {None}
  /\ revised \in StsTemplates \cup {None} /\ settledOn \in StsTemplates \cup {None}
  /\ stsBudget \in 0 .. StsBudget

-----------------------------------------------------------------------------
\* Mutant.
NeverUpdated == sts = None

NonZeroValue(n) == IF n < 0 THEN 0 ELSE n
\* No more surge than there are replicas.
MaxSurge == Min({role.strategy.surge, role.replicas})
BurstReplicas == role.replicas + MaxSurge
\* Mutant: the last replica to get ready takes one that is not surge with it.
ReleasesOneTooMany(unready) ==
  IF unready <= MaxSurge THEN role.replicas + unready - 1 ELSE BurstReplicas

\* The surge is given back as the last replicas get ready.
WantReplicas(unready) ==
  IF unready <= MaxSurge THEN role.replicas + NonZeroValue(unready - 1) ELSE BurstReplicas

\* The role-size annotation is among the annotations that are compared.
StsUpdated == sts.template # role.template \/ sts.size # role.replicas

\* What getReplicaStates finds for the indexes of the StatefulSet.
IsReady(i) == i < sts.replicas /\ pods[i] # None /\ pods[i].ready
IsUpdated(i) == i < sts.replicas /\ pods[i] # None /\ pods[i].template = revised
RoleUnreadyReplicas ==
  Cardinality({i \in 0 .. role.replicas - 1 : ~IsReady(i) \/ ~IsUpdated(i)})

\* The length of the tail of replicas that are ready and updated.
ContinuousReadyReplicas ==
  Max({n \in 0 .. sts.replicas :
         \A i \in sts.replicas - n .. sts.replicas - 1 : IsReady(i) /\ IsUpdated(i)})

RollingUpdatePartition(step) ==
  LET lowest == NonZeroValue(sts.replicas - ContinuousReadyReplicas - step)
      raised == lowest + Cardinality({i \in 0 .. lowest - 1 : ~IsReady(i)})
      top == Min({raised, sts.replicas - 1})
      \* Unready or updated replicas right below are within the partition.
      reached == {i \in lowest .. top : \A j \in i .. top : ~IsReady(j) \/ IsUpdated(j)}
  IN Min({sts.partition} \cup (IF reached = {} THEN {raised} ELSE {Min(reached)}))

\* The cases of rollingUpdateParameters.  The fifth, replicas changed during
\* a rolling update, is never reached: the change counts as an update.
UnboundedParameters ==
  LET Parameters(p, r) == [partition |-> p, replicas |-> r]
  IN IF sts = None THEN Parameters(0, role.replicas)
     ELSE IF role.coordinated # None THEN Parameters(role.coordinated, role.replicas)
     ELSE IF StsUpdated
     THEN Parameters(Min({role.replicas, sts.replicas}), WantReplicas(role.replicas))
     ELSE IF sts.partition = 0 /\ sts.replicas = role.replicas THEN Parameters(0, role.replicas)
     ELSE Parameters(
            RollingUpdatePartition(role.strategy.unavailable + MaxSurge - (BurstReplicas - sts.replicas)),
            WantReplicas(RoleUnreadyReplicas))
RollingUpdateParameters ==
  [UnboundedParameters EXCEPT !.partition = Max({@, role.strategy.partition})]

AppliedSts(p) ==
  [template |-> role.template, size |-> role.replicas, replicas |-> p.replicas, partition |-> p.partition]
Unchanged(p) ==
  IF sts = None THEN FALSE
  ELSE ~StsUpdated /\ p.partition = sts.partition /\ sts.replicas = role.replicas

ReconcileStatefulSet ==
  \E p \in {RollingUpdateParameters} :
    /\ ~Unchanged(p)
    /\ sts' = AppliedSts(p) /\ sts' # sts
    /\ UNCHANGED <<role, pods, revised, settledOn, stsBudget>>

-----------------------------------------------------------------------------
(***************************************************************************)
(* The controller of StatefulSets, with parallel pod management: external. *)
(* Every step of it first records the revision of the template.            *)
(***************************************************************************)
SetPods(ps) ==
  /\ pods' = ps /\ revised' = sts.template
  /\ UNCHANGED <<role, sts, stsBudget>>

RecordRevision ==
  /\ sts # None /\ revised # sts.template
  /\ SetPods(pods) /\ settledOn' = IF settledOn = None THEN sts.template ELSE settledOn

CreatePods ==
  /\ sts # None /\ revised = sts.template
  /\ \E i \in PodIndexes :
       /\ i < sts.replicas /\ pods[i] = None
       /\ SetPods([pods EXCEPT ![i] = [template |-> IF i < sts.partition THEN settledOn ELSE sts.template,
                                       ready |-> FALSE]])
  /\ UNCHANGED settledOn

ScaleDownPods ==
  /\ sts # None
  /\ \E i \in PodIndexes :
       /\ i >= sts.replicas /\ pods[i] # None
       /\ SetPods([pods EXCEPT ![i] = None])
  /\ UNCHANGED settledOn

\* From the top down to the partition, one pod at a time.
ReplacePod ==
  /\ sts # None /\ \A i \in PodIndexes : i < sts.replicas => pods[i] # None
  /\ \E i \in PodIndexes :
       /\ i >= sts.partition /\ i < sts.replicas /\ pods[i].template # sts.template
       /\ \A j \in PodIndexes :
            j > i /\ j < sts.replicas => pods[j].template = sts.template /\ pods[j].ready
       /\ SetPods([pods EXCEPT ![i] = None])
  /\ UNCHANGED settledOn

CompleteUpdate ==
  /\ sts # None /\ sts.partition = 0 /\ settledOn # sts.template
  /\ \A i \in PodIndexes : i < sts.replicas => pods[i] = [template |-> sts.template, ready |-> TRUE]
  /\ settledOn' = sts.template /\ SetPods(pods)

StartPod(i) ==
  /\ pods[i] # None /\ ~pods[i].ready
  /\ pods' = [pods EXCEPT ![i].ready = TRUE]
  /\ UNCHANGED <<role, sts, revised, settledOn, stsBudget>>

-----------------------------------------------------------------------------
\* The admission webhook.
ValidateRollingUpdate(r) ==
  r.replicas > 0 => /\ r.strategy.surge + r.strategy.unavailable > 0
                    /\ r.strategy.partition < r.replicas
SpendOnSts == stsBudget > 0 /\ stsBudget' = stsBudget - 1
FailPod(i) ==
  /\ SpendOnSts /\ pods[i] # None /\ pods[i].ready
  /\ pods' = [pods EXCEPT ![i].ready = FALSE]
  /\ UNCHANGED <<role, sts, revised, settledOn>>
ChangeRole ==
  /\ SpendOnSts
  /\ \/ \E n \in 1 .. MaxReplicas : role' = [role EXCEPT !.replicas = n]
     \/ \E t \in StsTemplates : role' = [role EXCEPT !.template = t]
     \/ \E p \in 0 .. role.replicas \cup {None} : role' = [role EXCEPT !.coordinated = p]
  /\ ValidateRollingUpdate(role')
  /\ UNCHANGED <<sts, pods, revised, settledOn>>

StsInit ==
  /\ \E s \in Strategies : role = [replicas |-> MaxReplicas, template |-> 1, strategy |-> s,
                                  coordinated |-> None]
  /\ sts = None /\ pods = [i \in PodIndexes |-> None]
  /\ revised = None /\ settledOn = None /\ stsBudget = StsBudget

SetController == RecordRevision \/ CreatePods \/ ScaleDownPods \/ ReplacePod \/ CompleteUpdate
StsNext ==
  \/ ReconcileStatefulSet \/ SetController \/ ChangeRole
  \/ \E i \in PodIndexes : StartPod(i) \/ FailPod(i)
\* The work queue, the controller of StatefulSets and the kubelets go on.
StsFairness ==
  /\ WF_stsVars(ReconcileStatefulSet) /\ WF_stsVars(SetController)
  /\ \A i \in PodIndexes : WF_stsVars(StartPod(i))

-----------------------------------------------------------------------------
\* The rest that the comment above rollingUpdateParameters describes: the
\* partition is zero, or what the role or a coordination asks for.
StsAtRest ==
  /\ sts = [template |-> role.template, size |-> role.replicas, replicas |-> role.replicas,
            partition |-> Max({role.strategy.partition} \cup ({role.coordinated} \ {None}))]
  /\ \A i \in PodIndexes : IF i >= role.replicas THEN pods[i] = None ELSE pods[i] # None
  /\ \A i \in 0 .. role.replicas - 1 :
       pods[i].ready /\ (i >= sts.partition => pods[i].template = role.template)

\* Whatever users change in the middle of a rolling update and whichever pods
\* fail, the partition comes down, the surge is given back and every replica
\* at or above the role's partition runs the new template, ready.
StsSettles == <>[]StsAtRest
=============================================================================
