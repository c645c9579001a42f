----------------------------- MODULE GangStrategy -----------------------------
(***************************************************************************)
(* Gang scheduling: the strategy a CoordinatedPolicy or the annotation     *)
(* resolves to, the PodGroup it asks for, and the floor it puts under      *)
(* coordinated scaling.                                                    *)
(*                                                                         *)
(* A strategy is None, or [roles, min]: the roles it covers ({} is every   *)
(* role) and a function that gives some of them a minimum.  Incompatible   *)
(* stands for the errors that only a change of the configuration repairs.  *)
(***************************************************************************)
EXTENDS Coordination

CONSTANT Incompatible

NoMinimum == <<>>

GangRules(policy) == {i \in DOMAIN policy : policy[i].gang # None}

\* A minimum counts when its own rule lists the role, and the largest counts;
\* a rule without minimums takes its roles in full, whatever the others say.
MergeGangStrategies(policy) ==
  LET rules == GangRules(policy)
      full == UNION {policy[i].roles : i \in {j \in rules : policy[j].gang = NoMinimum}}
      named == UNION {DOMAIN policy[i].gang \cap policy[i].roles : i \in rules} \ full
      min(r) == Max({policy[i].gang[r] : i \in {j \in rules : r \in DOMAIN policy[j].gang \cap policy[j].roles}})
  IN IF rules = {} THEN None
     ELSE IF named \cup full = {} THEN Incompatible
     ELSE [roles |-> full \cup named, min |-> [r \in named |-> min(r)]]

\* The annotation is for groups without a gang in their policy.
GetGangStrategy(policy, annotated) ==
  LET merged == IF policy = None THEN None ELSE MergeGangStrategies(policy)
  IN IF merged # None THEN merged
     ELSE IF annotated THEN [roles |-> {}, min |-> NoMinimum] ELSE None

RoleInGang(r, strategy) == strategy # None /\ (strategy.roles = {} \/ r \in strategy.roles)
CoveredRoles(roles, strategy) == {r \in roles : RoleInGang(r, strategy)}
UnknownGangRoles(roles, strategy) == strategy.roles \ roles

\* replicas and size are functions of the roles of the group.
GangMinimumReplicas(replicas, strategy) ==
  [r \in CoveredRoles(DOMAIN replicas, strategy) |->
     IF r \in DOMAIN strategy.min THEN strategy.min[r] ELSE replicas[r]]

\* GangSize and buildGangSpec: the members the PodGroup waits for, and with
\* minimums the instances of each covered role.  labelled is the roles whose
\* pods say which instance they belong to.
PodGroupSpec(replicas, size, labelled, strategy) ==
  LET minimum == GangMinimumReplicas(replicas, strategy)
      counted == {r \in DOMAIN minimum : minimum[r] > 0}
      pods(r) == size[r] * minimum[r]
      members == MapThenSumSet(pods, counted)
      subGroups == strategy.min # NoMinimum
  IN IF \/ UnknownGangRoles(DOMAIN replicas, strategy) # {}
        \/ \E r \in DOMAIN strategy.min \cap DOMAIN replicas : strategy.min[r] \notin 1 .. replicas[r]
        \/ subGroups /\ ~(counted \subseteq labelled)
        \/ members = 0
     THEN Incompatible
     ELSE [minMember |-> members, minSubGroups |-> IF subGroups THEN Restrict(minimum, counted) ELSE NoMinimum]

\* Volcano needs a PodGroup that knows subgroups for the minimums.
VolcanoPodGroup(replicas, size, labelled, subGroupSupport, strategy) ==
  IF strategy.min # NoMinimum /\ ~subGroupSupport THEN Incompatible
  ELSE PodGroupSpec(replicas, size, labelled, strategy)

\* The PodGroup of the scheduler plugins has none: only all or nothing.
PluginPodGroup(replicas, size, strategy) ==
  IF strategy.min # NoMinimum THEN Incompatible ELSE PodGroupSpec(replicas, size, {}, strategy)

\* The roles of targets are the ones a policy paces; the gang needs its minimum.
RaiseScalingTargetsToGangMinimum(targets, replicas, strategy) ==
  [r \in DOMAIN targets |->
     IF RoleInGang(r, strategy) /\ r \in DOMAIN replicas /\ targets[r] < GangMinimumReplicas(replicas, strategy)[r]
     THEN GangMinimumReplicas(replicas, strategy)[r] ELSE targets[r]]
===============================================================================
