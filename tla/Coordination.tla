----------------------------- MODULE Coordination -----------------------------
(***************************************************************************)
(* How several roles of a group move together: the order of their          *)
(* dependencies, the batches of a coordinated scale-up, and the partitions *)
(* of a coordinated rolling update.  Pure functions of what a pass of the  *)
(* group controller has read.                                              *)
(*                                                                         *)
(* Progress is a fraction <<n, d>>, compared exactly; the code divides     *)
(* floats, which agrees for the shares and sizes of the runs (1%, 25%,     *)
(* 50%, 100% of 1 to 5 replicas) and may give one instance more for others *)
(* (of 10, 0.2 + 0.1 is 4).                                                *)
(***************************************************************************)
EXTENDS Optional, Integers, Sequences, FiniteSets, FiniteSetsExt, SequencesExt, Functions

AtLeast(x, y) == IF x < y THEN y ELSE x
AtMost(x, y) == IF x < y THEN x ELSE y
CeilDiv(n, d) == (n + d - 1) \div d
\* math.Round of n / d, for n >= 0: halves go up.
Round(n, d) == (2 * n + d) \div (2 * d)

-----------------------------------------------------------------------------
(***************************************************************************)
(* An IntOrString, and what it is of a number of replicas.                 *)
(***************************************************************************)
IntOrString == [percent : BOOLEAN, value : Nat]
IntVal(n) == [percent |-> FALSE, value |-> n]
ScaledValue(x, total) == IF x.percent THEN CeilDiv(x.value * total, 100) ELSE x.value

\* A percentage below 100% always lets one replica be updated.
CalculatePartitionReplicas(x, replicas) ==
  LET scaled == ScaledValue(x, replicas)
      kept == IF replicas >= 1 /\ scaled = replicas /\ x.percent /\ x.value # 100
              THEN replicas - 1 ELSE scaled
  IN AtMost(kept, replicas)

-----------------------------------------------------------------------------
(***************************************************************************)
(* Dependencies: deps[r] is the roles that r depends on.                   *)
(***************************************************************************)
UnknownDependency(deps) == \E r \in DOMAIN deps : ~(deps[r] \subseteq DOMAIN deps)

\* The roles that reach a role of depth n: the depth a visit computes is the
\* longest chain of dependencies below the role, when there is no cycle.
LOCAL Deeper(deps) ==
  LET above[n \in 0 .. Cardinality(DOMAIN deps)] ==
        IF n = 0 THEN DOMAIN deps
        ELSE {r \in DOMAIN deps : deps[r] \cap above[n - 1] # {}}
  IN above
CyclicDependency(deps) == Deeper(deps)[Cardinality(DOMAIN deps)] # {}
DependencyOrder(deps, r) == Max({n \in 0 .. Cardinality(DOMAIN deps) : r \in Deeper(deps)[n]})

\* The roles of each level, the first level first.
SortRoles(deps) ==
  LET depth == Max({DependencyOrder(deps, r) : r \in DOMAIN deps} \cup {0})
  IN [n \in 1 .. depth + 1 |-> {r \in DOMAIN deps : DependencyOrder(deps, r) = n - 1}]

-----------------------------------------------------------------------------
(***************************************************************************)
(* Coordinated scaling.  S[r] is the RoleScalingState of each role of the  *)
(* rule: desired, current, scheduled, expected and ready.                  *)
(***************************************************************************)
LOCAL Slower(p, q) == p[1] * q[2] < q[1] * p[2]
Behind(s) == s.current < s.desired

Progress(s) ==
  IF s.desired = 0 THEN <<IF s.current = 0 THEN 1 ELSE 0, 1>> ELSE <<s.current, s.desired>>

\* A role that has all its replicas does not hold the others back.
MinProgress(S) ==
  LET behind == {r \in DOMAIN S : Behind(S[r])}
      pool == {Progress(S[r]) : r \in IF behind = {} THEN DOMAIN S ELSE behind}
  IN CHOOSE p \in pool : \A q \in pool : ~Slower(q, p)

\* The current batch: a role without pods yet, or with all of them, is not waited for.
BatchComplete(s, progression) ==
  \/ ~Behind(s) \/ s.current = 0
  \/ progression = "OrderScheduled" /\ s.scheduled >= s.expected
  \/ progression = "OrderReady" /\ s.ready >= s.current
CanProceedToNextBatch(S, progression) == \A r \in DOMAIN S : BatchComplete(S[r], progression)

\* skew is a percentage; the allowed progress is <<n, d>>.
TargetUpTo(s, allowed) ==
  IF ~Behind(s) THEN s.desired
  ELSE IF ~Slower(Progress(s), allowed) THEN s.current
  ELSE AtLeast(AtMost(CeilDiv(allowed[1] * s.desired, allowed[2]), s.desired), s.current + 1)

CalculateTargetReplicas(S, scaling) ==
  LET least == MinProgress(S)
      allowed == <<100 * least[1] + scaling.maxSkew * least[2], 100 * least[2]>>
  IN [r \in DOMAIN S |-> IF CanProceedToNextBatch(S, scaling.progression)
                         THEN TargetUpTo(S[r], allowed) ELSE S[r].current]

\* The rules that scale, and the target of every role they pace: the smallest
\* of the targets of its rules.
ScalingRules(policy) == {i \in DOMAIN policy : policy[i].scaling # None}
CalculateScaling(policy, S) ==
  LET rules == ScalingRules(policy)
      target(i) == CalculateTargetReplicas(Restrict(S, policy[i].roles), policy[i].scaling)
  IN [r \in UNION {policy[i].roles : i \in rules} |->
        Min({target(i)[r] : i \in {j \in rules : r \in policy[j].roles}})]

-----------------------------------------------------------------------------
(***************************************************************************)
(* Coordinated rolling updates.  desired, updated and ready are functions  *)
(* of the roles of a rule that have replicas.                              *)
(***************************************************************************)
\* The order of the sort: by progress, and the larger role first among equals.
UpdatedBefore(q, r, desired, updated) ==
  LET p == <<updated[q], desired[q]>>
      o == <<updated[r], desired[r]>>
  IN Slower(p, o) \/ (~Slower(o, p) /\ desired[q] > desired[r])

\* Mutant: the order of the sort is reversed.
SlowestAndFastest(desired, updated) ==
  {e \in (DOMAIN desired) \X (DOMAIN desired) :
     /\ e[1] # e[2]
     /\ \A r \in DOMAIN desired : /\ ~UpdatedBefore(r, e[1], desired, updated)
                                  /\ ~UpdatedBefore(e[2], r, desired, updated)}

\* Roles that tie end up in any order: the pairs <<fastest, slowest>> possible.
FastestAndSlowest(desired, updated) ==
  {e \in (DOMAIN desired) \X (DOMAIN desired) :
     /\ e[1] # e[2]
     /\ \A r \in DOMAIN desired : /\ ~UpdatedBefore(e[1], r, desired, updated)
                                  /\ ~UpdatedBefore(r, e[2], desired, updated)}

\* The updated replicas a role of d replicas may have next to a role that has
\* updated a of its b.
UpdatedReplicasBound(skew, a, b, d) ==
  IF b = 0 THEN <<0, 0>>
  ELSE <<Round(AtLeast(100 * a * d - skew * b * d, 0), 100 * b),
         Round(100 * a * d + skew * b * d, 100 * b)>>

RollingStep(skew, fast, slow, desired, updated, ready) ==
  LET bound == UpdatedReplicasBound(skew, updated[fast], desired[fast], desired[slow])
      balance == (bound[1] + bound[2] + 1) \div 2
      maxSkew == AtLeast(CeilDiv(skew * desired[slow], 100), 1)
      step == AtLeast(AtLeast(balance - updated[slow], 0), maxSkew \div 2)
      least == IF updated[slow] < desired[slow] \/ ready[fast] = desired[fast] THEN 1 ELSE 0
  IN AtMost(updated[slow] + AtLeast(step, least), bound[2] + 1)

\* Only the slowest role moves; the others stay where they are.
NextRollingTargets(skew, desired, updated, ready) ==
  {[updated EXCEPT ![e[2]] = RollingStep(skew, e[1], e[2], desired, updated, ready)] :
     e \in FastestAndSlowest(desired, updated)}

\* The strategies a rule may give its roles: the rule's values over the role's
\* own, and no partition below the one of the skew.
RollingStrategies(rule, own, desired, updated, ready) ==
  LET roles == {r \in rule.roles \cap DOMAIN desired : desired[r] > 0}
      ru == rule.rolling
      base == [r \in roles |->
        [partition |-> IF ru.partition = None THEN own[r].partition
                       ELSE IntVal(CalculatePartitionReplicas(ru.partition, desired[r])),
         maxUnavailable |-> IF ru.maxUnavailable = None THEN own[r].maxUnavailable ELSE ru.maxUnavailable]]
      final(r) == IF base[r].partition = None THEN 0 ELSE ScaledValue(base[r].partition, desired[r])
      stepped(t) == [r \in roles |-> [base[r] EXCEPT !.partition =
                                        IntVal(AtLeast(desired[r] - t[r], final(r)))]]
  IN IF ru = None \/ Cardinality(rule.roles) <= 1 THEN {<<>>}
     ELSE IF ru.maxSkew = None \/ Cardinality(roles) <= 1 THEN {base}
     ELSE {stepped(t) : t \in NextRollingTargets(ru.maxSkew, Restrict(desired, roles),
                                  Restrict(updated, roles), Restrict(ready, roles))}

\* A role of two rules gets the smaller maxUnavailable and the larger
\* partition; what is not set counts as 0.
LOCAL Of100(x) == IF x = None THEN 0 ELSE ScaledValue(x, 100)
MergeStrategy(a, b) ==
  [maxUnavailable |-> IF Of100(a.maxUnavailable) > Of100(b.maxUnavailable)
                      THEN b.maxUnavailable ELSE a.maxUnavailable,
   partition |-> IF Of100(a.partition) < Of100(b.partition) THEN b.partition ELSE a.partition]
MergeStrategyRollingUpdate(A, B) ==
  [r \in DOMAIN A \cup DOMAIN B |->
     IF r \notin DOMAIN A THEN B[r] ELSE IF r \notin DOMAIN B THEN A[r] ELSE MergeStrategy(A[r], B[r])]

\* Rule by rule, the next one merged into what the ones before it gave.
CalculateRollingUpdate(policy, own, desired, updated, ready) ==
  LET upTo[i \in 0 .. Len(policy)] ==
        IF i = 0 THEN {<<>>}
        ELSE {MergeStrategyRollingUpdate(a, b) :
                a \in RollingStrategies(policy[i], own, desired, updated, ready), b \in upTo[i - 1]}
  IN upTo[Len(policy)]
===============================================================================
