------------------------------ MODULE MCInstance ------------------------------
(***************************************************************************)
(* A RoleInstance in every scenario of MCRoleInstance, and the algorithms  *)
(* of its passes against what they are for (MCInstanceRules), for every    *)
(* small graph and every delay of small words.  They share no state, so    *)
(* part says which of them a behaviour is about, and the other one stays   *)
(* at rest.                                                                *)
(***************************************************************************)
EXTENDS MCRoleInstance

CONSTANTS MaxDeletes, MaxSeconds, MaxRestarts

VARIABLES part,                       \* rigid: "instance" or "rules"
          start, del, ready, stopping, base, max, count
ruleVars == <<start, del, ready, stopping, base, max, count>>

ThreeComponents == {"leader", "router", "worker"}
Graph == INSTANCE ComponentGraph WITH Components <- ThreeComponents
Delay == INSTANCE BackoffDelay WITH Int64Bits <- 12, Int32Bits <- 6
Rules == INSTANCE MCInstanceRules
           WITH Components <- ThreeComponents, Int64Bits <- 12, Int32Bits <- 6

InstanceIdle ==
  /\ conf = Quiet
  /\ inst = [gen |-> 1, rev |-> conf.spec.rev, size |-> conf.spec.size,
             st |-> SettledStatus(conf.spec, "none")]
  /\ pods = Running(conf.spec.rev, conf.spec.size) /\ cacheInst = inst /\ cachePods = pods
  /\ mem = FALSE /\ queued = FALSE /\ timer = 0 /\ update = "idle"
  /\ faults = 0 /\ failures = 0
RulesIdle ==
  /\ start = [c \in ThreeComponents |-> {}] /\ del = start
  /\ ready = {} /\ stopping = TRUE /\ base = 0 /\ max = 0 /\ count = 0

allVars == <<part, vars, ruleVars>>
PartInit ==
  \/ part = "instance" /\ Init /\ RulesIdle
  \/ part = "rules" /\ Rules!Init /\ InstanceIdle
PartNext ==
  /\ UNCHANGED part
  /\ \/ part = "instance" /\ Next /\ UNCHANGED ruleVars
     \/ part = "rules" /\ Rules!Next /\ UNCHANGED vars
PartSpec == PartInit /\ [][PartNext]_allVars /\ Fairness /\ WF_ruleVars(Rules!Scales)

-----------------------------------------------------------------------------
\* The three-colour search of hasCycle finds a cycle exactly when there is one
\* (MCInstanceRules).
CycleIsFound == part = "rules" => Rules!CycleIsFound

\* calculateRestartDelay is min(base * 2^(count-1), max) through every overflow
\* (MCInstanceRules).
DelayIsExact == part = "rules" => Rules!DelayIsExact

\* Every graph lets the instance start completely and go completely
\* (MCInstanceRules).
NeverBlocked == Rules!NeverBlocked
=============================================================================
