-------------------------- MODULE CoordinatedPace --------------------------
(***************************************************************************)
(* The coordination rules where nothing lags: roles are scaled up from     *)
(* nothing, or updated, by a controller that always sees the present, for  *)
(* every size, skew and progression.  GroupSystem has the same rules under *)
(* statuses that come late.                                                *)
(***************************************************************************)
EXTENDS Coordination

CONSTANTS
  PacedRoles,
  MaxPaced,      \* bound on the replicas of a role
  Skews          \* the maxSkew percentages

VARIABLES
  rule,      \* the rule, and what it paces: "scale" or "roll"
  wanted,    \* the replicas of each role
  current,   \* the instances of each role
  ready,     \* the ones that are ready
  updated,   \* the ones of the new revision
  kept       \* the partition of each role
paceVars == <<rule, wanted, current, ready, updated, kept>>

\* No pass takes a role beyond what its spec asks for: neither instances nor the
\* partition, and so not the updated ones either.
PaceTypeOK ==
  /\ rule.kind \in {"scale", "roll"} /\ rule.skew \in Skews
  /\ rule.progression \in {"OrderScheduled", "OrderReady", None}
  /\ \A r \in PacedRoles :
       /\ wanted[r] \in 1 .. MaxPaced /\ current[r] \in 0 .. wanted[r]
       /\ ready[r] \in 0 .. current[r] /\ updated[r] \in 0 .. wanted[r]
       /\ kept[r] \in 0 .. wanted[r]

PaceInit ==
  /\ rule \in [kind : {"scale"}, skew : Skews, progression : {"OrderScheduled", "OrderReady"}]
              \cup [kind : {"roll"}, skew : Skews, progression : {None}]
  /\ wanted \in [PacedRoles -> 1 .. MaxPaced]
  /\ current = IF rule.kind = "scale" THEN [r \in PacedRoles |-> 0] ELSE wanted
  /\ ready = current /\ updated = [r \in PacedRoles |-> 0]
  /\ kept = wanted

\* A pass scales, with pods that are scheduled once they exist.
ScaleStep ==
  LET S == [r \in PacedRoles |-> [desired |-> wanted[r], current |-> current[r], ready |-> ready[r],
                                  scheduled |-> current[r], expected |-> current[r]]]
  IN /\ rule.kind = "scale"
     /\ current' = CalculateTargetReplicas(S, [maxSkew |-> rule.skew, progression |-> rule.progression])
     /\ UNCHANGED <<rule, wanted, ready, updated, kept>>

\* A pass moves the partitions.
RollStep ==
  /\ rule.kind = "roll"
  /\ \E s \in RollingStrategies(
               [roles |-> PacedRoles, rolling |-> [maxSkew |-> rule.skew, maxUnavailable |-> None, partition |-> None]],
               [r \in PacedRoles |-> [partition |-> None, maxUnavailable |-> None]], wanted, updated, ready) :
       kept' = [r \in PacedRoles |-> s[r].partition.value]
  /\ UNCHANGED <<rule, wanted, current, ready, updated>>

ReplicaReady(r) ==
  /\ ready[r] < current[r] /\ ready' = [ready EXCEPT ![r] = @ + 1]
  /\ UNCHANGED <<rule, wanted, current, updated, kept>>

\* One instance at a time is unavailable.
UpdateReplica(r) ==
  /\ rule.kind = "roll" /\ ready[r] = current[r] /\ updated[r] < wanted[r] - kept[r]
  /\ updated' = [updated EXCEPT ![r] = @ + 1] /\ ready' = [ready EXCEPT ![r] = @ - 1]
  /\ UNCHANGED <<rule, wanted, current, kept>>

PaceSteps == ScaleStep \/ RollStep
PaceNext == PaceSteps \/ \E r \in PacedRoles : ReplicaReady(r) \/ UpdateReplica(r)
\* Passes are made whenever something changes.  The passes can move the
\* partitions of two roles to and fro, as getFastestAndSlowestRole breaks ties by
\* the random order of a map: strong fairness of the update of a role stands for
\* that order, which does not favour one role for ever; no work queue promises it.
PaceFairness ==
  /\ WF_paceVars(PaceSteps)
  /\ \A r \in PacedRoles : WF_paceVars(ReplicaReady(r)) /\ SF_paceVars(UpdateReplica(r))

\* For two roles the skew is kept up to the rounding to whole instances:
\* without its last instance, no role is further ahead of the other than
\* maxSkew, in instances while scaling and in updated instances while rolling.
SkewKept ==
  \A r, s \in PacedRoles :
    LET n == IF rule.kind = "scale" THEN current ELSE updated
    IN n[r] > 0 => (n[r] - 1) * 100 * wanted[s] <= (100 * n[s] + rule.skew * wanted[s]) * wanted[r]

\* However small the skew, every role gets all its replicas, and all of them
\* are updated.
Completes == []<>(current = wanted /\ ready = wanted /\ (rule.kind = "roll" => updated = wanted))
=============================================================================
