--------------------------- MODULE RolloutTopology ---------------------------
(***************************************************************************)
(* Sizing of a stateful RoleInstanceSet rollout: what the helpers of       *)
(* pkg/reconciler/roleinstanceset/statefulmode/stateful_instance_set_utils *)
(* .go compute from a spec and from the snapshot of RoleInstances that one *)
(* reconcile pass reads.  No state: the operators below are used by        *)
(* StatefulInstanceSet, which keeps the snapshot.                          *)
(*                                                                         *)
(* A snapshot maps every ordinal to an Instance record; the record whose   *)
(* "created" is FALSE stands for an object that does not exist.            *)
(***************************************************************************)
EXTENDS Integers, FiniteSets

CONSTANTS MaxOrdinal,   \* the ordinals of the instance are 0 .. MaxOrdinal
          Revisions     \* names of ControllerRevisions, one per template

ASSUME OrdinalAssumption == MaxOrdinal \in Nat

\* The empty revision label.
NoRev == "none"
ASSUME RevisionAssumption == NoRev \notin Revisions

Ordinals == 0 .. MaxOrdinal
AnyRevision == Revisions \cup {NoRev}

(***************************************************************************)
(* gate  : the InPlaceUpdateReady readiness gate, "none" when the spec has *)
(*         no such gate, else the status of its condition.                 *)
(* synced: status.observedGeneration is the generation and every component *)
(*         reports all its pods updated (DefaultCheckInPlaceUpdateCompleted).*)
(***************************************************************************)
Gates == {"none", "closed", "open"}
Instance == [created : BOOLEAN, rev : AnyRevision, ready : BOOLEAN,
             term : BOOLEAN, synced : BOOLEAN, gate : Gates]

NoInstance == [created |-> FALSE, rev |-> NoRev, ready |-> FALSE,
               term |-> FALSE, synced |-> FALSE, gate |-> "none"]

\* newVersionedInstance: the object built for an empty slot, not yet created.
Unborn(rev) == [NoInstance EXCEPT !.rev = rev]

-----------------------------------------------------------------------------
(***************************************************************************)
(* IntOrString fields of the spec.                                         *)
(***************************************************************************)
IntOrPercent == [kind : {"unset", "int", "percent"}, n : Int]
Unset == [kind |-> "unset", n |-> 0]
Abs(k) == [kind |-> "int", n |-> k]
Pct(k) == [kind |-> "percent", n |-> k]

\* intstr.GetScaledValueFromIntOrPercent
Scaled(v, total, roundUp) ==
  IF v.kind = "percent"
    THEN (v.n * total + (IF roundUp THEN 99 ELSE 0)) \div 100
    ELSE v.n

NotBelow(lo, n) == IF n < lo THEN lo ELSE n
NotAbove(hi, n) == IF n > hi THEN hi ELSE n

ComputeMaxSurge(v, replicas) ==
  IF v.kind = "unset" THEN 0 ELSE NotBelow(0, Scaled(v, replicas, TRUE))

ComputeMaxUnavailable(v, replicas, maxSurge) ==
  LET w == IF v.kind = "unset" THEN Pct(10) ELSE v
  IN  NotBelow(IF maxSurge = 0 THEN 1 ELSE 0, Scaled(w, replicas, maxSurge = 0))

ComputePartition(v, replicas) ==
  IF v.kind = "unset" THEN 0 ELSE NotBelow(0, NotAbove(replicas, Scaled(v, replicas, FALSE)))

\* The unclamped partition newVersionedInstance compares an ordinal with.
VersioningPartition(v, replicas) ==
  IF v.kind = "unset" THEN 0 ELSE Scaled(v, replicas, FALSE)

-----------------------------------------------------------------------------
(***************************************************************************)
(* What a snapshot I says about the update range [p, r).                   *)
(***************************************************************************)
OrdRange(p, r) == {o \in Ordinals : p <= o /\ o < r}

HealthyOldInBase(I, p, r, upd) ==
  {o \in OrdRange(p, r) : I[o].created /\ I[o].rev # upd /\ I[o].ready /\ ~I[o].term}

ExistingValidSurge(I, r, maxSurge, upd) ==
  {o \in OrdRange(r, r + maxSurge) : I[o].created /\ I[o].rev = upd /\ ~I[o].term}

\* Mutant: the ordinals that have no instance are not counted.
AllPresentBaseHealthy(I, p, r, upd) ==
  \A o \in OrdRange(p, r) : I[o].created => I[o].rev = upd /\ I[o].ready /\ ~I[o].term

\* synced stands for the generation the instance's controller has observed: of
\* an instance at the update revision, no other write is outstanding.
AllBaseAtUpdateRevHealthy(I, p, r, upd) ==
  \A o \in OrdRange(p, r) :
    I[o].created /\ I[o].rev = upd /\ I[o].ready /\ ~I[o].term /\ I[o].synced

HasStaleBaseInstance(I, p, r, upd) ==
  \E o \in OrdRange(p, r) : I[o].created /\ I[o].rev # upd

(***************************************************************************)
(* status.rolloutReplacementState: the scope of an early rollback.         *)
(***************************************************************************)
Replacement == [on : BOOLEAN, upd : AnyRevision, partition : Int, replicas : Int]
NoReplacement == [on |-> FALSE, upd |-> NoRev, partition |-> 0, replicas |-> 0]

ReplacementCovers(x, o) == x.on /\ x.partition <= o /\ o < x.replicas

RolloutReplacementStateActive(x, I, p, r, upd) ==
  /\ x.on
  /\ x.upd = upd
  /\ ~AllBaseAtUpdateRevHealthy(I, NotBelow(x.partition, p), NotAbove(x.replicas, r), upd)

-----------------------------------------------------------------------------
(***************************************************************************)
(* computeTopology.  spec has the fields of RoleInstanceSetSpec the sizing *)
(* reads; "replacing" is the caller's earlyRollbackReplacement.            *)
(***************************************************************************)
Topology == [replicas : Int, partition : Int, maxUnavailable : Int,
             maxSurge : Int, endOrdinal : Int, inRollout : BOOLEAN]

ComputeTopology(spec, I, cur, upd, replacing) ==
  LET r == spec.replicas
      maxSurge == ComputeMaxSurge(spec.maxSurge, r)
      maxUnavailable == ComputeMaxUnavailable(spec.maxUnavailable, r, maxSurge)
      p == ComputePartition(spec.partition, r)
      pending == cur # upd \/ HasStaleBaseInstance(I, p, r, upd) \/ replacing
      existing == Cardinality(ExistingValidSurge(I, r, maxSurge, upd))
      needed == NotBelow(0, Cardinality(HealthyOldInBase(I, p, r, upd)) - maxUnavailable)
      sticky == IF AllBaseAtUpdateRevHealthy(I, p, r, upd) THEN 0 ELSE existing
      active == IF ~pending THEN 0
                ELSE IF spec.paused THEN existing
                ELSE NotBelow(sticky, needed)
  IN  [replicas |-> r, partition |-> p, maxUnavailable |-> maxUnavailable,
       maxSurge |-> maxSurge, endOrdinal |-> r + NotAbove(maxSurge, active),
       inRollout |-> pending /\ ~spec.paused]

-----------------------------------------------------------------------------
(***************************************************************************)
(* progressUpdate's classification.  S is the slot array (empty slots hold *)
(* the Unborn instance), lo and end the range of targets, stable the set   *)
(* of ordinals unhealthy for stableUnhealthyDuration.                      *)
(***************************************************************************)
\* Mutant: a surge instance counts before it is ready.
AllocatedSurge(S, r, end, upd) ==
  {o \in OrdRange(r, end) : S[o].created /\ ~S[o].term /\ S[o].rev = upd}

AvailableSurge(S, r, end, upd) ==
  {o \in OrdRange(r, end) : S[o].created /\ S[o].ready /\ ~S[o].term /\ S[o].rev = upd}

BaseUnavailable(S, r) ==
  {o \in OrdRange(0, r) : ~(S[o].ready /\ S[o].synced /\ ~S[o].term)}

UpdateTargets(S, lo, end, upd) == {o \in OrdRange(lo, end) : S[o].rev # upd}

\* Replacing a free target takes nothing from the maxUnavailable budget.
IsFree(S, r, stable, o) == o >= r \/ S[o].term \/ o \in stable

CostlyTargets(S, t, lo, end, upd, stable) ==
  {o \in UpdateTargets(S, lo, end, upd) : ~IsFree(S, t.replicas, stable, o)}

\* How many healthy base instances this pass may still take down.
UpdateRoom(S, t, end, upd) ==
  t.maxUnavailable + Cardinality(AvailableSurge(S, t.replicas, end, upd))
    - Cardinality(BaseUnavailable(S, t.replicas))

\* The loop runs from the highest ordinal down until the budget is spent.
CostlyUpdates(S, t, lo, end, upd, stable) ==
  LET costly == CostlyTargets(S, t, lo, end, upd, stable)
  IN  {o \in costly :
         Cardinality({u \in costly : u > o}) < UpdateRoom(S, t, end, upd)}

FreeUpdates(S, t, lo, end, upd, stable) ==
  {o \in UpdateTargets(S, lo, end, upd) :
     IsFree(S, t.replicas, stable, o) /\ ~S[o].term}

ProgressUpdate(S, t, lo, end, upd, stable) ==
  CostlyUpdates(S, t, lo, end, upd, stable) \cup FreeUpdates(S, t, lo, end, upd, stable)

=============================================================================
